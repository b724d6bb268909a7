------------------------ MODULE ConnectionPoolProofs ------------------------
(***************************************************************************)
(* Proofs about ConnectionPool, for any number of threads, queues and      *)
(* connections.                                                            *)
(***************************************************************************)
EXTENDS ConnectionPool, FiniteSetTheorems, SequenceTheorems, TLAPS

\* A PooledConnection that has not been dropped has a connection.
HeldWhileHolding ==
  \A t \in Threads : pc[t] \in {"holding", "closing"} => held[t] \in Conns

\* While get probes it has an attempt left, so that taking one off stays above zero.
AttemptsLeft == \A t \in Threads : pc[t] \in {"pick", "lock"} => attempts[t] > 0

\* The inductive invariant: the count is exact, and within the share.
PoolInv == TypeOK /\ HeldWhileHolding /\ AttemptsLeft /\ Accounting /\ WithinCapacity

-----------------------------------------------------------------------------
\* Queue indices start at 0, and a share is a natural number.
LEMMA CapacityNat == 0 \in Queues /\ \A q \in Queues : Capacity(q) \in Nat
  BY PoolAssumption DEF Queues, Capacity

\* What is left of a queue after its first k connections have been popped.
LEMMA BeyondType ==
  ASSUME NEW q \in Queues, idle \in [Queues -> Seq(Conns)],
         NEW k \in 0 .. Len(idle[q])
  PROVE  /\ Beyond(q, k) \in Seq(Conns)
         /\ Len(Beyond(q, k)) = Len(idle[q]) - k
  <1>1. idle[q] \in Seq(Conns) /\ Len(idle[q]) \in Nat
    OBVIOUS
  <1>2. CASE k = Len(idle[q])
    BY <1>1, <1>2 DEF Beyond
  <1>3. CASE k < Len(idle[q])
    BY <1>1, <1>3 DEF Beyond
  <1> QED
    BY <1>1, <1>2, <1>3

\* Popped connections are connections.
LEMMA FrontType ==
  ASSUME NEW q \in Queues, idle \in [Queues -> Seq(Conns)],
         NEW k \in 0 .. Len(idle[q])
  PROVE  Front(q, k) \subseteq Conns
  <1>1. idle[q] \in Seq(Conns)
    OBVIOUS
  <1> QED
    BY <1>1 DEF Front

\* The holders of a queue are finitely many.
LEMMA HoldersFinite ==
  \A q : IsFiniteSet(Holders(q)) /\ Cardinality(Holders(q)) \in Nat
  <1> SUFFICES ASSUME NEW q PROVE IsFiniteSet(Holders(q))
    BY FS_CardinalityType
  <1> QED
    BY PoolAssumption, FS_Subset DEF Holders

LEMMA HoldersFiniteNext ==
  (\A q : IsFiniteSet(Holders(q)) /\ Cardinality(Holders(q)) \in Nat)'
  BY HoldersFinite, PTL

\* A thread that obtains a connection joins the holders of its queue.
LEMMA HoldersJoin ==
  ASSUME TypeOK, NEW t \in Threads, pc[t] # "holding",
         pc' = [pc EXCEPT ![t] = "holding"], slot' = slot
  PROVE  \A q \in Queues : Cardinality(Holders(q)') =
           Cardinality(Holders(q)) + (IF q = slot[t] THEN 1 ELSE 0)
  <1> SUFFICES ASSUME NEW q \in Queues
               PROVE  Cardinality(Holders(q)') =
                        Cardinality(Holders(q)) + (IF q = slot[t] THEN 1 ELSE 0)
    OBVIOUS
  <1>1. CASE q = slot[t]
    <2>1. Holders(q)' = Holders(q) \cup {t} /\ t \notin Holders(q)
      BY <1>1 DEF TypeOK, Holders
    <2> QED
      BY <2>1, <1>1, HoldersFinite, FS_AddElement
  <1>2. CASE q # slot[t]
    <2>1. Holders(q)' = Holders(q)
      BY <1>2 DEF TypeOK, Holders
    <2> QED
      BY <2>1, <1>2, HoldersFinite
  <1> QED
    BY <1>1, <1>2

\* A thread that gives its connection up leaves them.
LEMMA HoldersLeave ==
  ASSUME TypeOK, NEW t \in Threads, NEW s, s # "holding", pc[t] = "holding",
         pc' = [pc EXCEPT ![t] = s], NEW u, slot' = [slot EXCEPT ![t] = u]
  PROVE  \A q \in Queues : Cardinality(Holders(q)') =
           Cardinality(Holders(q)) - (IF q = slot[t] THEN 1 ELSE 0)
  <1> SUFFICES ASSUME NEW q \in Queues
               PROVE  Cardinality(Holders(q)') =
                        Cardinality(Holders(q)) - (IF q = slot[t] THEN 1 ELSE 0)
    OBVIOUS
  <1>1. CASE q = slot[t]
    <2>1. Holders(q)' = Holders(q) \ {t} /\ t \in Holders(q)
      BY <1>1 DEF TypeOK, Holders
    <2> QED
      BY <2>1, <1>1, HoldersFinite, FS_RemoveElement
  <1>2. CASE q # slot[t]
    <2>1. Holders(q)' = Holders(q)
      BY <1>2 DEF TypeOK, Holders
    <2> QED
      BY <2>1, <1>2, HoldersFinite
  <1> QED
    BY <1>1, <1>2

\* A thread that moves without a connection leaves the holders alone.
LEMMA HoldersSame ==
  ASSUME TypeOK, NEW t \in Threads, NEW s, s # "holding", pc[t] # "holding",
         pc' = [pc EXCEPT ![t] = s], NEW r, slot' = [slot EXCEPT ![t] = r]
  PROVE  \A q \in Queues : Holders(q)' = Holders(q)
  BY DEF TypeOK, Holders

-----------------------------------------------------------------------------
LEMMA InitPoolInv == Init => PoolInv
  <1> SUFFICES ASSUME Init PROVE PoolInv
    OBVIOUS
  <1>1. TypeOK
    <2>1. closed \in BOOLEAN
      BY Zenon DEF Init
    <2>2. idle \in [Queues -> Seq(Conns)]
      BY DEF Init
    <2> QED
      BY <2>1, <2>2, CapacityNat DEF Init, TypeOK
  <1>2. HeldWhileHolding /\ AttemptsLeft
    BY DEF Init, HeldWhileHolding, AttemptsLeft
  <1>3. \A q : Holders(q) = {}
    BY DEF Init, Holders
  <1>4. Accounting
    <2> SUFFICES ASSUME NEW q \in Queues
                 PROVE  num_conns[q] = Len(idle[q]) + Cardinality(Holders(q))
      BY DEF Accounting
    <2>1. Cardinality(Holders(q)) = 0
      BY <1>3, FS_EmptySet
    <2>2. idle[q] = << >> /\ num_conns[q] = 0
      BY DEF Init
    <2> QED
      BY <2>1, <2>2
  <1>5. WithinCapacity
    BY CapacityNat DEF Init, WithinCapacity
  <1> QED
    BY <1>1, <1>2, <1>4, <1>5 DEF PoolInv

\* One critical section changes one queue: it leaves s in the queue and n in its
\* count, and h more threads hold one of its connections.
LEMMA QueueStep ==
  ASSUME PoolInv, NEW q \in Queues, NEW s \in Seq(Conns), NEW n \in Int, NEW h \in Int,
         idle' = [idle EXCEPT ![q] = s],
         num_conns' = [num_conns EXCEPT ![q] = n],
         \A r \in Queues : Cardinality(Holders(r)') =
                             Cardinality(Holders(r)) + (IF r = q THEN h ELSE 0),
         n = Len(s) + (Cardinality(Holders(q)) + h),
         n <= Capacity(q)
  PROVE  Accounting' /\ WithinCapacity' /\ num_conns' \in [Queues -> Nat]
  <1>1. ASSUME NEW r \in Queues
        PROVE  num_conns'[r] = Len(idle'[r]) + Cardinality(Holders(r)')
    <2>1. num_conns[r] = Len(idle[r]) + Cardinality(Holders(r))
      BY DEF PoolInv, Accounting
    <2>2. CASE r = q
      <3>1. num_conns'[r] = n /\ idle'[r] = s
        BY <2>2 DEF PoolInv, TypeOK
      <3>2. Cardinality(Holders(r)') = Cardinality(Holders(r)) + h
        BY <2>2
      <3> QED
        BY <3>1, <3>2, <2>2
    <2>3. CASE r # q
      <3>1. num_conns'[r] = num_conns[r] /\ idle'[r] = idle[r]
        BY <2>3 DEF PoolInv, TypeOK
      <3>2. Cardinality(Holders(r)') = Cardinality(Holders(r))
        BY <2>3, HoldersFinite
      <3> QED
        BY <3>1, <3>2, <2>1
    <2> QED
      BY <2>2, <2>3
  <1>2. WithinCapacity'
    BY DEF PoolInv, TypeOK, WithinCapacity, Capacity
  <1>3. num_conns' \in [Queues -> Nat]
    <2>1. Cardinality(Holders(q)') \in Nat
      BY HoldersFiniteNext
    <2>2. n \in Nat
      BY <2>1, HoldersFinite
    <2> QED
      BY <2>2 DEF PoolInv, TypeOK
  <1> QED
    BY <1>1, <1>2, <1>3 DEF Accounting

\* The queue a thread works on, its count and its share.
LEMMA QueueFacts ==
  ASSUME PoolInv, NEW t \in Threads
  PROVE  /\ slot[t] \in Queues
         /\ idle \in [Queues -> Seq(Conns)]
         /\ idle[slot[t]] \in Seq(Conns)
         /\ Len(idle[slot[t]]) \in Nat
         /\ Cardinality(Holders(slot[t])) \in Nat
         /\ num_conns[slot[t]] \in Int
         /\ num_conns[slot[t]] = Len(idle[slot[t]]) + Cardinality(Holders(slot[t]))
         /\ num_conns[slot[t]] <= Capacity(slot[t])
         /\ Capacity(slot[t]) \in Nat
         /\ << >> \in Seq(Conns) /\ Len(<< >>) = 0
  <1>1. slot[t] \in Queues
    BY DEF PoolInv, TypeOK
  <1> QED
    BY <1>1, CapacityNat, HoldersFinite DEF PoolInv, TypeOK, WithinCapacity, Accounting

\* Closing a connection in use: the count goes down with the number of holders.
LEMMA GiveUpPlace ==
  ASSUME PoolInv, NEW q \in Queues,
         idle' = idle,
         num_conns' = [num_conns EXCEPT ![q] = num_conns[q] - 1],
         \A r \in Queues : Cardinality(Holders(r)') =
                             Cardinality(Holders(r)) + (IF r = q THEN (-1) ELSE 0)
  PROVE  Accounting' /\ WithinCapacity' /\ num_conns' \in [Queues -> Nat]
  <1> DEFINE n == num_conns[q] - 1
             c == Cardinality(Holders(q))
             l == Len(idle[q])
  <1>1. /\ num_conns[q] = l + c /\ num_conns[q] <= Capacity(q) /\ Capacity(q) \in Nat
        /\ l \in Nat /\ c \in Nat /\ idle[q] \in Seq(Conns)
    BY CapacityNat, HoldersFinite DEF PoolInv, TypeOK, Accounting, WithinCapacity
  <1>2. idle' = [idle EXCEPT ![q] = idle[q]] /\ num_conns' = [num_conns EXCEPT ![q] = n]
    BY DEF PoolInv, TypeOK
  <1> HIDE DEF c, l
  <1>3. n = l + (c + (-1)) /\ n \in Int /\ (-1) \in Int /\ n <= Capacity(q)
    BY <1>1
  <1> HIDE DEF n
  <1>4. n = Len(idle[q]) + (Cardinality(Holders(q)) + (-1))
    BY <1>3 DEF c, l
  <1> QED
    BY <1>1, <1>2, <1>3, <1>4, QueueStep, Zenon

LEMMA TakeIdlePoolInv ==
  ASSUME PoolInv, NEW t \in Threads, pc[t] = "lock", TakeIdle(t)
  PROVE  PoolInv'
  <1> DEFINE q == slot[t]
             c == Cardinality(Holders(q))
  <1>1. PICK k \in 0 .. Len(idle[q]) - 1 :
          /\ idle' = [idle EXCEPT ![q] = Beyond(q, k + 1)]
          /\ num_conns' = [num_conns EXCEPT ![q] = num_conns[q] - k]
          /\ held' = [held EXCEPT ![t] = idle[q][k + 1]]
          /\ pc' = [pc EXCEPT ![t] = "holding"]
          /\ Shut(Front(q, k))
          /\ attempts' = [attempts EXCEPT ![t] = 0]
          /\ UNCHANGED <<queue_counter, slot, closed>>
    BY DEF TakeIdle, Obtain
  <1>2. /\ q \in Queues /\ idle[q] \in Seq(Conns) /\ Len(idle[q]) \in Nat /\ c \in Nat
        /\ num_conns[q] = Len(idle[q]) + c
        /\ num_conns[q] \in Int /\ num_conns[q] <= Capacity(q) /\ Capacity(q) \in Nat
    BY QueueFacts
  <1>3. \A r \in Queues : Cardinality(Holders(r)') =
                            Cardinality(Holders(r)) + (IF r = q THEN 1 ELSE 0)
    BY <1>1, HoldersJoin DEF PoolInv
  <1>4. Beyond(q, k + 1) \in Seq(Conns) /\ Len(Beyond(q, k + 1)) = Len(idle[q]) - (k + 1)
    <2>1. k + 1 \in 0 .. Len(idle[q])
      BY <1>2
    <2> QED
      BY <2>1, <1>2, BeyondType DEF PoolInv, TypeOK
  <1>5. idle[q][k + 1] \in Conns
    BY <1>2
  <1>6. HeldWhileHolding' /\ AttemptsLeft'
    BY <1>1, <1>5 DEF PoolInv, TypeOK, HeldWhileHolding, AttemptsLeft
  <1>7. Accounting' /\ WithinCapacity' /\ num_conns' \in [Queues -> Nat]
    <2> DEFINE l == Len(idle[q])
               n == num_conns[q] - k
    <2>1. Len(Beyond(q, k + 1)) = l - (k + 1) /\ num_conns[q] = l + c /\ l \in Nat /\ c \in Nat
      BY <1>2, <1>4
    <2> HIDE DEF q, c, l
    <2>2. n = Len(Beyond(q, k + 1)) + (c + 1) /\ n \in Int /\ n <= Capacity(q)
      BY <2>1, <1>2
    <2>3. idle' = [idle EXCEPT ![q] = Beyond(q, k + 1)] /\ num_conns' = [num_conns EXCEPT ![q] = n]
      BY <1>1
    <2> HIDE DEF n
    <2> QED
      <3>1. n = Len(Beyond(q, k + 1)) + (Cardinality(Holders(q)) + 1)
        BY <2>2 DEF c
      <3>2. /\ n \in Int /\ n <= Capacity(q) /\ 1 \in Int
            /\ Beyond(q, k + 1) \in Seq(Conns) /\ q \in Queues
        BY <2>2, <1>2, <1>4
      <3> QED
        BY <3>1, <3>2, <2>3, <1>3, QueueStep, Zenon
  <1>8. TypeOK'
    <2>1. closed' \in BOOLEAN
      BY <1>1, Zenon DEF PoolInv, TypeOK
    <2>2. idle' \in [Queues -> Seq(Conns)]
      BY <1>1, <1>2, <1>4, <1>5 DEF PoolInv, TypeOK
    <2>3. open' \subseteq Conns /\ expired' \subseteq Conns
      BY <1>1 DEF PoolInv, TypeOK, Shut
    <2> QED
      BY <1>7, <2>1, <2>2, <2>3, <1>1, <1>4, <1>5, CapacityNat DEF PoolInv, TypeOK
  <1> QED
    BY <1>8, <1>6, <1>7 DEF PoolInv

LEMMA OpenNewPoolInv ==
  ASSUME PoolInv, NEW t \in Threads, pc[t] = "lock", OpenNew(t)
  PROVE  PoolInv'
  <1> DEFINE q == slot[t]
             c == Cardinality(Holders(q))
             k == Len(idle[q])
  <1>1. /\ num_conns[q] - k < Capacity(q)
        /\ \E d \in Conns \ open : /\ held' = [held EXCEPT ![t] = d]
                                    /\ open' = (open \ Front(q, k)) \cup {d}
        /\ expired' = expired \ Front(q, k)
        /\ idle' = [idle EXCEPT ![q] = << >>]
        /\ num_conns' = [num_conns EXCEPT ![q] = (num_conns[q] - k) + 1]
        /\ pc' = [pc EXCEPT ![t] = "holding"]
        /\ attempts' = [attempts EXCEPT ![t] = 0]
        /\ UNCHANGED <<queue_counter, slot, closed>>
    BY DEF OpenNew, HasRoom, Obtain
  <1>2. /\ q \in Queues /\ idle[q] \in Seq(Conns) /\ Len(idle[q]) \in Nat /\ c \in Nat
        /\ num_conns[q] = Len(idle[q]) + c /\ << >> \in Seq(Conns) /\ Len(<< >>) = 0
        /\ num_conns[q] \in Int /\ num_conns[q] <= Capacity(q) /\ Capacity(q) \in Nat
    BY QueueFacts
  <1>3. \A r \in Queues : Cardinality(Holders(r)') =
                            Cardinality(Holders(r)) + (IF r = q THEN 1 ELSE 0)
    BY <1>1, HoldersJoin DEF PoolInv
  <1>4. HeldWhileHolding' /\ AttemptsLeft'
    BY <1>1 DEF PoolInv, TypeOK, HeldWhileHolding, AttemptsLeft
  <1>5. Accounting' /\ WithinCapacity' /\ num_conns' \in [Queues -> Nat]
    <2> DEFINE l == Len(idle[q])
               n == (num_conns[q] - k) + 1
               s == << >>
    <2>1. s \in Seq(Conns) /\ Len(s) = 0
      BY <1>2
    <2>2. num_conns[q] = l + c /\ l \in Nat /\ c \in Nat /\ num_conns[q] <= Capacity(q) /\ k = l
      BY <1>2
    <2>3. idle' = [idle EXCEPT ![q] = s] /\ num_conns' = [num_conns EXCEPT ![q] = n]
      BY <1>1, <1>2 DEF PoolInv, TypeOK
    <2> HIDE DEF q, c, l, s, k
    <2>4. n = Len(s) + (c + (1)) /\ n \in Int /\ n <= Capacity(q) /\ (1) \in Int
      BY <2>1, <2>2, <1>1, <1>2
    <2> HIDE DEF n
    <2>5. n = Len(s) + (Cardinality(Holders(q)) + (1))
      BY <2>4 DEF c
    <2>6. q \in Queues
      BY <1>2
    <2> QED
      BY <2>1, <2>3, <2>4, <2>5, <2>6, <1>3, QueueStep, Zenon
  <1>6. TypeOK'
    <2>1. closed' \in BOOLEAN
      BY <1>1, Zenon DEF PoolInv, TypeOK
    <2>2. idle' \in [Queues -> Seq(Conns)]
      BY <1>1, <1>2 DEF PoolInv, TypeOK
    <2>3. open' \subseteq Conns /\ expired' \subseteq Conns
      BY <1>1 DEF PoolInv, TypeOK, Shut
    <2> QED
      BY <1>5, <2>1, <2>2, <2>3, <1>1, CapacityNat DEF PoolInv, TypeOK
  <1> QED
    BY <1>6, <1>4, <1>5 DEF PoolInv

LEMMA OpenFailsPoolInv ==
  ASSUME PoolInv, NEW t \in Threads, pc[t] = "lock", OpenFails(t)
  PROVE  PoolInv'
  <1> DEFINE q == slot[t]
             c == Cardinality(Holders(q))
             k == Len(idle[q])
  <1>1. /\ idle' = [idle EXCEPT ![q] = << >>]
        /\ num_conns' = [num_conns EXCEPT ![q] = num_conns[q] - k]
        /\ pc' = [pc EXCEPT ![t] = "out"]
        /\ pc[t] # "holding"
        /\ Shut(Front(q, k))
        /\ slot' = [slot EXCEPT ![t] = 0]
        /\ attempts' = [attempts EXCEPT ![t] = 0]
        /\ UNCHANGED <<queue_counter, held, closed>>
    BY DEF OpenFails, Leave
  <1>2. /\ q \in Queues /\ idle[q] \in Seq(Conns) /\ Len(idle[q]) \in Nat /\ c \in Nat
        /\ num_conns[q] = Len(idle[q]) + c /\ << >> \in Seq(Conns) /\ Len(<< >>) = 0
        /\ num_conns[q] \in Int /\ num_conns[q] <= Capacity(q) /\ Capacity(q) \in Nat
    BY QueueFacts
  <1>3. \A r \in Queues : Cardinality(Holders(r)') =
                            Cardinality(Holders(r)) + (IF r = q THEN 0 ELSE 0)
    <2>1. \A r \in Queues : Holders(r)' = Holders(r)
      BY <1>1, HoldersSame DEF PoolInv
    <2> QED
      BY <2>1, HoldersFinite
  <1>4. HeldWhileHolding' /\ AttemptsLeft'
    BY <1>1 DEF PoolInv, TypeOK, HeldWhileHolding, AttemptsLeft
  <1>5. Accounting' /\ WithinCapacity' /\ num_conns' \in [Queues -> Nat]
    <2> DEFINE l == Len(idle[q])
               n == num_conns[q] - k
               s == << >>
    <2>1. s \in Seq(Conns) /\ Len(s) = 0
      BY <1>2
    <2>2. num_conns[q] = l + c /\ l \in Nat /\ c \in Nat /\ num_conns[q] <= Capacity(q) /\ k = l
      BY <1>2
    <2>3. idle' = [idle EXCEPT ![q] = s] /\ num_conns' = [num_conns EXCEPT ![q] = n]
      BY <1>1, <1>2 DEF PoolInv, TypeOK
    <2> HIDE DEF q, c, l, s, k
    <2>4. n = Len(s) + (c + (0)) /\ n \in Int /\ n <= Capacity(q) /\ (0) \in Int
      BY <2>1, <2>2, <1>1, <1>2
    <2> HIDE DEF n
    <2>5. n = Len(s) + (Cardinality(Holders(q)) + (0))
      BY <2>4 DEF c
    <2>6. q \in Queues
      BY <1>2
    <2> QED
      BY <2>1, <2>3, <2>4, <2>5, <2>6, <1>3, QueueStep, Zenon
  <1>6. TypeOK'
    <2>1. closed' \in BOOLEAN
      BY <1>1, Zenon DEF PoolInv, TypeOK
    <2>2. idle' \in [Queues -> Seq(Conns)]
      BY <1>1, <1>2 DEF PoolInv, TypeOK
    <2>3. open' \subseteq Conns /\ expired' \subseteq Conns
      BY <1>1 DEF PoolInv, TypeOK, Shut
    <2> QED
      BY <1>5, <2>1, <2>2, <2>3, <1>1, CapacityNat DEF PoolInv, TypeOK
  <1> QED
    BY <1>6, <1>4, <1>5 DEF PoolInv

LEMMA QueueFullPoolInv ==
  ASSUME PoolInv, NEW t \in Threads, pc[t] = "lock", QueueFull(t)
  PROVE  PoolInv'
  <1> DEFINE q == slot[t]
             c == Cardinality(Holders(q))
             k == Len(idle[q])
  <1>1. /\ idle' = [idle EXCEPT ![q] = << >>]
        /\ num_conns' = [num_conns EXCEPT ![q] = num_conns[q] - k]
        /\ pc[t] # "holding"
        /\ Shut(Front(q, k))
        /\ UNCHANGED <<queue_counter, held, closed>>
    BY DEF QueueFull
  <1>9. PICK p \in {"pick", "out"}, u \in {slot[t], 0}, a \in {attempts[t] - 1, 0} :
           /\ pc' = [pc EXCEPT ![t] = p] /\ p # "holding"
           /\ slot' = [slot EXCEPT ![t] = u]
           /\ attempts' = [attempts EXCEPT ![t] = a]
           /\ a \in Nat /\ (p = "pick" => a > 0)
    <2>1. CASE /\ attempts[t] - 1 > 0 /\ attempts' = [attempts EXCEPT ![t] = @ - 1]
               /\ pc' = [pc EXCEPT ![t] = "pick"] /\ UNCHANGED slot
      <3>1. slot' = [slot EXCEPT ![t] = slot[t]] /\ attempts[t] - 1 \in Nat
        BY <2>1 DEF PoolInv, TypeOK
      <3> QED
        BY <3>1, <2>1
    <2>2. CASE Leave(t)
      BY <2>2 DEF Leave
    <2> QED
      BY <2>1, <2>2 DEF QueueFull
  <1>2. /\ q \in Queues /\ idle[q] \in Seq(Conns) /\ Len(idle[q]) \in Nat /\ c \in Nat
        /\ num_conns[q] = Len(idle[q]) + c /\ << >> \in Seq(Conns) /\ Len(<< >>) = 0
        /\ num_conns[q] \in Int /\ num_conns[q] <= Capacity(q) /\ Capacity(q) \in Nat
    BY QueueFacts
  <1>3. \A r \in Queues : Cardinality(Holders(r)') =
                            Cardinality(Holders(r)) + (IF r = q THEN 0 ELSE 0)
    <2>1. \A r \in Queues : Holders(r)' = Holders(r)
      BY <1>1, <1>9, HoldersSame DEF PoolInv
    <2> QED
      BY <2>1, HoldersFinite
  <1>4. HeldWhileHolding' /\ AttemptsLeft'
    BY <1>1, <1>9 DEF PoolInv, TypeOK, HeldWhileHolding, AttemptsLeft
  <1>5. Accounting' /\ WithinCapacity' /\ num_conns' \in [Queues -> Nat]
    <2> DEFINE l == Len(idle[q])
               n == num_conns[q] - k
               s == << >>
    <2>1. s \in Seq(Conns) /\ Len(s) = 0
      BY <1>2
    <2>2. num_conns[q] = l + c /\ l \in Nat /\ c \in Nat /\ num_conns[q] <= Capacity(q) /\ k = l
      BY <1>2
    <2>3. idle' = [idle EXCEPT ![q] = s] /\ num_conns' = [num_conns EXCEPT ![q] = n]
      BY <1>1, <1>2 DEF PoolInv, TypeOK
    <2> HIDE DEF q, c, l, s, k
    <2>4. n = Len(s) + (c + (0)) /\ n \in Int /\ n <= Capacity(q) /\ (0) \in Int
      BY <2>1, <2>2, <1>1, <1>2
    <2> HIDE DEF n
    <2>5. n = Len(s) + (Cardinality(Holders(q)) + (0))
      BY <2>4 DEF c
    <2>6. q \in Queues
      BY <1>2
    <2> QED
      BY <2>1, <2>3, <2>4, <2>5, <2>6, <1>3, QueueStep, Zenon
  <1>6. TypeOK'
    <2>1. closed' \in BOOLEAN
      BY <1>1, Zenon DEF PoolInv, TypeOK
    <2>2. attempts' \in [Threads -> Nat] /\ slot' \in [Threads -> Queues]
      BY <1>9, CapacityNat DEF PoolInv, TypeOK
    <2>3. pc' \in [Threads -> {"out", "pick", "lock", "holding", "closing"}]
      BY <1>9 DEF PoolInv, TypeOK
    <2> QED
      BY <1>5, <2>1, <2>2, <2>3, <1>1, <1>2 DEF PoolInv, TypeOK, Shut
  <1> QED
    BY <1>6, <1>4, <1>5 DEF PoolInv

LEMMA TimeoutFailsPoolInv ==
  ASSUME PoolInv, NEW t \in Threads, pc[t] = "lock", TimeoutFails(t)
  PROVE  PoolInv'
  <1> DEFINE q == slot[t]
             c == Cardinality(Holders(q))
  <1>1. PICK k \in 0 .. Len(idle[q]) - 1 :
          /\ idle' = [idle EXCEPT ![q] = Beyond(q, k + 1)]
          /\ num_conns' = [num_conns EXCEPT ![q] = (num_conns[q] - k) - 1]
          /\ pc' = [pc EXCEPT ![t] = "out"]
          /\ pc[t] # "holding"
          /\ Shut(Front(q, k + 1))
          /\ slot' = [slot EXCEPT ![t] = 0]
          /\ attempts' = [attempts EXCEPT ![t] = 0]
          /\ UNCHANGED <<queue_counter, held, closed>>
    BY DEF TimeoutFails, Leave
  <1>2. /\ q \in Queues /\ idle[q] \in Seq(Conns) /\ Len(idle[q]) \in Nat /\ c \in Nat
        /\ num_conns[q] = Len(idle[q]) + c /\ << >> \in Seq(Conns) /\ Len(<< >>) = 0
        /\ num_conns[q] \in Int /\ num_conns[q] <= Capacity(q) /\ Capacity(q) \in Nat
    BY QueueFacts
  <1>3. \A r \in Queues : Cardinality(Holders(r)') =
                            Cardinality(Holders(r)) + (IF r = q THEN 0 ELSE 0)
    <2>1. \A r \in Queues : Holders(r)' = Holders(r)
      BY <1>1, HoldersSame DEF PoolInv
    <2> QED
      BY <2>1, HoldersFinite
  <1>4. Beyond(q, k + 1) \in Seq(Conns) /\ Len(Beyond(q, k + 1)) = Len(idle[q]) - (k + 1)
    <2>1. k + 1 \in 0 .. Len(idle[q])
      BY <1>2
    <2> QED
      BY <2>1, <1>2, BeyondType DEF PoolInv, TypeOK
  <1>5. HeldWhileHolding' /\ AttemptsLeft'
    BY <1>1 DEF PoolInv, TypeOK, HeldWhileHolding, AttemptsLeft
  <1>6. Accounting' /\ WithinCapacity' /\ num_conns' \in [Queues -> Nat]
    <2> DEFINE l == Len(idle[q])
               n == (num_conns[q] - k) - 1
               s == Beyond(q, k + 1)
    <2>1. s \in Seq(Conns) /\ Len(s) = l - (k + 1)
      BY <1>4
    <2>2. num_conns[q] = l + c /\ l \in Nat /\ c \in Nat /\ num_conns[q] <= Capacity(q) /\ k \in Nat
      BY <1>2
    <2>3. idle' = [idle EXCEPT ![q] = s] /\ num_conns' = [num_conns EXCEPT ![q] = n]
      BY <1>1, <1>2 DEF PoolInv, TypeOK
    <2> HIDE DEF q, c, l, s
    <2>4. n = Len(s) + (c + (0)) /\ n \in Int /\ n <= Capacity(q) /\ (0) \in Int
      BY <2>1, <2>2, <1>1, <1>2
    <2> HIDE DEF n
    <2>5. n = Len(s) + (Cardinality(Holders(q)) + (0))
      BY <2>4 DEF c
    <2>6. q \in Queues
      BY <1>2
    <2> QED
      BY <2>1, <2>3, <2>4, <2>5, <2>6, <1>3, QueueStep, Zenon
  <1>7. TypeOK'
    <2>1. closed' \in BOOLEAN
      BY <1>1, Zenon DEF PoolInv, TypeOK
    <2>2. idle' \in [Queues -> Seq(Conns)]
      BY <1>1, <1>2, <1>4 DEF PoolInv, TypeOK
    <2>3. open' \subseteq Conns /\ expired' \subseteq Conns
      BY <1>1 DEF PoolInv, TypeOK, Shut
    <2> QED
      BY <1>6, <2>1, <2>2, <2>3, <1>1, <1>4, CapacityNat DEF PoolInv, TypeOK
  <1> QED
    BY <1>7, <1>5, <1>6 DEF PoolInv

LEMMA PutBackPoolInv ==
  ASSUME PoolInv, NEW t \in Threads, PutBack(t)
  PROVE  PoolInv'
  <1> DEFINE q == slot[t]
             c == Cardinality(Holders(q))
  <1>1. /\ pc[t] = "holding"
        /\ held' = [held EXCEPT ![t] = NoConn]
        /\ pc' = [pc EXCEPT ![t] = "out"]
        /\ slot' = [slot EXCEPT ![t] = 0]
        /\ attempts' = [attempts EXCEPT ![t] = 0]
        /\ UNCHANGED <<queue_counter, closed>>
    BY DEF PutBack, Leave
  <1>2. /\ q \in Queues /\ idle[q] \in Seq(Conns) /\ Len(idle[q]) \in Nat /\ c \in Nat
        /\ num_conns[q] = Len(idle[q]) + c /\ << >> \in Seq(Conns) /\ Len(<< >>) = 0
        /\ num_conns[q] \in Int /\ num_conns[q] <= Capacity(q) /\ Capacity(q) \in Nat
    BY QueueFacts
  <1>3. \A r \in Queues : Cardinality(Holders(r)') =
                            Cardinality(Holders(r)) + (IF r = q THEN (-1) ELSE 0)
    <2>1. \A r \in Queues : Cardinality(Holders(r)') =
                              Cardinality(Holders(r)) - (IF r = q THEN 1 ELSE 0)
      BY <1>1, HoldersLeave DEF PoolInv
    <2> QED
      BY <2>1, HoldersFinite
  <1>4. held[t] \in Conns
    BY <1>1 DEF PoolInv, HeldWhileHolding
  <1>5. HeldWhileHolding' /\ AttemptsLeft'
    BY <1>1 DEF PoolInv, TypeOK, HeldWhileHolding, AttemptsLeft
  <1>6. CASE num_conns[q] < Capacity(q)
    <2>1. idle' = [idle EXCEPT ![q] = Append(idle[q], held[t])] /\ UNCHANGED <<num_conns, open, expired>>
      BY <1>6 DEF PutBack
    <2>2. Accounting' /\ WithinCapacity' /\ num_conns' \in [Queues -> Nat]
      <3> DEFINE l == Len(idle[q])
                 n == num_conns[q]
                 s == Append(idle[q], held[t])
      <3>1. s \in Seq(Conns) /\ Len(s) = l + 1
        BY <1>2, <1>4
      <3>2. n = l + c /\ l \in Nat /\ c \in Nat /\ n <= Capacity(q) /\ q \in Queues
        BY <1>2
      <3>3. idle' = [idle EXCEPT ![q] = s] /\ num_conns' = [num_conns EXCEPT ![q] = n]
        BY <2>1, <1>2 DEF PoolInv, TypeOK
      <3> HIDE DEF q, c, l, s, n
      <3>4. n = Len(s) + (c + (-1)) /\ n \in Int /\ (-1) \in Int
        BY <3>1, <3>2
      <3>5. n = Len(s) + (Cardinality(Holders(q)) + (-1))
        BY <3>4 DEF c
      <3> QED
        BY <3>1, <3>2, <3>3, <3>4, <3>5, <1>3, QueueStep, Zenon
    <2>3. TypeOK'
      <3>1. closed' \in BOOLEAN
        BY <1>1, Zenon DEF PoolInv, TypeOK
      <3> QED
        BY <2>2, <3>1, <2>1, CapacityNat, <1>1, <1>2, <1>4 DEF PoolInv, TypeOK
    <2> QED
      BY <2>2, <2>3, <1>5 DEF PoolInv
  <1>7. CASE ~(num_conns[q] < Capacity(q))
    <2>1. num_conns' = [num_conns EXCEPT ![q] = num_conns[q] - 1] /\ Shut({held[t]}) /\ idle' = idle
      BY <1>7 DEF PutBack
    <2>2. Accounting' /\ WithinCapacity' /\ num_conns' \in [Queues -> Nat]
      BY <2>1, <1>2, <1>3, GiveUpPlace, Zenon
    <2>3. TypeOK'
      <3>1. closed' \in BOOLEAN
        BY <1>1, Zenon DEF PoolInv, TypeOK
      <3> QED
        BY <2>2, <3>1, <2>1, CapacityNat, <1>1, <1>2, <1>4 DEF PoolInv, TypeOK, Shut
    <2> QED
      BY <2>2, <2>3, <1>5 DEF PoolInv
  <1> QED
    BY <1>6, <1>7

LEMMA DropConnPoolInv ==
  ASSUME PoolInv, NEW t \in Threads, DropConn(t)
  PROVE  PoolInv'
  <1> DEFINE q == slot[t]
             c == Cardinality(Holders(q))
  <1>1. /\ pc[t] = "holding"
        /\ num_conns' = [num_conns EXCEPT ![q] = num_conns[q] - 1]
        /\ pc' = [pc EXCEPT ![t] = "closing"]
        /\ idle' = idle
        /\ UNCHANGED <<queue_counter, slot, attempts, held, open, expired, closed>>
    BY DEF DropConn
  <1>2. /\ q \in Queues /\ idle[q] \in Seq(Conns) /\ Len(idle[q]) \in Nat /\ c \in Nat
        /\ num_conns[q] = Len(idle[q]) + c /\ << >> \in Seq(Conns) /\ Len(<< >>) = 0
        /\ num_conns[q] \in Int /\ num_conns[q] <= Capacity(q) /\ Capacity(q) \in Nat
    BY QueueFacts
  <1>3. \A r \in Queues : Cardinality(Holders(r)') =
                            Cardinality(Holders(r)) + (IF r = q THEN (-1) ELSE 0)
    <2>1. \A r \in Queues : Cardinality(Holders(r)') =
                              Cardinality(Holders(r)) - (IF r = q THEN 1 ELSE 0)
      <3>1. slot' = [slot EXCEPT ![t] = slot[t]]
        BY <1>1 DEF PoolInv, TypeOK
      <3> QED
        BY <1>1, <3>1, HoldersLeave DEF PoolInv
    <2> QED
      BY <2>1, HoldersFinite
  <1>4. HeldWhileHolding' /\ AttemptsLeft'
    BY <1>1 DEF PoolInv, TypeOK, HeldWhileHolding, AttemptsLeft
  <1>5. Accounting' /\ WithinCapacity' /\ num_conns' \in [Queues -> Nat]
    BY <1>1, <1>2, <1>3, GiveUpPlace, Zenon
  <1>6. TypeOK'
    <2>1. closed' \in BOOLEAN
      BY <1>1, Zenon DEF PoolInv, TypeOK
    <2>2. idle' \in [Queues -> Seq(Conns)]
      BY <1>1, <1>2 DEF PoolInv, TypeOK
    <2>3. open' \subseteq Conns /\ expired' \subseteq Conns
      BY <1>1 DEF PoolInv, TypeOK, Shut
    <2> QED
      BY <1>5, <2>1, <2>2, <2>3, <1>1, CapacityNat DEF PoolInv, TypeOK
  <1> QED
    BY <1>6, <1>4, <1>5 DEF PoolInv

\* Steps that change no queue and give nobody a connection.
LEMMA CallStepPoolInv ==
  ASSUME PoolInv, NEW t \in Threads, StartGet(t) \/ PickQueue(t) \/ CloseDropped(t)
  PROVE  PoolInv'
  <1>1. queueVars' = queueVars /\ UNCHANGED closed
    BY DEF StartGet, PickQueue, CloseDropped
  <1>2. TypeOK'
    <2>1. closed' \in BOOLEAN
      BY <1>1, Zenon DEF PoolInv, TypeOK
    <2>2. CASE StartGet(t)
      BY <2>1, <2>2, CapacityNat, PoolAssumption DEF PoolInv, TypeOK, StartGet, queueVars
    <2>3. CASE PickQueue(t)
      <3>1. queue_counter' \in Queues
        BY <2>3, PoolAssumption DEF PoolInv, TypeOK, PickQueue, Queues
      <3> QED
        BY <2>1, <2>3, <3>1 DEF PoolInv, TypeOK, PickQueue, queueVars
    <2>4. CASE CloseDropped(t)
      BY <2>1, <2>4, CapacityNat DEF PoolInv, TypeOK, CloseDropped, Leave, Shut, queueVars
    <2> QED
      BY <2>2, <2>3, <2>4
  <1>3. HeldWhileHolding' /\ AttemptsLeft'
    <2>1. HeldWhileHolding'
      BY DEF PoolInv, TypeOK, HeldWhileHolding, StartGet, PickQueue, CloseDropped, Leave
    <2>2. CASE StartGet(t)
      <3>1. attempts' = [attempts EXCEPT ![t] = ConnPoolsPerNode]
        BY <2>2 DEF StartGet
      <3>2. ConnPoolsPerNode > 0 /\ \A u \in Threads \ {t} : pc'[u] = pc[u]
        BY <2>2, PoolAssumption DEF StartGet, PoolInv, TypeOK
      <3> QED
        BY <2>1, <3>1, <3>2 DEF PoolInv, TypeOK, AttemptsLeft
    <2>3. CASE PickQueue(t)
      BY <2>1, <2>3 DEF PoolInv, TypeOK, AttemptsLeft, PickQueue
    <2>4. CASE CloseDropped(t)
      BY <2>1, <2>4 DEF PoolInv, TypeOK, AttemptsLeft, CloseDropped, Leave
    <2> QED
      BY <2>2, <2>3, <2>4
  <1>4. \A q \in Queues : Holders(q)' = Holders(q)
    BY DEF PoolInv, TypeOK, Holders, StartGet, PickQueue, CloseDropped, Leave
  <1>5. Accounting' /\ WithinCapacity'
    BY <1>1, <1>4 DEF PoolInv, Accounting, WithinCapacity, queueVars, Capacity
  <1> QED
    BY <1>2, <1>3, <1>5 DEF PoolInv

\* Steps that only move idle deadlines.
LEMMA DeadlinePoolInv ==
  ASSUME PoolInv,
         \/ \E c \in Conns : Expire(c)
         \/ UNCHANGED vars
  PROVE  PoolInv'
  <1>1. UNCHANGED <<idle, num_conns, queue_counter, pc, slot, attempts, held, open, closed>>
    BY DEF Expire, vars, queueVars, callVars
  <1>2. expired' \subseteq Conns
    BY DEF PoolInv, TypeOK, Expire, vars
  <1>3. TypeOK'
    <2>1. closed' \in BOOLEAN
      BY <1>1, Zenon DEF PoolInv, TypeOK
    <2> QED
      BY <2>1, <1>1, <1>2 DEF PoolInv, TypeOK
  <1>4. \A q \in Queues : Holders(q)' = Holders(q)
    BY <1>1 DEF Holders
  <1> QED
    BY <1>1, <1>3, <1>4 DEF PoolInv, HeldWhileHolding, AttemptsLeft, Accounting,
                            WithinCapacity, Capacity

LEMMA ClosePoolInv ==
  ASSUME PoolInv, ClosePool
  PROVE  PoolInv'
  <1>1. /\ \A t \in Threads : pc[t] = "out"
        /\ closed' = TRUE
        /\ open' \subseteq open /\ expired' \subseteq expired
        /\ idle' = [q \in Queues |-> << >>]
        /\ num_conns' = [q \in Queues |-> 0]
        /\ UNCHANGED <<queue_counter, pc, slot, attempts, held>>
    BY DEF ClosePool, Shut, callVars, PoolInv, TypeOK
  <1>2. TypeOK'
    <2>1. closed' \in BOOLEAN
      BY <1>1
    <2>2. idle' \in [Queues -> Seq(Conns)]
      BY <1>1
    <2> QED
      BY <2>1, <2>2, <1>1 DEF PoolInv, TypeOK
  <1>3. \A q \in Queues : Holders(q)' = {}
    BY <1>1 DEF Holders
  <1>4. Accounting'
    <2> SUFFICES ASSUME NEW q \in Queues
                 PROVE  num_conns'[q] = Len(idle'[q]) + Cardinality(Holders(q)')
      BY DEF Accounting
    <2>1. Cardinality(Holders(q)') = 0
      BY <1>3, FS_EmptySet
    <2>2. idle'[q] = << >> /\ num_conns'[q] = 0
      BY <1>1
    <2> QED
      BY <2>1, <2>2
  <1>5. WithinCapacity'
    BY <1>1, CapacityNat DEF WithinCapacity, Capacity
  <1>6. HeldWhileHolding' /\ AttemptsLeft'
    BY <1>1 DEF PoolInv, HeldWhileHolding, AttemptsLeft
  <1> QED
    BY <1>2, <1>4, <1>5, <1>6 DEF PoolInv

LEMMA NextPoolInv == PoolInv /\ [Next]_vars => PoolInv'
  <1> SUFFICES ASSUME PoolInv, [Next]_vars PROVE PoolInv'
    OBVIOUS
  <1>1. ASSUME NEW t \in Threads, QueueGet(t) PROVE PoolInv'
    BY <1>1, TakeIdlePoolInv, OpenNewPoolInv, OpenFailsPoolInv, TimeoutFailsPoolInv,
       QueueFullPoolInv, Zenon DEF QueueGet
  <1>2. ASSUME NEW t \in Threads, PutBack(t) \/ DropConn(t) PROVE PoolInv'
    BY <1>2, PutBackPoolInv, DropConnPoolInv, Zenon
  <1>3. ASSUME NEW t \in Threads, StartGet(t) \/ PickQueue(t) \/ CloseDropped(t) PROVE PoolInv'
    BY <1>3, CallStepPoolInv, Zenon
  <1>4. CASE \/ \E c \in Conns : Expire(c)
             \/ UNCHANGED vars
    BY <1>4, DeadlinePoolInv, Zenon
  <1>5. CASE ClosePool
    BY <1>5, ClosePoolInv, Zenon
  <1> QED
    BY <1>1, <1>2, <1>3, <1>4, <1>5, Zenon DEF Next, Step

\* Every reachable state is well typed: in particular no step of get, put_back or
\* drop_conn takes the usize num_conns of a queue below zero, and the attempts of get
\* stay natural.
THEOREM PoolTypeCorrect == Spec => []TypeOK
  <1>1. PoolInv => TypeOK
    BY DEF PoolInv
  <1> QED
    BY <1>1, InitPoolInv, NextPoolInv, PTL DEF Spec

\* num_conns is the number of idle connections plus the number of threads with a
\* connection of the queue, for any number of threads and queues: no
\* interleaving of Queue::get, put_back, drop_conn and clear leaks a place or gives
\* one back twice.
THEOREM PoolAccounting == Spec => []Accounting
  <1>1. PoolInv => Accounting
    BY DEF PoolInv
  <1> QED
    BY <1>1, InitPoolInv, NextPoolInv, PTL DEF Spec

\* No queue ever answers for more connections than its share of
\* max_conns_per_node.
THEOREM PoolWithinCapacity == Spec => []WithinCapacity
  <1>1. PoolInv => WithinCapacity
    BY DEF PoolInv
  <1> QED
    BY <1>1, InitPoolInv, NextPoolInv, PTL DEF Spec
=============================================================================
