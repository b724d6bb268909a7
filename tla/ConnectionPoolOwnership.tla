----------------------- MODULE ConnectionPoolOwnership -----------------------
(***************************************************************************)
(* Further proofs about ConnectionPool: who owns a connection, that no     *)
(* socket is lost, how many there are, and that the pool implements        *)
(* BoundedPool.  They rest on the accounting of ConnectionPoolProofs.      *)
(***************************************************************************)
EXTENDS ConnectionPoolProofs, FunctionTheorems

-----------------------------------------------------------------------------
(* The shares of the queues add up to max_conns_per_node. *)

\* Numbering the places of all queues row by row: place i of queue q gets number
\* (i - 1) * ConnPoolsPerNode + q, which is less than max_conns_per_node.
LEMMA PlaceNumber ==
  ASSUME NEW q \in Queues, NEW i \in 1 .. Capacity(q)
  PROVE  (i - 1) * ConnPoolsPerNode + q \in 0 .. MaxConnsPerNode - 1
  <1> DEFINE P == ConnPoolsPerNode
             D == MaxConnsPerNode \div P
             R == MaxConnsPerNode % P
  <1>1. /\ P \in Nat \ {0} /\ MaxConnsPerNode \in Nat
        /\ D \in Nat /\ R \in Nat /\ R < P /\ MaxConnsPerNode = D * P + R
    BY PoolAssumption
  <1>2. q \in 0 .. P - 1 /\ i \in Int /\ 1 <= i /\ i <= D + (IF q < R THEN 1 ELSE 0)
    BY CapacityNat DEF Queues, Capacity
  <1> HIDE DEF P, D, R
  <1>3. CASE q < R
    <2>1. (i - 1) * P <= D * P /\ 0 <= (i - 1) * P /\ (i - 1) * P \in Int
      BY <1>1, <1>2, <1>3
    <2> QED
      BY <2>1, <1>1, <1>2, <1>3 DEF P
  <1>4. CASE ~(q < R)
    <2>1. (i - 1) * P <= (D - 1) * P /\ 0 <= (i - 1) * P /\ (i - 1) * P \in Int
      BY <1>1, <1>2, <1>4
    <2>2. (D - 1) * P = D * P - P
      BY <1>1
    <2> QED
      BY <2>1, <2>2, <1>1, <1>2, <1>4 DEF P
  <1> QED
    BY <1>3, <1>4

\* Different places have different numbers.
LEMMA PlacesDiffer ==
  ASSUME NEW q \in Queues, NEW r \in Queues, NEW i \in Int, NEW j \in Int,
         (i - 1) * ConnPoolsPerNode + q = (j - 1) * ConnPoolsPerNode + r
  PROVE  q = r /\ i = j
  <1> DEFINE P == ConnPoolsPerNode
  <1>1. P \in Nat \ {0} /\ q \in 0 .. P - 1 /\ r \in 0 .. P - 1
    BY PoolAssumption DEF Queues
  <1>2. (i - 1) * P + q = (j - 1) * P + r
    OBVIOUS
  <1> HIDE DEF P
  <1>3. ASSUME NEW a \in Int, NEW b \in Int, a < b PROVE (a - 1) * P + P <= (b - 1) * P
    <2>1. (b - 1) * P - (a - 1) * P = (b - a) * P
      BY <1>1
    <2>2. (b - a) * P >= P
      BY <1>1, <1>3
    <2> QED
      BY <2>1, <2>2, <1>1
  <1>4. i = j
    <2>1. CASE i < j
      BY <2>1, <1>3, <1>1, <1>2
    <2>2. CASE j < i
      BY <2>2, <1>3, <1>1, <1>2
    <2> QED
      BY <2>1, <2>2
  <1> QED
    BY <1>1, <1>2, <1>4

\* Sets of which none is larger than the share of its queue have no more than
\* max_conns_per_node members between them: each member gets a place of its own.
LEMMA SharesBound ==
  ASSUME NEW F, \A q \in Queues : IsFiniteSet(F[q]) /\ Cardinality(F[q]) <= Capacity(q)
  PROVE  LET All == UNION {F[q] : q \in Queues}
         IN  IsFiniteSet(All) /\ Cardinality(All) <= MaxConnsPerNode
  <1> DEFINE All == UNION {F[q] : q \in Queues}
             G == [q \in Queues |-> CHOOSE g : g \in Injection(F[q], 1 .. Capacity(q))]
             Home(c) == CHOOSE q \in Queues : c \in F[q]
             Number == [c \in All |-> (G[Home(c)][c] - 1) * ConnPoolsPerNode + Home(c)]
  <1>1. ASSUME NEW q \in Queues
        PROVE  \E g : g \in Injection(F[q], 1 .. Capacity(q))
    <2> DEFINE n == Cardinality(F[q])
    <2>1. n \in Nat /\ ExistsBijection(1 .. n, F[q]) /\ n <= Capacity(q) /\ Capacity(q) \in Nat
      BY FS_CardinalityType, CapacityNat
    <2>2. PICK g : g \in Bijection(F[q], 1 .. n)
      BY <2>1, Fun_ExistsBijSymmetric, Fun_ExistsBij
    <2>3. /\ g \in [F[q] -> 1 .. n]
          /\ \A a, b \in F[q] : g[a] = g[b] => a = b
      BY <2>2 DEF Bijection, Injection, IsInjective
    <2> HIDE DEF n
    <2>4. g \in [F[q] -> 1 .. Capacity(q)]
      BY <2>1, <2>3
    <2> QED
      BY <2>3, <2>4, Fun_IsInj
  <1>2. ASSUME NEW q \in Queues
        PROVE  /\ \A a \in F[q] : G[q][a] \in 1 .. Capacity(q)
               /\ \A a, b \in F[q] : G[q][a] = G[q][b] => a = b
    <2>1. G[q] \in Injection(F[q], 1 .. Capacity(q))
      BY <1>1
    <2> QED
      <3>1. /\ G[q] \in [F[q] -> 1 .. Capacity(q)]
            /\ \A a, b \in F[q] : G[q][a] = G[q][b] => a = b
        BY <2>1 DEF Injection, IsInjective
      <3> QED
        BY <3>1, Zenon
  <1>3. \A c \in All : Home(c) \in Queues /\ c \in F[Home(c)]
    OBVIOUS
  <1> HIDE DEF G, Home
  <1>4. Number \in [All -> 0 .. MaxConnsPerNode - 1]
    <2> SUFFICES ASSUME NEW c \in All
                 PROVE  (G[Home(c)][c] - 1) * ConnPoolsPerNode + Home(c) \in 0 .. MaxConnsPerNode - 1
      OBVIOUS
    <2> QED
      BY <1>2, <1>3, PlaceNumber
  <1>5. ASSUME NEW c \in All, NEW d \in All, Number[c] = Number[d] PROVE c = d
    <2>1. /\ Home(c) \in Queues /\ Home(d) \in Queues
          /\ G[Home(c)][c] \in Int /\ G[Home(d)][d] \in Int
      BY <1>2, <1>3, CapacityNat
    <2>2. (G[Home(c)][c] - 1) * ConnPoolsPerNode + Home(c)
            = (G[Home(d)][d] - 1) * ConnPoolsPerNode + Home(d)
      BY <1>5
    <2>3. Home(c) = Home(d) /\ G[Home(c)][c] = G[Home(d)][d]
      BY <2>1, <2>2, PlacesDiffer
    <2> QED
      BY <2>3, <1>2, <1>3
  <1> HIDE DEF Number
  <1>6. Number \in Injection(All, 0 .. MaxConnsPerNode - 1)
    BY <1>4, <1>5, Fun_IsInj
  <1>7. /\ IsFiniteSet(0 .. MaxConnsPerNode - 1)
        /\ Cardinality(0 .. MaxConnsPerNode - 1) = MaxConnsPerNode
    <2>1. MaxConnsPerNode - 1 \in Int /\ 0 \in Int /\ MaxConnsPerNode \in Nat
      BY PoolAssumption
    <2> DEFINE m == MaxConnsPerNode - 1
    <2>2. IsFiniteSet(0 .. m) /\ Cardinality(0 .. m) = IF 0 > m THEN 0 ELSE m - 0 + 1
      <3> HIDE DEF m
      <3> QED
        BY <2>1, FS_Interval, Zenon DEF m
    <2>3. (IF 0 > m THEN 0 ELSE m - 0 + 1) = MaxConnsPerNode
      BY <2>1
    <2> QED
      BY <2>2, <2>3
  <1> QED
    BY <1>6, <1>7, FS_Injection

-----------------------------------------------------------------------------
(* Ownership: the inductive invariant and what a step does to the queues. *)

Waiting == UNION {Front(q, Len(idle[q])) : q \in Queues}
Held == {held[t] : t \in Threads} \ {NoConn}

\* No connection waits at two places.
Distinct ==
  \A q, r \in Queues : \A i \in DOMAIN idle[q], j \in DOMAIN idle[r] :
    idle[q][i] = idle[r][j] => q = r /\ i = j

HeldTells == \A t \in Threads : held[t] # NoConn <=> pc[t] \in {"holding", "closing"}
HeldOnce == \A t, u \in Threads : t # u /\ held[t] # NoConn => held[t] # held[u]
Apart == \A t \in Threads : held[t] \notin Waiting

\* With NoSocketLeak a socket that OpenNew finds closed can have no owner yet.
OwnerInv == Distinct /\ HeldTells /\ HeldOnce /\ Apart /\ NoSocketLeak

LEMMA WaitingMember ==
  ASSUME NEW c
  PROVE  c \in Waiting <=> \E q \in Queues : \E i \in 1 .. Len(idle[q]) : c = idle[q][i]
  BY DEF Waiting, Front

\* Connections are popped off the front of a queue: exactly they stop waiting.
LEMMA PopStep ==
  ASSUME TypeOK, Distinct, NEW q \in Queues, NEW k \in 0 .. Len(idle[q]),
         idle' = [idle EXCEPT ![q] = Beyond(q, k)]
  PROVE  Distinct' /\ Waiting' = Waiting \ Front(q, k)
  <1>1. \A r \in Queues : idle[r] \in Seq(Conns) /\ Len(idle[r]) \in Nat
                          /\ DOMAIN idle[r] = 1 .. Len(idle[r])
    BY DEF TypeOK
  <1>2. /\ idle'[q] \in Seq(Conns) /\ Len(idle'[q]) = Len(idle[q]) - k
        /\ \A i \in 1 .. Len(idle'[q]) : idle'[q][i] = idle[q][i + k]
    <2>1. idle'[q] = SubSeq(idle[q], k + 1, Len(idle[q]))
      BY DEF TypeOK, Beyond
    <2>2. Beyond(q, k) \in Seq(Conns) /\ Len(Beyond(q, k)) = Len(idle[q]) - k
      BY BeyondType DEF TypeOK
    <2>3. \A i \in 1 .. Len(idle'[q]) : idle'[q][i] = idle[q][i + k]
      BY <2>1, <2>2, <1>1 DEF Beyond
    <2> QED
      BY <2>1, <2>2, <2>3 DEF Beyond
  <1>3. DOMAIN idle'[q] = 1 .. Len(idle'[q])
    BY <1>2
  <1>4. \A r \in Queues \ {q} : idle'[r] = idle[r]
    BY DEF TypeOK
  <1>5. Distinct'
    <2> SUFFICES ASSUME NEW r \in Queues, NEW s \in Queues,
                        NEW i \in DOMAIN idle'[r], NEW j \in DOMAIN idle'[s],
                        idle'[r][i] = idle'[s][j]
                 PROVE  r = s /\ i = j
      BY DEF Distinct
    <2> DEFINE m == IF r = q THEN i + k ELSE i
               n == IF s = q THEN j + k ELSE j
    <2>1. m \in DOMAIN idle[r] /\ idle[r][m] = idle'[r][i]
      <3>1. CASE r = q
        <4>1. i \in 1 .. Len(idle'[q]) /\ m = i + k
          BY <3>1, <1>3
        <4>2. i + k \in 1 .. Len(idle[q]) /\ idle'[q][i] = idle[q][i + k]
          BY <4>1, <1>1, <1>2
        <4> QED
          BY <4>1, <4>2, <3>1, <1>1
      <3>2. CASE r # q
        BY <3>2, <1>4
      <3> QED
        BY <3>1, <3>2
    <2>2. n \in DOMAIN idle[s] /\ idle[s][n] = idle'[s][j]
      BY <1>1, <1>2, <1>3, <1>4
    <2>3. r = s /\ m = n
      BY <2>1, <2>2 DEF Distinct
    <2>4. i \in Int /\ j \in Int
      BY <1>1, <1>3, <1>4
    <2> QED
      BY <2>3, <2>4
  <1>6. ASSUME NEW c PROVE c \in Waiting' <=> c \in Waiting \ Front(q, k)
    <2>1. c \in Waiting' <=> \E r \in Queues : \E i \in 1 .. Len(idle'[r]) : c = idle'[r][i]
      BY DEF Waiting, Front
    <2>2. ASSUME NEW r \in Queues, NEW i \in 1 .. Len(idle'[r]), c = idle'[r][i]
          PROVE  c \in Waiting \ Front(q, k)
      <3> DEFINE m == IF r = q THEN i + k ELSE i
      <3>1. m \in 1 .. Len(idle[r]) /\ c = idle[r][m] /\ (r = q => m > k)
        BY <2>2, <1>1, <1>2, <1>4
      <3>2. c \notin Front(q, k)
        <4> SUFFICES ASSUME NEW j \in 1 .. k, c = idle[q][j] PROVE FALSE
          BY DEF Front
        <4>1. j \in DOMAIN idle[q] /\ m \in DOMAIN idle[r]
          BY <3>1, <1>1
        <4>2. r = q /\ m = j
          BY <4>1, <3>1 DEF Distinct
        <4> QED
          BY <4>2, <3>1
      <3> QED
        BY <3>1, <3>2, WaitingMember
    <2>3. ASSUME c \in Waiting, c \notin Front(q, k)
          PROVE  \E r \in Queues : \E i \in 1 .. Len(idle'[r]) : c = idle'[r][i]
      <3>0. PICK r \in Queues : \E i \in 1 .. Len(idle[r]) : c = idle[r][i]
        BY <2>3, WaitingMember
      <3>1. PICK i \in 1 .. Len(idle[r]) : c = idle[r][i]
        BY <3>0
      <3>2. CASE r # q
        BY <3>1, <3>2, <1>4
      <3>3. CASE r = q
        <4>1. i > k
          BY <3>1, <3>3, <2>3, <1>1 DEF Front
        <4>2. i - k \in 1 .. Len(idle'[q]) /\ (i - k) + k = i
          BY <4>1, <3>3, <1>1, <1>2
        <4> QED
          BY <4>2, <3>1, <3>3, <1>2
      <3> QED
        BY <3>2, <3>3
    <2> QED
      BY <2>1, <2>2, <2>3
  <1> QED
    BY <1>5, <1>6

\* A connection that waits nowhere is put at the back of a queue.
LEMMA PushStep ==
  ASSUME TypeOK, Distinct, NEW q \in Queues, NEW c \in Conns, c \notin Waiting,
         idle' = [idle EXCEPT ![q] = Append(idle[q], c)]
  PROVE  Distinct' /\ Waiting' = Waiting \cup {c}
  <1>1. \A r \in Queues : idle[r] \in Seq(Conns) /\ Len(idle[r]) \in Nat
                          /\ DOMAIN idle[r] = 1 .. Len(idle[r])
    BY DEF TypeOK
  <1>2. /\ Len(idle'[q]) = Len(idle[q]) + 1 /\ DOMAIN idle'[q] = 1 .. Len(idle[q]) + 1
        /\ idle'[q][Len(idle[q]) + 1] = c
        /\ \A i \in 1 .. Len(idle[q]) : idle'[q][i] = idle[q][i]
    BY <1>1 DEF TypeOK
  <1>3. \A r \in Queues \ {q} : idle'[r] = idle[r]
    BY DEF TypeOK
  <1>4. \A r \in Queues : \A i \in DOMAIN idle[r] : idle[r][i] # c
    BY <1>1, WaitingMember
  <1>5. \A r \in Queues : \A i \in DOMAIN idle'[r] :
          \/ i \in DOMAIN idle[r] /\ idle'[r][i] = idle[r][i]
          \/ r = q /\ i = Len(idle[q]) + 1 /\ idle'[r][i] = c
    BY <1>1, <1>2, <1>3
  <1>6. Distinct'
    <2> SUFFICES ASSUME NEW r \in Queues, NEW s \in Queues,
                        NEW i \in DOMAIN idle'[r], NEW j \in DOMAIN idle'[s],
                        idle'[r][i] = idle'[s][j]
                 PROVE  r = s /\ i = j
      BY DEF Distinct
    <2> QED
      BY <1>4, <1>5 DEF Distinct
  <1>7. ASSUME NEW d PROVE d \in Waiting' <=> d \in Waiting \cup {c}
    <2>1. d \in Waiting' <=> \E r \in Queues : \E i \in 1 .. Len(idle'[r]) : d = idle'[r][i]
      BY DEF Waiting, Front
    <2>2. d \in Waiting' => d \in Waiting \cup {c}
      BY <2>1, <1>1, <1>2, <1>3, <1>5, WaitingMember
    <2>3. d \in Waiting => d \in Waiting'
      BY <2>1, <1>1, <1>2, <1>3, WaitingMember
    <2>4. c = d => d \in Waiting'
      BY <2>1, <1>1, <1>2
    <2> QED
      BY <2>2, <2>3, <2>4
  <1> QED
    BY <1>6, <1>7

-----------------------------------------------------------------------------
(* Each step preserves OwnerInv. *)

LEMMA InitOwnerInv == Init => OwnerInv
  <1> SUFFICES ASSUME Init PROVE OwnerInv
    OBVIOUS
  <1>1. \A q \in Queues : idle[q] = << >>
    BY DEF Init
  <1>2. Waiting = {} /\ UNION {Front(q, Len(idle[q])) : q \in Queues} = {}
    BY <1>1 DEF Waiting, Front
  <1>3. Distinct
    BY <1>1 DEF Distinct
  <1>4. HeldTells /\ HeldOnce /\ Apart
    BY <1>2 DEF Init, HeldTells, HeldOnce, Apart
  <1>5. NoSocketLeak
    BY <1>2 DEF Init, NoSocketLeak
  <1> QED
    BY <1>3, <1>4, <1>5 DEF OwnerInv

\* NoSocketLeak in the words used here.
LEMMA LeakFree == /\ NoSocketLeak <=> open = Waiting \cup Held
                  /\ NoSocketLeak' <=> open' = Waiting' \cup Held'
  BY Zenon DEF NoSocketLeak, Waiting, Held

\* Connections at the front of a queue wait in it, and the next one is none of them.
LEMMA FrontFacts ==
  ASSUME TypeOK, Distinct, NEW q \in Queues, NEW k \in 0 .. Len(idle[q])
  PROVE  /\ Front(q, k) \subseteq Waiting
         /\ k < Len(idle[q]) => /\ idle[q][k + 1] \in Waiting \ Front(q, k)
                                /\ idle[q][k + 1] \in Conns
                                /\ Front(q, k + 1) = Front(q, k) \cup {idle[q][k + 1]}
  <1>1. idle[q] \in Seq(Conns) /\ Len(idle[q]) \in Nat /\ DOMAIN idle[q] = 1 .. Len(idle[q])
    BY DEF TypeOK
  <1>2. Front(q, k) \subseteq Waiting
    BY <1>1, WaitingMember DEF Front
  <1>3. ASSUME k < Len(idle[q])
        PROVE  /\ idle[q][k + 1] \in Waiting \ Front(q, k)
               /\ idle[q][k + 1] \in Conns
               /\ Front(q, k + 1) = Front(q, k) \cup {idle[q][k + 1]}
    <2>1. k + 1 \in DOMAIN idle[q] /\ k + 1 \in 1 .. Len(idle[q]) /\ k \in Nat
      BY <1>1, <1>3
    <2>2. idle[q][k + 1] \in Waiting /\ idle[q][k + 1] \in Conns
      BY <2>1, <1>1, WaitingMember
    <2>3. idle[q][k + 1] \notin Front(q, k)
      BY <2>1, <1>1 DEF Front, Distinct
    <2>4. \A j : j \in 1 .. k + 1 <=> j \in 1 .. k \/ j = k + 1
      BY <2>1
    <2>5. Front(q, k + 1) = Front(q, k) \cup {idle[q][k + 1]}
      BY <2>4 DEF Front
    <2> QED
      BY <2>2, <2>3, <2>5
  <1> QED
    BY <1>2, <1>3

\* A thread without a connection receives c, which nobody holds.
LEMMA ReceiveStep ==
  ASSUME TypeOK, HeldTells, HeldOnce, NEW t \in Threads, NEW c \in Conns, c \notin Held,
         pc[t] = "lock", pc' = [pc EXCEPT ![t] = "holding"], held' = [held EXCEPT ![t] = c]
  PROVE  HeldTells' /\ HeldOnce' /\ Held' = Held \cup {c}
  <1>1. c # NoConn /\ held[t] = NoConn /\ \A u \in Threads : held[u] # c
    BY PoolAssumption DEF HeldTells, Held
  <1>2. \A u \in Threads : held'[u] = IF u = t THEN c ELSE held[u]
    BY DEF TypeOK
  <1>3. HeldTells'
    BY <1>1, <1>2 DEF HeldTells, TypeOK
  <1>4. HeldOnce'
    BY <1>1, <1>2 DEF HeldOnce
  <1>5. Held' = Held \cup {c}
    BY <1>1, <1>2 DEF Held
  <1> QED
    BY <1>3, <1>4, <1>5

\* A thread lets its connection go.
LEMMA LetGoStep ==
  ASSUME TypeOK, HeldTells, HeldOnce, NEW t \in Threads, pc[t] \in {"holding", "closing"},
         pc' = [pc EXCEPT ![t] = "out"], held' = [held EXCEPT ![t] = NoConn]
  PROVE  HeldTells' /\ HeldOnce' /\ held[t] \in Held /\ Held' = Held \ {held[t]}
  <1>1. held[t] # NoConn /\ \A u \in Threads \ {t} : held[u] # held[t]
    BY DEF HeldTells, HeldOnce
  <1>2. \A u \in Threads : held'[u] = IF u = t THEN NoConn ELSE held[u]
    BY DEF TypeOK
  <1>3. HeldTells'
    BY <1>1, <1>2 DEF HeldTells, TypeOK
  <1>4. HeldOnce'
    BY <1>1, <1>2 DEF HeldOnce
  <1>5. held[t] \in Held /\ Held' = Held \ {held[t]}
    BY <1>1, <1>2 DEF Held
  <1> QED
    BY <1>3, <1>4, <1>5

\* No connection both waits and is held, said of sets.
LEMMA ApartSets ==
  ASSUME TypeOK
  PROVE  /\ Waiting \subseteq Conns
         /\ Apart <=> Waiting \cap Held = {}
  <1>1. Waiting \subseteq Conns
    BY WaitingMember DEF TypeOK
  <1> QED
    BY <1>1, PoolAssumption DEF Apart, Held

\* A step after which Waiting and Held are apart and make up what is open.
LEMMA OwnerInvNext ==
  ASSUME TypeOK', Distinct', HeldTells', HeldOnce', Waiting' \cap Held' = {},
         open' = Waiting' \cup Held'
  PROVE  OwnerInv'
  <1>1. Waiting' \subseteq Conns
    BY DEF TypeOK, Waiting, Front
  <1>2. Apart'
    BY <1>1, PoolAssumption DEF Apart, Held
  <1> QED
    BY <1>2, LeakFree DEF OwnerInv

\* A thread pops the expired connections and takes the next one.
LEMMA TakeIdleOwner ==
  ASSUME PoolInv, PoolInv', OwnerInv, NEW t \in Threads, pc[t] = "lock", TakeIdle(t)
  PROVE  OwnerInv'
  <1> DEFINE q == slot[t]
  <1>1. PICK k \in 0 .. Len(idle[q]) - 1 :
          /\ idle' = [idle EXCEPT ![q] = Beyond(q, k + 1)]
          /\ held' = [held EXCEPT ![t] = idle[q][k + 1]]
          /\ pc' = [pc EXCEPT ![t] = "holding"]
          /\ open' = open \ Front(q, k)
    BY DEF TakeIdle, Shut, Obtain
  <1>2. /\ q \in Queues /\ k \in 0 .. Len(idle[q]) /\ k + 1 \in 0 .. Len(idle[q])
        /\ k < Len(idle[q])
    BY QueueFacts
  <1> DEFINE c == idle[q][k + 1]
  <1>3. /\ Front(q, k) \subseteq Waiting /\ c \in Waiting \ Front(q, k) /\ c \in Conns
        /\ Front(q, k + 1) = Front(q, k) \cup {c}
    BY <1>2, FrontFacts DEF PoolInv, OwnerInv
  <1>4. Distinct' /\ Waiting' = Waiting \ Front(q, k + 1)
    BY <1>1, <1>2, PopStep DEF PoolInv, OwnerInv
  <1>5. Waiting \cap Held = {} /\ open = Waiting \cup Held
    BY ApartSets, LeakFree DEF PoolInv, OwnerInv
  <1> HIDE DEF q, c
  <1>6. HeldTells' /\ HeldOnce' /\ Held' = Held \cup {c}
    <2>1. held' = [held EXCEPT ![t] = c] /\ c \notin Held
      BY <1>1, <1>3, <1>5 DEF c
    <2> QED
      BY <2>1, <1>1, <1>3, ReceiveStep DEF PoolInv, OwnerInv
  <1>7. Waiting' \cap Held' = {} /\ open' = Waiting' \cup Held'
    BY <1>1, <1>3, <1>4, <1>5, <1>6
  <1> QED
    BY <1>4, <1>6, <1>7, OwnerInvNext DEF PoolInv

\* The queue is drained and a socket opened, one that is not open yet.
LEMMA OpenNewOwner ==
  ASSUME PoolInv, PoolInv', OwnerInv, NEW t \in Threads, pc[t] = "lock", OpenNew(t)
  PROVE  OwnerInv'
  <1> DEFINE q == slot[t]
             k == Len(idle[q])
  <1>1. PICK c \in Conns \ open : /\ held' = [held EXCEPT ![t] = c]
                                   /\ open' = (open \ Front(q, k)) \cup {c}
                                   /\ idle' = [idle EXCEPT ![q] = << >>]
                                   /\ pc' = [pc EXCEPT ![t] = "holding"]
    BY DEF OpenNew, Obtain
  <1>2. q \in Queues /\ k \in 0 .. Len(idle[q]) /\ Beyond(q, k) = << >>
    BY QueueFacts DEF Beyond
  <1>3. Front(q, k) \subseteq Waiting
    BY <1>2, FrontFacts DEF PoolInv, OwnerInv
  <1>4. Distinct' /\ Waiting' = Waiting \ Front(q, k)
    BY <1>1, <1>2, PopStep DEF PoolInv, OwnerInv
  <1>5. Waiting \cap Held = {} /\ open = Waiting \cup Held
    BY ApartSets, LeakFree DEF PoolInv, OwnerInv
  <1> HIDE DEF q, k
  <1>6. HeldTells' /\ HeldOnce' /\ Held' = Held \cup {c}
    BY <1>1, <1>5, ReceiveStep DEF PoolInv, OwnerInv
  <1>7. Waiting' \cap Held' = {} /\ open' = Waiting' \cup Held'
    BY <1>1, <1>3, <1>4, <1>5, <1>6
  <1> QED
    BY <1>4, <1>6, <1>7, OwnerInvNext DEF PoolInv

\* Steps of Queue::get that only pop connections and close them.
LEMMA PopOnlyOwner ==
  ASSUME PoolInv, PoolInv', OwnerInv, NEW t \in Threads, pc[t] = "lock",
         OpenFails(t) \/ TimeoutFails(t) \/ QueueFull(t)
  PROVE  OwnerInv'
  <1> DEFINE q == slot[t]
  <1>1. PICK k \in 0 .. Len(idle[q]) : /\ idle' = [idle EXCEPT ![q] = Beyond(q, k)]
                                        /\ open' = open \ Front(q, k)
    <2>1. CASE OpenFails(t) \/ QueueFull(t)
      <3>1. Len(idle[q]) \in 0 .. Len(idle[q]) /\ Beyond(q, Len(idle[q])) = << >>
        BY QueueFacts DEF Beyond
      <3> QED
        BY <3>1, <2>1 DEF OpenFails, QueueFull, Shut
    <2>2. CASE TimeoutFails(t)
      <3>1. PICK j \in 0 .. Len(idle[q]) - 1 :
              /\ idle' = [idle EXCEPT ![q] = Beyond(q, j + 1)]
              /\ open' = open \ Front(q, j + 1)
        BY <2>2 DEF TimeoutFails, Shut
      <3>2. j + 1 \in 0 .. Len(idle[q])
        BY QueueFacts
      <3> QED
        BY <3>1, <3>2
    <2> QED
      BY <2>1, <2>2
  <1>2. /\ held' = held
        /\ \E s \in {"out", "pick"} : pc' = [pc EXCEPT ![t] = s]
    BY DEF OpenFails, TimeoutFails, QueueFull, Leave
  <1>3. q \in Queues
    BY QueueFacts
  <1>4. Front(q, k) \subseteq Waiting
    BY <1>3, FrontFacts DEF PoolInv, OwnerInv
  <1>5. Distinct' /\ Waiting' = Waiting \ Front(q, k)
    BY <1>1, <1>3, PopStep DEF PoolInv, OwnerInv
  <1>6. Waiting \cap Held = {} /\ open = Waiting \cup Held
    BY ApartSets, LeakFree DEF PoolInv, OwnerInv
  <1> HIDE DEF q
  <1>7. HeldTells' /\ HeldOnce' /\ Held' = Held
    <2>1. \A u \in Threads : pc'[u] \in {"holding", "closing"} <=> pc[u] \in {"holding", "closing"}
      BY <1>2 DEF PoolInv, TypeOK
    <2> QED
      BY <2>1, <1>2 DEF OwnerInv, HeldTells, HeldOnce, Held
  <1>8. Waiting' \cap Held' = {} /\ open' = Waiting' \cup Held'
    BY <1>1, <1>4, <1>5, <1>6, <1>7
  <1> QED
    BY <1>5, <1>7, <1>8, OwnerInvNext DEF PoolInv

\* Steps that give a connection back, or close it.
LEMMA GiveBackOwner ==
  ASSUME PoolInv, PoolInv', OwnerInv, NEW t \in Threads, PutBack(t) \/ CloseDropped(t)
  PROVE  OwnerInv'
  <1> DEFINE q == slot[t]
             c == held[t]
  <1>1. /\ pc[t] \in {"holding", "closing"}
        /\ pc' = [pc EXCEPT ![t] = "out"] /\ held' = [held EXCEPT ![t] = NoConn]
        /\ \/ idle' = [idle EXCEPT ![q] = Append(idle[q], c)] /\ open' = open
           \/ idle' = idle /\ open' = open \ {c}
    BY DEF PutBack, CloseDropped, Leave, Shut, queueVars
  <1>2. HeldTells' /\ HeldOnce' /\ c \in Held /\ Held' = Held \ {c}
    BY <1>1, LetGoStep DEF PoolInv, OwnerInv
  <1>3. Waiting \cap Held = {} /\ open = Waiting \cup Held
    BY ApartSets, LeakFree DEF PoolInv, OwnerInv
  <1>4. q \in Queues /\ c \in Conns
    BY <1>1, QueueFacts DEF PoolInv, HeldWhileHolding
  <1> HIDE DEF q, c
  <1>5. CASE idle' = [idle EXCEPT ![q] = Append(idle[q], c)] /\ open' = open
    <2>1. Distinct' /\ Waiting' = Waiting \cup {c}
      BY <1>2, <1>3, <1>4, <1>5, PushStep DEF PoolInv, OwnerInv
    <2>2. Waiting' \cap Held' = {} /\ open' = Waiting' \cup Held'
      BY <2>1, <1>2, <1>3, <1>5
    <2> QED
      BY <2>1, <2>2, <1>2, OwnerInvNext DEF PoolInv
  <1>6. CASE idle' = idle /\ open' = open \ {c}
    <2>1. Distinct' /\ Waiting' = Waiting
      BY <1>6 DEF OwnerInv, Distinct, Waiting, Front
    <2>2. Waiting' \cap Held' = {} /\ open' = Waiting' \cup Held'
      BY <2>1, <1>2, <1>3, <1>6
    <2> QED
      BY <2>1, <2>2, <1>2, OwnerInvNext DEF PoolInv
  <1> QED
    BY <1>1, <1>5, <1>6

\* Steps that move no connection.
LEMMA StayOwner ==
  ASSUME PoolInv, PoolInv', OwnerInv,
         \/ \E t \in Threads : StartGet(t) \/ PickQueue(t) \/ DropConn(t)
         \/ \E c \in Conns : Expire(c)
         \/ UNCHANGED vars
  PROVE  OwnerInv'
  <1>1. UNCHANGED <<idle, held, open>>
    BY DEF StartGet, PickQueue, DropConn, Expire, vars, queueVars
  <1>2. \/ pc' = pc
        \/ \E t \in Threads : \/ pc[t] \in {"out", "pick"} /\ pc' = [pc EXCEPT ![t] = "pick"]
                              \/ pc[t] \in {"out", "pick"} /\ pc' = [pc EXCEPT ![t] = "lock"]
                              \/ pc[t] = "holding" /\ pc' = [pc EXCEPT ![t] = "closing"]
    BY DEF StartGet, PickQueue, DropConn, Expire, vars, callVars
  <1>3. HeldTells'
    BY <1>1, <1>2 DEF PoolInv, TypeOK, OwnerInv, HeldTells
  <1>4. Distinct' /\ HeldOnce' /\ Apart' /\ NoSocketLeak'
    BY <1>1 DEF OwnerInv, Distinct, HeldOnce, Apart, Waiting, Front, NoSocketLeak
  <1> QED
    BY <1>3, <1>4 DEF OwnerInv

\* Node::close: nobody holds a connection, and every queue is drained.
LEMMA ClosePoolOwner ==
  ASSUME PoolInv, PoolInv', OwnerInv, ClosePool
  PROVE  OwnerInv'
  <1>1. /\ \A t \in Threads : pc[t] = "out"
        /\ open' = open \ Waiting
        /\ idle' = [q \in Queues |-> << >>]
        /\ UNCHANGED <<pc, held>>
    BY DEF ClosePool, Shut, callVars, Waiting
  <1>2. \A q \in Queues : idle'[q] = << >>
    BY <1>1
  <1>3. Waiting' = {}
    BY <1>2 DEF Waiting, Front
  <1>4. Distinct'
    BY <1>2 DEF Distinct
  <1>5. HeldTells' /\ HeldOnce' /\ Held' = Held
    BY <1>1 DEF OwnerInv, HeldTells, HeldOnce, Held
  <1>6. Waiting \cap Held = {} /\ open = Waiting \cup Held
    BY ApartSets, LeakFree DEF PoolInv, OwnerInv
  <1> QED
    BY <1>1, <1>3, <1>4, <1>5, <1>6, OwnerInvNext DEF PoolInv

LEMMA NextOwnerInv == PoolInv /\ PoolInv' /\ OwnerInv /\ [Next]_vars => OwnerInv'
  <1> SUFFICES ASSUME PoolInv, PoolInv', OwnerInv, [Next]_vars PROVE OwnerInv'
    OBVIOUS
  <1>1. ASSUME NEW t \in Threads, QueueGet(t) PROVE OwnerInv'
    BY <1>1, TakeIdleOwner, OpenNewOwner, PopOnlyOwner, Zenon DEF QueueGet
  <1>2. ASSUME NEW t \in Threads, PutBack(t) \/ CloseDropped(t) PROVE OwnerInv'
    BY <1>2, GiveBackOwner, Zenon
  <1>3. CASE \/ \E t \in Threads : StartGet(t) \/ PickQueue(t) \/ DropConn(t)
             \/ \E c \in Conns : Expire(c)
             \/ UNCHANGED vars
    BY <1>3, StayOwner, Zenon
  <1>4. CASE ClosePool
    BY <1>4, ClosePoolOwner, Zenon
  <1> QED
    BY <1>1, <1>2, <1>3, <1>4, Zenon DEF Next, Step

LEMMA PoolInvariant == Spec => [](PoolInv /\ OwnerInv)
  BY InitPoolInv, NextPoolInv, InitOwnerInv, NextOwnerInv, PTL DEF Spec

\* Whatever the interleaving of get, drop, invalidate and close, a connection waits at
\* one place of one queue or is with one thread.
THEOREM PoolOneOwner == Spec => []OneOwner
  <1>1. PoolInv /\ OwnerInv => OneOwner
    <2> SUFFICES ASSUME PoolInv, OwnerInv PROVE OneOwner
      OBVIOUS
    <2>1. \A q \in Queues, t \in Threads : \A i \in DOMAIN idle[q] : idle[q][i] # held[t]
      <3>1. \A q \in Queues : DOMAIN idle[q] = 1 .. Len(idle[q])
        BY DEF PoolInv, TypeOK
      <3> QED
        BY <3>1, WaitingMember DEF OwnerInv, Apart
    <2> QED
      BY <2>1, Zenon DEF OwnerInv, HeldTells, HeldOnce, Distinct, OneOwner
  <1> QED
    BY <1>1, PoolInvariant, PTL

\* Every open socket is in a queue or with a thread: no path of Queue::get, put_back,
\* drop_conn or clear, with the failures each can meet, forgets one.
THEOREM PoolNoSocketLeak == Spec => []NoSocketLeak
  <1>1. OwnerInv => NoSocketLeak
    BY DEF OwnerInv
  <1> QED
    BY <1>1, PoolInvariant, PTL

-----------------------------------------------------------------------------
(* How many connections there are. *)

\* The connections on lease: those of threads that have not given them up.
Lease == [t \in Threads |-> IF pc[t] = "holding" THEN held[t] ELSE NoConn]
OnLease == {Lease[t] : t \in Threads} \ {NoConn}

\* The image of a finite set is no larger.
LEMMA ImageBound ==
  ASSUME NEW S, IsFiniteSet(S), NEW f
  PROVE  /\ IsFiniteSet({f[x] : x \in S})
         /\ Cardinality({f[x] : x \in S}) \in Nat
         /\ Cardinality(S) \in Nat
         /\ Cardinality({f[x] : x \in S}) <= Cardinality(S)
  <1> DEFINE T == {f[x] : x \in S}
             g == [x \in S |-> f[x]]
  <1>1. g \in [S -> T] /\ \A y \in T : \E x \in S : g[x] = y
    OBVIOUS
  <1> HIDE DEF T, g
  <1>2. g \in Surjection(S, T)
    BY <1>1, Fun_IsSurj
  <1>3. IsFiniteSet(T) /\ Cardinality(T) <= Cardinality(S)
    BY <1>2, FS_Surjection
  <1>4. Cardinality(T) \in Nat /\ Cardinality(S) \in Nat
    BY <1>3, FS_CardinalityType
  <1> QED
    BY <1>3, <1>4 DEF T

LEMMA UnionBound ==
  ASSUME NEW A, NEW B, IsFiniteSet(A), IsFiniteSet(B)
  PROVE  /\ IsFiniteSet(A \cup B)
         /\ Cardinality(A) \in Nat /\ Cardinality(B) \in Nat /\ Cardinality(A \cup B) \in Nat
         /\ Cardinality(A \cup B) <= Cardinality(A) + Cardinality(B)
         /\ A \cap B = {} => Cardinality(A \cup B) = Cardinality(A) + Cardinality(B)
  <1>1. /\ IsFiniteSet(A \cup B)
        /\ Cardinality(A \cup B) = Cardinality(A) + Cardinality(B) - Cardinality(A \cap B)
    BY FS_Union
  <1>2. IsFiniteSet(A \cap B)
    BY FS_Intersection
  <1>3. /\ Cardinality(A \cap B) \in Nat /\ Cardinality(A) \in Nat /\ Cardinality(B) \in Nat
        /\ Cardinality(A \cup B) \in Nat
    BY <1>1, <1>2, FS_CardinalityType
  <1>4. A \cap B = {} => Cardinality(A \cap B) = 0
    BY FS_EmptySet
  <1> QED
    BY <1>1, <1>3, <1>4

LEMMA OnLeaseMembers ==
  ASSUME PoolInv
  PROVE  OnLease = {held[t] : t \in {u \in Threads : pc[u] = "holding"}}
  BY PoolAssumption DEF OnLease, Lease, PoolInv, HeldWhileHolding

\* What a queue answers for: its idle connections and those its holders have.
LEMMA QueueShare ==
  ASSUME PoolInv, NEW q \in Queues
  PROVE  LET own == Front(q, Len(idle[q])) \cup {held[t] : t \in Holders(q)}
         IN  IsFiniteSet(own) /\ Cardinality(own) <= Capacity(q)
  <1> DEFINE l == Len(idle[q])
             A == Front(q, l)
             B == {held[t] : t \in Holders(q)}
  <1>1. l \in Nat /\ l + Cardinality(Holders(q)) <= Capacity(q)
    BY DEF PoolInv, TypeOK, Accounting, WithinCapacity
  <1>2. IsFiniteSet(1 .. l) /\ Cardinality(1 .. l) = l
    <2>1. IsFiniteSet(1 .. l) /\ Cardinality(1 .. l) = IF 1 > l THEN 0 ELSE l - 1 + 1
      <3>1. 1 \in Int /\ l \in Int
        BY <1>1
      <3> HIDE DEF l
      <3> QED
        BY <3>1, FS_Interval
    <2> QED
      BY <2>1, <1>1
  <1>3. IsFiniteSet(A) /\ Cardinality(A) <= l /\ Cardinality(A) \in Nat
    <2>1. A = {idle[q][j] : j \in 1 .. l}
      BY DEF Front
    <2> QED
      BY <2>1, <1>2, ImageBound
  <1>4. /\ IsFiniteSet(B) /\ Cardinality(B) <= Cardinality(Holders(q))
        /\ Cardinality(B) \in Nat /\ Cardinality(Holders(q)) \in Nat
    BY HoldersFinite, ImageBound
  <1>5. IsFiniteSet(A \cup B) /\ Cardinality(A \cup B) \in Nat
        /\ Cardinality(A \cup B) <= Cardinality(A) + Cardinality(B)
    BY <1>3, <1>4, UnionBound
  <1>6. Capacity(q) \in Nat
    BY CapacityNat
  <1> HIDE DEF A, B, l
  <1>7. IsFiniteSet(A \cup B) /\ Cardinality(A \cup B) <= Capacity(q)
    BY <1>1, <1>3, <1>4, <1>5, <1>6
  <1> QED
    BY <1>7 DEF A, B, l

\* With the ones that drop_conn is about to close.
LEMMA QueueSockets ==
  ASSUME PoolInv, NEW q \in Queues
  PROVE  Cardinality(Sockets(q)) <= Capacity(q) + Cardinality(Closing(q))
  <1> DEFINE A == Front(q, Len(idle[q])) \cup {held[t] : t \in Holders(q)}
             B == {held[t] : t \in Closing(q)}
  <1>1. IsFiniteSet(A) /\ Cardinality(A) <= Capacity(q)
    BY QueueShare
  <1>2. IsFiniteSet(Closing(q))
    BY PoolAssumption, FS_Subset DEF Closing
  <1>3. /\ IsFiniteSet(B) /\ Cardinality(B) <= Cardinality(Closing(q))
        /\ Cardinality(B) \in Nat /\ Cardinality(Closing(q)) \in Nat
    BY <1>2, ImageBound
  <1>4. Sockets(q) = A \cup B
    BY DEF Sockets
  <1> HIDE DEF A, B
  <1>5. /\ Cardinality(A \cup B) <= Cardinality(A) + Cardinality(B)
        /\ Cardinality(A) \in Nat /\ Cardinality(A \cup B) \in Nat
    BY <1>1, <1>3, UnionBound
  <1>6. Capacity(q) \in Nat
    BY CapacityNat
  <1> QED
    BY <1>1, <1>3, <1>4, <1>5, <1>6

\* The waiting and the leased connections of all queues are within the limit.
WithinLimit == /\ IsFiniteSet(Waiting \cup OnLease)
               /\ Cardinality(Waiting \cup OnLease) <= MaxConnsPerNode

LEMMA BusyBound == PoolInv => WithinLimit
  <1> SUFFICES ASSUME PoolInv PROVE WithinLimit
    OBVIOUS
  <1> DEFINE F == [q \in Queues |-> Front(q, Len(idle[q])) \cup {held[t] : t \in Holders(q)}]
             All == UNION {F[q] : q \in Queues}
  <1>1. \A q \in Queues : IsFiniteSet(F[q]) /\ Cardinality(F[q]) <= Capacity(q)
    BY QueueShare
  <1>2. IsFiniteSet(All) /\ Cardinality(All) <= MaxConnsPerNode
    <2> HIDE DEF F
    <2> QED
      BY <1>1, SharesBound
  <1>3. All = Waiting \cup OnLease
    <2>1. \A c : c \in All <=> \E q \in Queues : c \in F[q]
      OBVIOUS
    <2>2. \A c : c \in Waiting <=> \E q \in Queues : c \in Front(q, Len(idle[q]))
      BY DEF Waiting
    <2>3. \A c : c \in OnLease <=> \E q \in Queues : c \in {held[t] : t \in Holders(q)}
      BY OnLeaseMembers DEF Holders, PoolInv, TypeOK
    <2> QED
      BY <2>1, <2>2, <2>3
  <1> QED
    BY <1>2, <1>3 DEF WithinLimit

LEMMA BusyBoundNext == PoolInv' => WithinLimit'
  BY BusyBound, PTL

\* The sockets the server sees are at most max_conns_per_node, and those of a queue at
\* most its share, but for those that drop_conn has taken out of the count and not
\* closed yet.
THEOREM PoolSocketsBounded == Spec => []SocketsBounded
  <1>1. PoolInv /\ OwnerInv => SocketsBounded
    <2> SUFFICES ASSUME PoolInv, OwnerInv PROVE SocketsBounded
      OBVIOUS
    <2> DEFINE closing == {t \in Threads : pc[t] = "closing"}
               Dropped == {held[t] : t \in closing}
               Busy == Waiting \cup OnLease
    <2>1. open = Busy \cup Dropped
      <3>1. Held = OnLease \cup Dropped
        BY OnLeaseMembers, PoolAssumption DEF OwnerInv, HeldTells, Held, PoolInv, HeldWhileHolding
      <3> QED
        BY <3>1, LeakFree DEF OwnerInv
    <2>2. IsFiniteSet(closing)
      BY PoolAssumption, FS_Subset
    <2>3. /\ IsFiniteSet(Dropped) /\ Cardinality(Dropped) <= Cardinality(closing)
          /\ Cardinality(Dropped) \in Nat /\ Cardinality(closing) \in Nat
      BY <2>2, ImageBound
    <2>4. IsFiniteSet(Busy) /\ Cardinality(Busy) <= MaxConnsPerNode
      BY BusyBound DEF WithinLimit
    <2> HIDE DEF closing, Dropped, Busy
    <2>5. /\ Cardinality(Busy \cup Dropped) <= Cardinality(Busy) + Cardinality(Dropped)
          /\ Cardinality(Busy) \in Nat /\ Cardinality(Busy \cup Dropped) \in Nat
      BY <2>3, <2>4, UnionBound
    <2>6. Cardinality(open) <= MaxConnsPerNode + Cardinality(closing)
      BY <2>1, <2>3, <2>4, <2>5, PoolAssumption
    <2>7. \A q \in Queues : Cardinality(Sockets(q)) <= Capacity(q) + Cardinality(Closing(q))
      BY QueueSockets
    <2> QED
      BY <2>6, <2>7 DEF SocketsBounded, closing
  <1> QED
    BY <1>1, PoolInvariant, PTL

-----------------------------------------------------------------------------
(* The refinement of BoundedPool: lease <- Lease, spare <- Waiting. *)

\* The instance counts as this module does.
LEMMA SameCardinality == ASSUME NEW S PROVE Pool!Cardinality(S) = Cardinality(S)
  BY DEF Pool!Cardinality, Cardinality

\* A thread that starts or stops holding changes its own lease only.
LEMMA LeaseStep ==
  ASSUME NEW t \in Threads, TypeOK, TypeOK', NEW c,
         c = IF pc'[t] = "holding" THEN held'[t] ELSE NoConn,
         \A u \in Threads \ {t} : pc'[u] = pc[u] /\ held'[u] = held[u]
  PROVE  Lease' = [Lease EXCEPT ![t] = c]
  BY DEF Lease

\* Queue::get hands a connection out: Acquire.
LEMMA RefineTake ==
  ASSUME PoolInv, PoolInv', OwnerInv, NEW t \in Threads, pc[t] = "lock", TakeIdle(t)
  PROVE  Pool!Acquire(t)
  <1> DEFINE q == slot[t]
  <1>1. PICK k \in 0 .. Len(idle[q]) - 1 :
          /\ idle' = [idle EXCEPT ![q] = Beyond(q, k + 1)]
          /\ held' = [held EXCEPT ![t] = idle[q][k + 1]]
          /\ pc' = [pc EXCEPT ![t] = "holding"]
    BY DEF TakeIdle, Obtain
  <1>2. /\ q \in Queues /\ k \in 0 .. Len(idle[q]) /\ k + 1 \in 0 .. Len(idle[q])
        /\ k < Len(idle[q])
    BY QueueFacts
  <1> DEFINE c == idle[q][k + 1]
             gone == Front(q, k)
  <1>3. /\ gone \subseteq Waiting /\ c \in Waiting \ gone /\ c \in Conns
        /\ Front(q, k + 1) = gone \cup {c}
    BY <1>2, FrontFacts DEF PoolInv, OwnerInv
  <1>4. Waiting' = Waiting \ (gone \cup {c})
    BY <1>1, <1>2, <1>3, PopStep DEF PoolInv, OwnerInv
  <1>5. Lease' = [Lease EXCEPT ![t] = c] /\ Lease[t] = NoConn
    <2>1. /\ c = (IF pc'[t] = "holding" THEN held'[t] ELSE NoConn)
          /\ \A u \in Threads \ {t} : pc'[u] = pc[u] /\ held'[u] = held[u]
      BY <1>1 DEF PoolInv, TypeOK
    <2>2. Lease[t] = NoConn
      BY DEF Lease
    <2> HIDE DEF c
    <2> QED
      BY <2>1, <2>2, LeaseStep DEF PoolInv
  <1> HIDE DEF c, gone
  <1> QED
    BY <1>3, <1>4, <1>5 DEF Pool!Acquire, Lease, Waiting

LEMMA RefineOpen ==
  ASSUME PoolInv, PoolInv', OwnerInv, OwnerInv', NEW t \in Threads, pc[t] = "lock", OpenNew(t)
  PROVE  Pool!Acquire(t)
  <1> DEFINE q == slot[t]
             k == Len(idle[q])
             gone == Front(q, k)
  <1>1. PICK c \in Conns \ open : /\ held' = [held EXCEPT ![t] = c]
                                   /\ idle' = [idle EXCEPT ![q] = << >>]
                                   /\ pc' = [pc EXCEPT ![t] = "holding"]
    BY DEF OpenNew, Obtain
  <1>2. q \in Queues /\ k \in 0 .. Len(idle[q]) /\ Beyond(q, k) = << >>
    BY QueueFacts DEF Beyond
  <1>3. gone \subseteq Waiting
    BY <1>2, FrontFacts DEF PoolInv, OwnerInv
  <1>4. Waiting' = Waiting \ gone
    BY <1>1, <1>2, PopStep DEF PoolInv, OwnerInv
  <1> HIDE DEF q, k, gone
  <1>5. Lease' = [Lease EXCEPT ![t] = c] /\ Lease[t] = NoConn
    <2>1. /\ c = (IF pc'[t] = "holding" THEN held'[t] ELSE NoConn)
          /\ \A u \in Threads \ {t} : pc'[u] = pc[u] /\ held'[u] = held[u]
      BY <1>1 DEF PoolInv, TypeOK
    <2>2. Lease[t] = NoConn
      BY DEF Lease
    <2> QED
      BY <2>1, <2>2, LeaseStep DEF PoolInv
  <1>6. c \notin Waiting /\ c \notin OnLease /\ c \notin Waiting'
    <2>1. open = Waiting \cup Held
      BY LeakFree DEF OwnerInv
    <2>2. OnLease \subseteq Held
      BY DEF OnLease, Lease, Held
    <2> QED
      BY <2>1, <2>2, <1>4
  <1>7. OnLease' = OnLease \cup {c}
    <2>1. c # NoConn
      BY PoolAssumption
    <2>2. \A u \in Threads : Lease'[u] = IF u = t THEN c ELSE Lease[u]
      BY <1>5 DEF Lease
    <2> QED
      BY <2>1, <2>2, <1>5 DEF OnLease
  <1>8. Cardinality(Waiting \ gone) + Cardinality(OnLease) < MaxConnsPerNode
    <2>1. /\ IsFiniteSet(Waiting' \cup OnLease')
          /\ Cardinality(Waiting' \cup OnLease') <= MaxConnsPerNode
      BY BusyBoundNext DEF WithinLimit
    <2>2. IsFiniteSet(Waiting') /\ IsFiniteSet(OnLease') /\ IsFiniteSet(OnLease)
      BY <2>1, <1>7, FS_Subset
    <2>3. Waiting' \cap OnLease' = {}
      <3>1. Waiting \cap Held = {}
        BY ApartSets DEF PoolInv, OwnerInv
      <3>2. OnLease \subseteq Held
        BY DEF OnLease, Lease, Held
      <3> QED
        BY <3>1, <3>2, <1>4, <1>6, <1>7
    <2>4. /\ Cardinality(Waiting' \cup OnLease') = Cardinality(Waiting') + Cardinality(OnLease')
          /\ Cardinality(Waiting') \in Nat
      BY <2>2, <2>3, UnionBound
    <2>5. Cardinality(OnLease') = Cardinality(OnLease) + 1 /\ Cardinality(OnLease) \in Nat
      BY <2>2, <1>6, <1>7, FS_AddElement, FS_CardinalityType
    <2> QED
      BY <2>1, <2>4, <2>5, <1>4, PoolAssumption
  <1>9. Waiting' = Waiting \ (gone \cup {c})
    BY <1>4, <1>6
  <1>10. c \in Conns
    OBVIOUS
  <1>11. \E w \in SUBSET Waiting, d \in Conns :
           /\ \/ d \in Waiting \ w
              \/ /\ d \notin Waiting \cup OnLease
                 /\ Cardinality(Waiting \ w) + Cardinality(OnLease) < MaxConnsPerNode
           /\ Lease' = [Lease EXCEPT ![t] = d]
           /\ Waiting' = Waiting \ (w \cup {d})
    <2>1. gone \in SUBSET Waiting /\ c \notin Waiting \cup OnLease
      BY <1>3, <1>6
    <2> QED
      BY <2>1, <1>5, <1>8, <1>9, <1>10, Zenon
  <1>12. Lease[t] = NoConn
    BY <1>5
  <1> QED
    BY <1>11, <1>12, SameCardinality, Zenon DEF Pool!Acquire, Pool!Leased, Lease, Waiting, OnLease

\* Connections that are popped and closed: Reap.
LEMMA RefinePop ==
  ASSUME PoolInv, PoolInv', OwnerInv, NEW t \in Threads, pc[t] = "lock",
         OpenFails(t) \/ TimeoutFails(t) \/ QueueFull(t)
  PROVE  Pool!Reap
  <1> DEFINE q == slot[t]
  <1>1. PICK k \in 0 .. Len(idle[q]) : idle' = [idle EXCEPT ![q] = Beyond(q, k)]
    <2>1. CASE OpenFails(t) \/ QueueFull(t)
      <3>1. Len(idle[q]) \in 0 .. Len(idle[q]) /\ Beyond(q, Len(idle[q])) = << >>
        BY QueueFacts DEF Beyond
      <3> QED
        BY <3>1, <2>1 DEF OpenFails, QueueFull
    <2>2. CASE TimeoutFails(t)
      <3>1. PICK j \in 0 .. Len(idle[q]) - 1 : idle' = [idle EXCEPT ![q] = Beyond(q, j + 1)]
        BY <2>2 DEF TimeoutFails
      <3>2. j + 1 \in 0 .. Len(idle[q])
        BY QueueFacts
      <3> QED
        BY <3>1, <3>2
    <2> QED
      BY <2>1, <2>2
  <1>2. q \in Queues
    BY QueueFacts
  <1>3. Front(q, k) \subseteq Waiting /\ Waiting' = Waiting \ Front(q, k)
    BY <1>1, <1>2, FrontFacts, PopStep DEF PoolInv, OwnerInv
  <1>4. Lease' = Lease
    <2>1. \E s \in {"out", "pick"} : pc' = [pc EXCEPT ![t] = s] /\ held' = held
      BY DEF OpenFails, TimeoutFails, QueueFull, Leave
    <2> QED
      BY <2>1 DEF Lease, PoolInv, TypeOK
  <1> QED
    BY <1>3, <1>4 DEF Pool!Reap, Lease, Waiting

\* A PooledConnection is dropped or invalidated: GiveUp.
LEMMA RefineGiveUp ==
  ASSUME PoolInv, PoolInv', OwnerInv, NEW t \in Threads, PutBack(t) \/ DropConn(t)
  PROVE  Pool!GiveUp(t)
  <1> DEFINE q == slot[t]
             c == held[t]
  <1>1. /\ pc[t] = "holding" /\ c \in Conns /\ c # NoConn /\ q \in Queues
        /\ pc'[t] # "holding" /\ \A u \in Threads \ {t} : pc'[u] = pc[u] /\ held'[u] = held[u]
        /\ \/ idle' = [idle EXCEPT ![q] = Append(idle[q], c)]
           \/ idle' = idle
    BY PoolAssumption DEF PutBack, DropConn, Leave, PoolInv, TypeOK, HeldWhileHolding
  <1>2. c \notin Waiting
    BY DEF OwnerInv, Apart
  <1> HIDE DEF q, c
  <1>3. Waiting' = Waiting \/ Waiting' = Waiting \cup {c}
    <2>1. CASE idle' = idle
      BY <2>1 DEF Waiting, Front
    <2>2. CASE idle' = [idle EXCEPT ![q] = Append(idle[q], c)]
      BY <2>2, <1>1, <1>2, PushStep DEF PoolInv, OwnerInv
    <2> QED
      BY <1>1, <2>1, <2>2
  <1>4. Lease' = [Lease EXCEPT ![t] = NoConn] /\ Lease[t] = c /\ Lease[t] # NoConn
    <2>1. NoConn = IF pc'[t] = "holding" THEN held'[t] ELSE NoConn
      BY <1>1
    <2>2. Lease' = [Lease EXCEPT ![t] = NoConn]
      BY <2>1, <1>1, LeaseStep DEF PoolInv
    <2> QED
      BY <2>2, <1>1 DEF Lease, c
  <1>5. Waiting' \in {Waiting, Waiting \cup {Lease[t]}}
    BY <1>3, <1>4
  <1> QED
    BY <1>4, <1>5 DEF Pool!GiveUp, Lease, Waiting

\* Every other step leaves the bounded pool as it is, except that close empties it.
LEMMA RefineRest ==
  ASSUME PoolInv,
         \/ \E t \in Threads : StartGet(t) \/ PickQueue(t) \/ CloseDropped(t)
         \/ \E c \in Conns : Expire(c)
         \/ ClosePool
         \/ UNCHANGED vars
  PROVE  Pool!Reap \/ UNCHANGED Pool!bpVars
  <1>1. CASE ClosePool
    <2>1. UNCHANGED <<pc, held>> /\ \A q \in Queues : idle'[q] = << >>
      BY <1>1 DEF ClosePool, callVars
    <2>2. Lease' = Lease
      BY <2>1 DEF Lease
    <2>3. Waiting' = Waiting \ Waiting
      BY <2>1 DEF Waiting, Front
    <2> QED
      BY <2>2, <2>3 DEF Pool!Reap, Lease, Waiting
  <1>2. CASE \/ \E t \in Threads : StartGet(t) \/ PickQueue(t) \/ CloseDropped(t)
             \/ \E c \in Conns : Expire(c)
             \/ UNCHANGED vars
    <2>1. idle' = idle
      BY <1>2 DEF StartGet, PickQueue, CloseDropped, Expire, vars, queueVars
    <2>2. /\ \A t \in Threads : pc'[t] = "holding" <=> pc[t] = "holding"
          /\ \A t \in Threads : pc[t] = "holding" => held'[t] = held[t]
      BY <1>2 DEF StartGet, PickQueue, CloseDropped, Leave, Expire, vars, callVars,
                  PoolInv, TypeOK
    <2>3. Lease' = Lease
      BY <2>2 DEF Lease
    <2>4. Waiting' = Waiting
      BY <2>1 DEF Waiting, Front
    <2> QED
      BY <2>3, <2>4 DEF Pool!bpVars, Lease, Waiting
  <1> QED
    BY <1>1, <1>2

\* The pool of mini pools, with its probing, its expiry and its two-step close, behaves
\* towards its callers as one pool of at most max_conns_per_node connections: what
\* CommandExecution and its proofs take a node's pool to be.
THEOREM PoolImplements == Spec => ImplementsBoundedPool
  <1>1. Init => Pool!BPInit
    BY DEF Init, Pool!BPInit, Front
  <1>2. PoolInv /\ PoolInv' /\ OwnerInv /\ OwnerInv' /\ [Next]_vars => [Pool!BPNext]_(Pool!bpVars)
    <2> SUFFICES ASSUME PoolInv, PoolInv', OwnerInv, OwnerInv', [Next]_vars
                 PROVE  Pool!BPNext \/ UNCHANGED Pool!bpVars
      OBVIOUS
    <2>1. ASSUME NEW t \in Threads, QueueGet(t) PROVE Pool!BPNext
      BY <2>1, RefineTake, RefineOpen, RefinePop, Zenon DEF QueueGet, Pool!BPNext
    <2>2. ASSUME NEW t \in Threads, PutBack(t) \/ DropConn(t) PROVE Pool!BPNext
      BY <2>2, RefineGiveUp, Zenon DEF Pool!BPNext
    <2>3. CASE \/ \E t \in Threads : StartGet(t) \/ PickQueue(t) \/ CloseDropped(t)
               \/ \E c \in Conns : Expire(c)
               \/ ClosePool
               \/ UNCHANGED vars
      BY <2>3, RefineRest, Zenon DEF Pool!BPNext
    <2> QED
      BY <2>1, <2>2, <2>3, Zenon DEF Next, Step
  <1> QED
    BY <1>1, <1>2, PoolInvariant, PTL DEF Spec, ImplementsBoundedPool, Pool!BPSpec
=============================================================================
