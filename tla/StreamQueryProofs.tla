-------------------------- MODULE StreamQueryProofs --------------------------
(***************************************************************************)
(* Proofs about StreamQuery, for any number of workers and consumers, any  *)
(* replies, any size of the queue and any combination of faults.           *)
(***************************************************************************)
EXTENDS StreamQuery, FiniteSetTheorems, SequenceTheorems, TLAPS

-----------------------------------------------------------------------------
(* The inductive invariant, part by part. *)

StreamTypeOK == TypeOK /\ msg \in [Nodes -> Nat] /\ pos \in [Nodes -> Nat]

Pushing == {"push", "enqueue", "undo"}
Ended   == {"ending", "closing", "done"}

Claiming == {n \in Nodes : wpc[n] \in {"enqueue", "undo"}}
Storing  == {n \in Nodes : wpc[n] = "enqueue"}
Settling == {c \in Consumers : cpc[c] = "settle"}
Working  == {n \in Nodes : wpc[n] \notin {"closing", "done"}}

\* How far worker n is in its reply.
InReply(n) ==
  /\ msg[n] <= Len(Stream[n])
  /\ msg[n] = 0 => pos[n] = 0 /\ wpc[n] \in {"spawned", "header"} \cup Ended
  /\ msg[n] > 0 => pos[n] <= Len(Stream[n][msg[n]])
  /\ wpc[n] = "read" => pos[n] < Len(Stream[n][msg[n]])

\* Worker n holds a record exactly while it is pushing it; an error has cut its
\* stream short; and without that it ends only at the end of the reply.
Pushes(n) ==
  /\ wpc[n] \in Pushing => item[n] \in Records \cup Errors
  /\ item[n] \in Records => wpc[n] \in Pushing
  /\ item[n] \in Errors => fate[n] # "ok"
  /\ wpc[n] \in Ended /\ fate[n] = "ok" =>
       msg[n] = Len(Stream[n]) /\ msg[n] > 0 /\ pos[n] = Len(Stream[n][msg[n]])

\* A consumer holds a record only between the pop and its return.
Returns == \A c \in Consumers : got[c] \in Records => cpc[c] = "settle"

\* The last worker closes the recordset, and only then, or after a call of close, may a
\* consumer see the end.
EndSeen ==
  /\ instances = Cardinality(Working)
  /\ (\E n \in Nodes : wpc[n] = "closing") => Working = {}
  /\ active = FALSE /\ userClosed = FALSE => Working = {}
  /\ \A c \in Consumers : cpc[c] = "peek" => active = FALSE
  /\ (\E c \in Consumers : cpc[c] = "ended") /\ userClosed = FALSE =>
       active = FALSE /\ queue = << >>

\* The worker of r's node has read r.
Read(r) == \/ r[2] < msg[r[1]]
           \/ r[2] = msg[r[1]] /\ r[3] <= pos[r[1]]

\* A record that has been read is in one place, and one that has not in none.
InOnePlace == \A r \in Records : Copies(r) = IF Read(r) THEN 1 ELSE 0

StreamInv ==
  /\ StreamTypeOK
  /\ \A n \in Nodes : InReply(n) /\ Pushes(n)
  /\ Returns /\ EndSeen /\ InOnePlace
  /\ CountExact /\ QueueBounded

-----------------------------------------------------------------------------
(* Counting *)

\* The places of f that hold r.
Having(f, D, r) == {d \in D : f[d] = r}

\* f and g differ at x only.
ButFor(x, f, g, D) == x \in D /\ \A d \in D : d # x => g[d] = f[d]

LEMMA HavingStep ==
  ASSUME NEW D, IsFiniteSet(D), NEW f, NEW g, NEW x, ButFor(x, f, g, D), NEW r
  PROVE  /\ Cardinality(Having(f, D, r)) \in Nat
         /\ Cardinality(Having(g, D, r)) \in Nat
         /\ f[x] # r /\ g[x] = r =>
              Cardinality(Having(g, D, r)) = Cardinality(Having(f, D, r)) + 1
         /\ f[x] = r /\ g[x] # r =>
              Cardinality(Having(g, D, r)) = Cardinality(Having(f, D, r)) - 1
         /\ (f[x] = r <=> g[x] = r) =>
              Cardinality(Having(g, D, r)) = Cardinality(Having(f, D, r))
  <1> DEFINE F == Having(f, D, r)
             G == Having(g, D, r)
             H == {d \in D : d # x /\ f[d] = r}
  <1>1. H \subseteq D /\ x \notin H
    BY DEF Having, ButFor
  <1>2. IsFiniteSet(H)
    BY <1>1, FS_Subset
  <1>3. /\ Cardinality(H) \in Nat
        /\ Cardinality(H \cup {x}) = Cardinality(H) + 1
    BY <1>1, <1>2, FS_CardinalityType, FS_AddElement
  <1>4. /\ f[x] = r => F = H \cup {x}
        /\ f[x] # r => F = H
    BY DEF Having, ButFor
  <1>5. /\ g[x] = r => G = H \cup {x}
        /\ g[x] # r => G = H
    BY DEF Having, ButFor
  <1> HIDE DEF F, G, H
  <1>6. /\ f[x] = r => Cardinality(F) = Cardinality(H) + 1
        /\ f[x] # r => Cardinality(F) = Cardinality(H)
        /\ g[x] = r => Cardinality(G) = Cardinality(H) + 1
        /\ g[x] # r => Cardinality(G) = Cardinality(H)
    BY <1>3, <1>4, <1>5
  <1> QED
    BY <1>3, <1>6 DEF F, G

\* The copies of r in a queue.
InQueue(q, r) == {i \in DOMAIN q : q[i] = r}

LEMMA InQueueFinite ==
  ASSUME NEW S, NEW q \in Seq(S), NEW r
  PROVE  IsFiniteSet(InQueue(q, r)) /\ Cardinality(InQueue(q, r)) \in Nat
  <1>1. DOMAIN q = 1 .. Len(q) /\ 1 \in Int /\ Len(q) \in Int
    OBVIOUS
  <1>2. IsFiniteSet(1 .. Len(q))
    BY <1>1, FS_Interval
  <1>3. InQueue(q, r) \subseteq 1 .. Len(q)
    BY <1>1 DEF InQueue
  <1> QED
    BY <1>2, <1>3, FS_Subset, FS_CardinalityType

LEMMA InQueueAppend ==
  ASSUME NEW S, NEW q \in Seq(S), NEW x \in S, NEW r
  PROVE  Cardinality(InQueue(Append(q, x), r))
           = Cardinality(InQueue(q, r)) + (IF x = r THEN 1 ELSE 0)
  <1> DEFINE p == Append(q, x)
             m == Len(q) + 1
  <1>1. /\ p \in Seq(S) /\ Len(p) = m /\ p[m] = x /\ Len(q) \in Nat
        /\ \A i \in 1 .. Len(q) : p[i] = q[i]
    BY AppendProperties
  <1>2. DOMAIN p = 1 .. m /\ DOMAIN q = 1 .. Len(q)
    BY <1>1
  <1>3. 1 .. m = (1 .. Len(q)) \cup {m} /\ m \notin 1 .. Len(q)
    BY <1>1
  <1> HIDE DEF p, m
  <1>4. InQueue(p, r) = IF x = r THEN InQueue(q, r) \cup {m} ELSE InQueue(q, r)
    BY <1>1, <1>2, <1>3 DEF InQueue
  <1>5. m \notin InQueue(q, r)
    BY <1>2, <1>3 DEF InQueue
  <1>6. IsFiniteSet(InQueue(q, r)) /\ Cardinality(InQueue(q, r)) \in Nat
    BY InQueueFinite
  <1>7. Cardinality(InQueue(q, r) \cup {m}) = Cardinality(InQueue(q, r)) + 1
    BY <1>5, <1>6, FS_AddElement
  <1> QED
    BY <1>4, <1>6, <1>7 DEF p

LEMMA InQueueTail ==
  ASSUME NEW S, NEW q \in Seq(S), q # << >>, NEW r
  PROVE  Cardinality(InQueue(Tail(q), r)) + (IF Head(q) = r THEN 1 ELSE 0)
           = Cardinality(InQueue(q, r))
  <1> DEFINE p == Tail(q)
             A == InQueue(q, r) \ {1}
             B == InQueue(p, r)
             f == [i \in A |-> i - 1]
  <1>1. /\ p \in Seq(S) /\ Len(p) = Len(q) - 1 /\ Len(q) \in Nat \ {0} /\ Head(q) = q[1]
        /\ \A i \in 1 .. Len(p) : p[i] = q[i + 1]
    BY HeadTailProperties
  <1>2. DOMAIN p = 1 .. Len(q) - 1 /\ DOMAIN q = 1 .. Len(q)
    BY <1>1
  <1>3. IsFiniteSet(InQueue(q, r)) /\ Cardinality(InQueue(q, r)) \in Nat
    BY InQueueFinite
  <1>4. A = InQueue(q, r) \ {1} /\ IsFiniteSet(A) /\ Cardinality(A) \in Nat
    BY <1>3, FS_Subset, FS_CardinalityType
  <1> HIDE DEF p
  <1>5. \A i \in A : i \in Int /\ i > 1 /\ i <= Len(q) /\ q[i] = r
    BY <1>1, <1>2 DEF InQueue
  <1>6. \A j \in B : j \in Int /\ j + 1 \in A /\ (j + 1) - 1 = j
    BY <1>1, <1>2 DEF InQueue
  <1>7. \A i \in A : i - 1 \in B
    <2> SUFFICES ASSUME NEW i \in A PROVE i - 1 \in B
      OBVIOUS
    <2>1. i - 1 \in 1 .. Len(p) /\ (i - 1) + 1 = i
      BY <1>1, <1>5
    <2> QED
      BY <2>1, <1>1, <1>2, <1>5 DEF InQueue
  <1> HIDE DEF A, B
  <1>8. f \in Bijection(A, B)
    <2>1. f \in [A -> B]
      BY <1>7
    <2>2. \A i, j \in A : f[i] = f[j] => i = j
      BY <1>5
    <2>3. \A j \in B : \E i \in A : f[i] = j
      BY <1>6
    <2> QED
      BY <2>1, <2>2, <2>3 DEF Bijection, Injection, Surjection, IsInjective
  <1> HIDE DEF f
  <1>9. Cardinality(B) = Cardinality(A)
    BY <1>4, <1>8, FS_Bijection DEF ExistsBijection
  <1>10. Cardinality(InQueue(q, r)) = Cardinality(A) + (IF q[1] = r THEN 1 ELSE 0)
    <2>1. CASE q[1] = r
      <3>1. 1 \in InQueue(q, r)
        BY <2>1, <1>1, <1>2 DEF InQueue
      <3>2. Cardinality(A) = Cardinality(InQueue(q, r)) - 1
        BY <3>1, <1>3, <1>4, FS_RemoveElement
      <3> QED
        BY <2>1, <3>2, <1>3
    <2>2. CASE q[1] # r
      <3>1. InQueue(q, r) = A
        BY <2>2, <1>4 DEF InQueue
      <3> QED
        BY <2>2, <3>1, <1>3
    <2> QED
      BY <2>1, <2>2
  <1> QED
    BY <1>1, <1>4, <1>9, <1>10 DEF B, p

\* Where a record comes from.
LEMMA RecordFacts ==
  /\ \A r \in Records : /\ r[1] \in Nodes /\ r[2] \in DOMAIN Stream[r[1]]
                        /\ r[3] \in DOMAIN Stream[r[1]][r[2]]
                        /\ Stream[r[1]][r[2]][r[3]] = "record" /\ r = <<r[1], r[2], r[3]>>
  /\ Records \cap Errors = {} /\ None \notin Records /\ None \notin Errors
  /\ \A n \in Nodes : \A g \in DOMAIN Stream[n] : \A i \in DOMAIN Stream[n][g] :
       Stream[n][g][i] = "record" => <<n, g, i>> \in Records
  <1>1. \A r \in Records : /\ r[1] \in Nodes /\ r[2] \in DOMAIN Stream[r[1]]
                           /\ r[3] \in DOMAIN Stream[r[1]][r[2]]
                           /\ Stream[r[1]][r[2]][r[3]] = "record" /\ r = <<r[1], r[2], r[3]>>
    BY DEF Records
  <1>2. \A n \in Nodes : \A g \in DOMAIN Stream[n] : \A i \in DOMAIN Stream[n][g] :
          Stream[n][g][i] = "record" => <<n, g, i>> \in Records
    BY DEF Records
  <1>3. \A r \in Records : r \notin Errors
    <2> SUFFICES ASSUME NEW r \in Records, NEW n \in Nodes, r = <<n, "error">> PROVE FALSE
      BY DEF Errors
    <2>1. Len(r) = 2 /\ Len(r) = 3
      BY <1>1
    <2> QED
      BY <2>1
  <1> QED
    BY <1>1, <1>2, <1>3, NoneAssumption

LEMMA StreamFacts ==
  \A n \in Nodes :
    /\ Len(Stream[n]) \in Nat /\ DOMAIN Stream[n] = 1 .. Len(Stream[n])
    /\ \A g \in 1 .. Len(Stream[n]) :
         /\ Len(Stream[n][g]) \in Nat /\ DOMAIN Stream[n][g] = 1 .. Len(Stream[n][g])
         /\ \A i \in 1 .. Len(Stream[n][g]) :
              Stream[n][g][i] \in {"record", "partition_done", "last", "server_error"}
  <1> SUFFICES ASSUME NEW n \in Nodes
               PROVE  /\ Len(Stream[n]) \in Nat /\ DOMAIN Stream[n] = 1 .. Len(Stream[n])
                      /\ \A g \in 1 .. Len(Stream[n]) :
                           /\ Len(Stream[n][g]) \in Nat
                           /\ DOMAIN Stream[n][g] = 1 .. Len(Stream[n][g])
                           /\ \A i \in 1 .. Len(Stream[n][g]) :
                                Stream[n][g][i] \in {"record", "partition_done", "last",
                                                     "server_error"}
    OBVIOUS
  <1>1. Stream[n] \in Seq(Seq({"record", "partition_done", "last", "server_error"}))
    BY StreamAssumption
  <1>2. /\ Len(Stream[n]) \in Nat /\ DOMAIN Stream[n] = 1 .. Len(Stream[n])
        /\ \A g \in 1 .. Len(Stream[n]) :
             Stream[n][g] \in Seq({"record", "partition_done", "last", "server_error"})
    BY <1>1
  <1> QED
    BY <1>2

-----------------------------------------------------------------------------
(* Steps of a worker *)

\* A step of worker n leaves the other workers alone.
OnlyWorker(n) ==
  \A m \in Nodes : m # n => /\ wpc'[m] = wpc[m] /\ msg'[m] = msg[m] /\ pos'[m] = pos[m]
                            /\ item'[m] = item[m] /\ fate'[m] = fate[m]

LEMMA OtherWorkers ==
  ASSUME StreamInv, NEW n \in Nodes, OnlyWorker(n), InReply(n)', Pushes(n)'
  PROVE  \A m \in Nodes : InReply(m)' /\ Pushes(m)'
  <1> SUFFICES ASSUME NEW m \in Nodes, m # n PROVE InReply(m)' /\ Pushes(m)'
    OBVIOUS
  <1>1. InReply(m) /\ Pushes(m)
    BY DEF StreamInv
  <1> QED
    BY <1>1 DEF OnlyWorker, InReply, Pushes

\* Counting the copies of a record.
LEMMA CopiesParts ==
  ASSUME NEW r
  PROVE  /\ Copies(r) = delivered[r] + Cardinality(InQueue(queue, r))
                        + Cardinality(Having(got, Consumers, r))
                        + Cardinality(Having(item, Nodes, r))
         /\ Copies(r)' = delivered'[r] + Cardinality(InQueue(queue', r))
                         + Cardinality(Having(got', Consumers, r))
                         + Cardinality(Having(item', Nodes, r))
  BY DEF Copies, InQueue, Having

LEMMA CopiesSame ==
  ASSUME UNCHANGED <<queue, got, delivered>>, NEW r \in Records,
         \A m \in Nodes : item'[m] = item[m] \/ (item'[m] \notin Records /\ item[m] \notin Records)
  PROVE  Copies(r)' = Copies(r)
  <1>1. Having(item', Nodes, r) = Having(item, Nodes, r)
    BY DEF Having
  <1> QED
    BY <1>1, CopiesParts

LEMMA CardTypes ==
  ASSUME NEW r
  PROVE  /\ Cardinality(Having(got, Consumers, r)) \in Nat
         /\ Cardinality(Having(item, Nodes, r)) \in Nat
  <1>1. Having(got, Consumers, r) \subseteq Consumers /\ Having(item, Nodes, r) \subseteq Nodes
    BY DEF Having
  <1> QED
    BY <1>1, StreamAssumption, FS_Subset, FS_CardinalityType

\* A record that a worker or a consumer takes or gives away.
LEMMA ItemMoves ==
  ASSUME NEW n \in Nodes, NEW r, \A m \in Nodes : m # n => item'[m] = item[m]
  PROVE  /\ Cardinality(Having(item', Nodes, r)) \in Nat
         /\ item[n] # r /\ item'[n] = r =>
              Cardinality(Having(item', Nodes, r)) = Cardinality(Having(item, Nodes, r)) + 1
         /\ item[n] = r /\ item'[n] # r =>
              Cardinality(Having(item', Nodes, r)) = Cardinality(Having(item, Nodes, r)) - 1
         /\ (item[n] = r <=> item'[n] = r) =>
              Cardinality(Having(item', Nodes, r)) = Cardinality(Having(item, Nodes, r))
  <1>1. IsFiniteSet(Nodes) /\ ButFor(n, item, item', Nodes)
    BY StreamAssumption DEF ButFor
  <1> QED
    BY <1>1, HavingStep

LEMMA GotMoves ==
  ASSUME NEW c \in Consumers, NEW r, \A d \in Consumers : d # c => got'[d] = got[d]
  PROVE  /\ Cardinality(Having(got', Consumers, r)) \in Nat
         /\ got[c] # r /\ got'[c] = r =>
              Cardinality(Having(got', Consumers, r)) = Cardinality(Having(got, Consumers, r)) + 1
         /\ got[c] = r /\ got'[c] # r =>
              Cardinality(Having(got', Consumers, r)) = Cardinality(Having(got, Consumers, r)) - 1
         /\ (got[c] = r <=> got'[c] = r) =>
              Cardinality(Having(got', Consumers, r)) = Cardinality(Having(got, Consumers, r))
  <1>1. IsFiniteSet(Consumers) /\ ButFor(c, got, got', Consumers)
    BY StreamAssumption DEF ButFor
  <1> QED
    BY <1>1, HavingStep

\* The steps in which a worker reads leave the recordset alone.
LEMMA ReadingFrame ==
  ASSUME StreamInv, NEW n \in Nodes, OnlyWorker(n),
         UNCHANGED <<active, instances, queue, count, cpc, got, delivered, userClosed>>,
         wpc[n] \in {"spawned", "header", "check", "read"},
         wpc'[n] \in {"header", "check", "read", "push", "ending"},
         StreamTypeOK', InReply(n)', Pushes(n)', InOnePlace'
  PROVE  StreamInv'
  <1>1. Claiming' = Claiming /\ Storing' = Storing /\ Settling' = Settling /\ Working' = Working
    BY DEF Claiming, Storing, Settling, Working, OnlyWorker
  <1>2. CountExact'
    BY <1>1 DEF StreamInv, CountExact, Claiming, Settling
  <1>3. QueueBounded'
    BY <1>1 DEF StreamInv, QueueBounded, Storing
  <1>4. \A m \in Nodes : wpc'[m] = "closing" => wpc[m] = "closing"
    BY DEF OnlyWorker
  <1>5. EndSeen'
    BY <1>1, <1>4 DEF StreamInv, EndSeen
  <1>6. Returns'
    BY DEF StreamInv, Returns
  <1> QED
    BY <1>2, <1>3, <1>5, <1>6, OtherWorkers DEF StreamInv

\* The steps that read no item: the request, a header, the check of active.
LEMMA HeaderStep ==
  ASSUME StreamInv, NEW n \in Nodes,
         \/ Send(n) \/ SendFails(n) \/ ReadHeader(n) \/ ReadGarbageSizeZero(n)
         \/ HeaderFails(n) \/ CheckActive(n)
  PROVE  StreamInv'
  <1>1. /\ wpc' = [wpc EXCEPT ![n] = wpc'[n]] /\ item' = item
        /\ wpc[n] \in {"spawned", "header", "check", "read"}
        /\ wpc'[n] \in {"header", "check", "read", "ending"}
        /\ UNCHANGED <<active, instances, queue, count, cpc, got, delivered, userClosed>>
    BY DEF Send, SendFails, ReadHeader, ReadGarbageSizeZero, HeaderFails, CheckActive, Goto,
           recordset, consumers, StreamInv, StreamTypeOK, TypeOK
  <1>2. /\ fate' \in [Nodes -> {"ok", "error", "broken", "failed", "cut"}]
        /\ \A m \in Nodes : m # n => fate'[m] = fate[m]
        /\ wpc'[n] = "ending" => fate'[n] # "ok"
        /\ fate'[n] = fate[n] \/ fate'[n] # "ok"
    BY DEF Send, SendFails, ReadHeader, ReadGarbageSizeZero, HeaderFails, CheckActive, Goto,
           StreamInv, StreamTypeOK, TypeOK
  <1>3. conn' \in [Nodes -> {"none", "in_use", "pooled", "dirty", "closed"}]
    BY DEF Send, SendFails, ReadHeader, ReadGarbageSizeZero, HeaderFails, CheckActive,
           StreamInv, StreamTypeOK, TypeOK
  <1>4. InReply(n) /\ Pushes(n) /\ msg[n] \in Nat /\ pos[n] \in Nat
    BY DEF StreamInv, StreamTypeOK
  <1>5. \/ UNCHANGED <<msg, pos>> /\ (wpc'[n] = "read" => ~AtMessageEnd(n) /\ wpc[n] = "check")
             /\ (wpc[n] = "spawned" => wpc'[n] \in {"header", "ending"})
             /\ (wpc[n] \in {"header", "read"} => wpc'[n] = "ending")
             /\ wpc'[n] # "check"
        \/ /\ msg' = [msg EXCEPT ![n] = msg[n] + 1] /\ pos' = [pos EXCEPT ![n] = 0]
           /\ wpc[n] = "header" /\ wpc'[n] = "check"
           /\ AtMessageEnd(n) /\ msg[n] < Len(Stream[n])
    BY DEF Send, SendFails, ReadHeader, ReadGarbageSizeZero, HeaderFails, CheckActive, Goto,
           StreamInv, StreamTypeOK, TypeOK
  <1>6. /\ msg' \in [Nodes -> Nat] /\ pos' \in [Nodes -> Nat]
        /\ \A m \in Nodes : m # n => msg'[m] = msg[m] /\ pos'[m] = pos[m]
    BY <1>4, <1>5 DEF StreamInv, StreamTypeOK
  <1>7. StreamTypeOK'
    <2>1. active' \in BOOLEAN /\ userClosed' \in BOOLEAN
      BY <1>1, Zenon DEF StreamInv, StreamTypeOK, TypeOK
    <2>2. wpc' \in [Nodes -> {"spawned", "header", "check", "read", "push", "enqueue",
                              "undo", "ending", "closing", "done"}]
      BY <1>1 DEF StreamInv, StreamTypeOK, TypeOK
    <2> QED
      BY <2>1, <2>2, <1>1, <1>2, <1>3, <1>6 DEF StreamInv, StreamTypeOK, TypeOK
  <1>8. OnlyWorker(n)
    BY <1>1, <1>2, <1>6 DEF OnlyWorker, StreamInv, StreamTypeOK, TypeOK
  <1>9. InReply(n)'
    <2>1. CASE UNCHANGED <<msg, pos>>
      <3>1. /\ msg'[n] = msg[n] /\ pos'[n] = pos[n] /\ wpc'[n] # "check"
            /\ wpc'[n] = "read" => ~AtMessageEnd(n) /\ wpc[n] = "check"
            /\ wpc[n] = "spawned" => wpc'[n] \in {"header", "ending"}
            /\ wpc[n] \in {"header", "read"} => wpc'[n] = "ending"
        BY <2>1, <1>4, <1>5 DEF StreamInv, StreamTypeOK
      <3>2. msg[n] = 0 => wpc'[n] \in {"header", "ending"}
        BY <3>1, <1>1, <1>4 DEF InReply, Ended
      <3>3. ASSUME wpc'[n] = "read" PROVE pos[n] < Len(Stream[n][msg[n]])
        <4>1. msg[n] > 0 /\ pos[n] # Len(Stream[n][msg[n]]) /\ pos[n] <= Len(Stream[n][msg[n]])
          BY <3>1, <3>3, <1>4 DEF InReply, AtMessageEnd
        <4>2. Len(Stream[n][msg[n]]) \in Nat
          BY <4>1, <1>4, StreamFacts DEF InReply
        <4> QED
          BY <4>1, <4>2, <1>4
      <3> QED
        BY <3>1, <3>2, <3>3, <1>4 DEF InReply, Ended
    <2>2. CASE msg' = [msg EXCEPT ![n] = msg[n] + 1] /\ pos' = [pos EXCEPT ![n] = 0]
      <3>1. msg'[n] = msg[n] + 1 /\ pos'[n] = 0 /\ msg[n] < Len(Stream[n]) /\ wpc'[n] = "check"
        BY <2>2, <1>4, <1>5 DEF StreamInv, StreamTypeOK
      <3>2. Len(Stream[n][msg[n] + 1]) \in Nat /\ Len(Stream[n]) \in Nat
        BY <3>1, <1>4, StreamFacts
      <3> QED
        BY <3>1, <3>2, <1>4 DEF InReply
    <2> QED
      BY <2>1, <2>2, <1>5
  <1>10. Pushes(n)'
    BY <1>1, <1>2, <1>4 DEF Pushes, Pushing, Ended
  <1>11. InOnePlace'
    <2> SUFFICES ASSUME NEW r \in Records PROVE Copies(r)' = IF Read(r)' THEN 1 ELSE 0
      BY DEF InOnePlace
    <2>1. Copies(r)' = Copies(r)
      BY <1>1, CopiesSame
    <2>2. Read(r)' <=> Read(r)
      <3>1. /\ r[1] \in Nodes /\ r[2] \in DOMAIN Stream[r[1]]
            /\ r[3] \in DOMAIN Stream[r[1]][r[2]]
        BY RecordFacts
      <3>2. r[2] \in 1 .. Len(Stream[r[1]]) /\ r[3] \in 1 .. Len(Stream[r[1]][r[2]])
        BY <3>1, StreamFacts
      <3>3. CASE r[1] # n
        BY <3>1, <3>3, <1>6 DEF Read
      <3>4. CASE r[1] = n /\ UNCHANGED <<msg, pos>>
        BY <3>4 DEF Read
      <3>5. CASE /\ r[1] = n
                 /\ msg' = [msg EXCEPT ![n] = msg[n] + 1] /\ pos' = [pos EXCEPT ![n] = 0]
        <4>1. /\ msg'[n] = msg[n] + 1 /\ pos'[n] = 0 /\ AtMessageEnd(n)
          BY <3>5, <1>4, <1>5 DEF StreamInv, StreamTypeOK
        <4>2. r[2] \in Nat /\ r[3] \in Nat /\ r[3] > 0 /\ r[2] > 0
          BY <3>2, <3>1, StreamFacts
        <4>3. r[2] = msg[n] => r[3] <= pos[n]
          BY <4>1, <4>2, <3>2, <3>5, StreamFacts DEF AtMessageEnd
        <4>4. Read(r)' <=> r[2] < msg[n] + 1
          BY <4>1, <4>2, <3>5, <1>4 DEF Read
        <4> QED
          BY <4>2, <4>3, <4>4, <3>5, <1>4 DEF Read
      <3> QED
        BY <3>3, <3>4, <3>5, <1>5
    <2> QED
      BY <2>1, <2>2 DEF StreamInv, InOnePlace
  <1> QED
    BY <1>1, <1>7, <1>8, <1>9, <1>10, <1>11, ReadingFrame

\* An item of the reply is read, or its body cannot be.
LEMMA ItemStep ==
  ASSUME StreamInv, NEW n \in Nodes, ReadItem(n) \/ BodyFails(n)
  PROVE  StreamInv'
  <1> DEFINE g == msg[n]
             i == pos[n] + 1
             kind == Stream[n][g][i]
  <1>1. InReply(n) /\ Pushes(n) /\ g \in Nat /\ pos[n] \in Nat /\ wpc[n] = "read"
    BY DEF StreamInv, StreamTypeOK, ReadItem, BodyFails
  <1>2. /\ g \in 1 .. Len(Stream[n]) /\ i \in 1 .. Len(Stream[n][g])
        /\ Len(Stream[n][g]) \in Nat
        /\ kind \in {"record", "partition_done", "last", "server_error"}
    <2>1. /\ g > 0 /\ g <= Len(Stream[n]) /\ pos[n] < Len(Stream[n][g])
      BY <1>1 DEF InReply, Ended
    <2>2. g \in 1 .. Len(Stream[n]) /\ Len(Stream[n][g]) \in Nat
      BY <2>1, <1>1, StreamFacts
    <2>3. i \in 1 .. Len(Stream[n][g])
      BY <2>1, <2>2, <1>1
    <2> QED
      BY <2>2, <2>3, StreamFacts
  <1>3. /\ wpc' = [wpc EXCEPT ![n] = wpc'[n]] /\ wpc'[n] \in {"check", "push", "ending"}
        /\ UNCHANGED <<active, instances, queue, count, cpc, got, delivered, userClosed, msg>>
    BY DEF ReadItem, BodyFails, Goto, recordset, consumers, StreamInv, StreamTypeOK, TypeOK
  <1>4. \/ /\ kind = "record" /\ pos' = [pos EXCEPT ![n] = i]
           /\ item' = [item EXCEPT ![n] = <<n, g, i>>] /\ wpc'[n] = "push"
           /\ UNCHANGED <<conn, fate>>
        \/ /\ kind = "partition_done" /\ pos' = [pos EXCEPT ![n] = i] /\ wpc'[n] = "check"
           /\ UNCHANGED <<item, conn, fate>>
        \/ /\ kind = "last" /\ pos' = [pos EXCEPT ![n] = i] /\ wpc'[n] = "ending"
           /\ conn' = [conn EXCEPT ![n] = "pooled"] /\ UNCHANGED <<item, fate>>
        \/ /\ kind = "server_error" /\ pos' = [pos EXCEPT ![n] = i] /\ wpc'[n] = "push"
           /\ item' = [item EXCEPT ![n] = <<n, "error">>]
           /\ fate' = [fate EXCEPT ![n] = "error"] /\ UNCHANGED conn
        \/ /\ pos' = pos /\ wpc'[n] = "push"
           /\ item' = [item EXCEPT ![n] = <<n, "error">>]
           /\ fate' = [fate EXCEPT ![n] = "broken"] /\ UNCHANGED conn
    BY DEF ReadItem, BodyFails, Goto, StreamInv, StreamTypeOK, TypeOK
  <1> HIDE DEF g, i, kind
  <1>5. <<n, "error">> \in Errors /\ (kind = "record" => <<n, g, i>> \in Records)
    BY <1>2, RecordFacts, StreamFacts DEF Errors, kind
  <1>6. /\ item' \in [Nodes -> Records \cup Errors \cup {None}]
        /\ fate' \in [Nodes -> {"ok", "error", "broken", "failed", "cut"}]
        /\ conn' \in [Nodes -> {"none", "in_use", "pooled", "dirty", "closed"}]
        /\ pos' \in [Nodes -> Nat] /\ (pos'[n] = i \/ pos'[n] = pos[n])
        /\ \A m \in Nodes : m # n => item'[m] = item[m] /\ fate'[m] = fate[m] /\ pos'[m] = pos[m]
    <2>1. i \in Nat
      BY <1>2, StreamFacts
    <2>2. CASE kind = "record" /\ item' = [item EXCEPT ![n] = <<n, g, i>>]
               /\ pos' = [pos EXCEPT ![n] = i] /\ UNCHANGED <<conn, fate>>
      BY <2>1, <2>2, <1>5 DEF StreamInv, StreamTypeOK, TypeOK
    <2>3. CASE pos' = [pos EXCEPT ![n] = i] /\ UNCHANGED <<item, conn, fate>>
      BY <2>1, <2>3 DEF StreamInv, StreamTypeOK, TypeOK
    <2>4. CASE pos' = [pos EXCEPT ![n] = i] /\ conn' = [conn EXCEPT ![n] = "pooled"]
               /\ UNCHANGED <<item, fate>>
      BY <2>1, <2>4 DEF StreamInv, StreamTypeOK, TypeOK
    <2>5. CASE /\ pos' = pos \/ pos' = [pos EXCEPT ![n] = i]
               /\ item' = [item EXCEPT ![n] = <<n, "error">>]
               /\ \/ fate' = [fate EXCEPT ![n] = "error"]
                  \/ fate' = [fate EXCEPT ![n] = "broken"]
               /\ UNCHANGED conn
      BY <2>1, <2>5, <1>5 DEF StreamInv, StreamTypeOK, TypeOK
    <2> QED
      BY <1>4, <2>2, <2>3, <2>4, <2>5, Zenon
  <1>7. StreamTypeOK'
    <2>1. active' \in BOOLEAN /\ userClosed' \in BOOLEAN
      BY <1>3, Zenon DEF StreamInv, StreamTypeOK, TypeOK
    <2>2. wpc' \in [Nodes -> {"spawned", "header", "check", "read", "push", "enqueue",
                              "undo", "ending", "closing", "done"}]
      BY <1>3 DEF StreamInv, StreamTypeOK, TypeOK
    <2> QED
      BY <2>1, <2>2, <1>3, <1>6 DEF StreamInv, StreamTypeOK, TypeOK
  <1>8. OnlyWorker(n)
    BY <1>3, <1>6 DEF OnlyWorker, StreamInv, StreamTypeOK, TypeOK
  <1>9. InReply(n)'
    BY <1>1, <1>2, <1>3, <1>6 DEF InReply, g, i
  <1>10. Pushes(n)'
    <2>1. CASE kind = "record" /\ item'[n] = <<n, g, i>> /\ wpc'[n] = "push"
      BY <2>1, <1>5, RecordFacts DEF Pushes, Pushing, Ended
    <2>2. CASE wpc'[n] = "check" /\ UNCHANGED <<item, fate>>
      BY <2>2, <1>1 DEF Pushes, Pushing, Ended
    <2>3. CASE kind = "last" /\ pos'[n] = i /\ wpc'[n] = "ending" /\ UNCHANGED <<item, fate>>
      <3>1. g = Len(Stream[n]) /\ i = Len(Stream[n][g]) /\ g > 0
        BY <2>3, <1>2, LastAssumption, StreamFacts DEF kind
      <3> QED
        BY <2>3, <3>1, <1>1, <1>3 DEF Pushes, Pushing, Ended, g
    <2>4. CASE item'[n] = <<n, "error">> /\ wpc'[n] = "push" /\ fate'[n] # "ok"
      BY <2>4, <1>5, RecordFacts DEF Pushes, Pushing, Ended
    <2> QED
      BY <1>4, <2>1, <2>2, <2>3, <2>4 DEF StreamInv, StreamTypeOK, TypeOK
  <1>11. InOnePlace'
    <2> SUFFICES ASSUME NEW r \in Records PROVE Copies(r)' = IF Read(r)' THEN 1 ELSE 0
      BY DEF InOnePlace
    <2>0. /\ r[1] \in Nodes /\ r[2] \in 1 .. Len(Stream[r[1]]) /\ r[2] \in Nat
          /\ r[3] \in 1 .. Len(Stream[r[1]][r[2]]) /\ r[3] \in Nat
          /\ Stream[r[1]][r[2]][r[3]] = "record" /\ r = <<r[1], r[2], r[3]>>
      BY RecordFacts, StreamFacts
    <2>1. Copies(r) = IF Read(r) THEN 1 ELSE 0
      BY DEF StreamInv, InOnePlace
    <2>2. item[n] \notin Records
      BY <1>1 DEF Pushes, Pushing
    <2>3. CASE r = <<n, g, i>>
      <3>1. r[1] = n /\ r[2] = g /\ r[3] = i /\ ~Read(r)
        BY <2>3, <1>1 DEF Read, g, i
      <3>2. CASE kind = "record" /\ item' = [item EXCEPT ![n] = r] /\ pos'[n] = i
        <4>1. Read(r)'
          BY <3>1, <3>2, <2>0, <1>3 DEF Read, g
        <4>2. item'[n] = r /\ \A m \in Nodes : m # n => item'[m] = item[m]
          BY <3>2 DEF StreamInv, StreamTypeOK, TypeOK
        <4>3. item[n] # r
          BY <2>2
        <4>4. Cardinality(Having(item', Nodes, r)) = Cardinality(Having(item, Nodes, r)) + 1
          BY <4>2, <4>3, ItemMoves
        <4>5. Copies(r)' = Copies(r) + 1
          <5>1. /\ delivered[r] \in Nat /\ Cardinality(InQueue(queue, r)) \in Nat
                /\ Cardinality(Having(got, Consumers, r)) \in Nat
                /\ Cardinality(Having(item, Nodes, r)) \in Nat
            BY CardTypes, InQueueFinite DEF StreamInv, StreamTypeOK, TypeOK
          <5>2. /\ delivered'[r] = delivered[r] /\ InQueue(queue', r) = InQueue(queue, r)
                /\ Having(got', Consumers, r) = Having(got, Consumers, r)
            BY <1>3
          <5> QED
            BY <5>1, <5>2, <4>4, CopiesParts
        <4> QED
          BY <4>1, <4>5, <3>1, <2>1
      <3>3. CASE kind # "record"
        BY <3>1, <3>3, <2>0 DEF kind
      <3>4. CASE pos' = pos /\ item' = [item EXCEPT ![n] = <<n, "error">>]
        <4>1. ~Read(r)'
          BY <3>1, <3>4, <1>3 DEF Read
        <4>2. \A m \in Nodes : item'[m] = item[m] \/ (item'[m] \notin Records /\ item[m] \notin Records)
          BY <3>4, <2>2, <1>5, RecordFacts DEF StreamInv, StreamTypeOK, TypeOK
        <4>3. Copies(r)' = Copies(r)
          BY <4>2, <1>3, CopiesSame
        <4> QED
          BY <4>1, <4>3, <3>1, <2>1
      <3> QED
        BY <1>4, <2>3, <3>2, <3>3, <3>4 DEF StreamInv, StreamTypeOK
    <2>4. CASE r # <<n, g, i>>
      <3>1. r[1] = n /\ r[2] = g => r[3] # i
        BY <2>0, <2>4
      <3>2. Read(r)' <=> Read(r)
        BY <3>1, <2>0, <1>1, <1>3, <1>6 DEF Read, g, i
      <3>3. Having(item', Nodes, r) = Having(item, Nodes, r)
        <4>1. item[n] # r /\ item'[n] # r
          <5>1. \/ item'[n] = <<n, g, i>> \/ item'[n] = item[n] \/ item'[n] = <<n, "error">>
            BY <1>4 DEF StreamInv, StreamTypeOK, TypeOK
          <5> QED
            BY <5>1, <2>2, <2>4, <1>5, RecordFacts
        <4> QED
          BY <4>1, <1>6 DEF Having
      <3>4. Copies(r)' = Copies(r)
        BY <3>3, <1>3, CopiesParts
      <3> QED
        BY <3>2, <3>4, <2>1
    <2> QED
      BY <2>3, <2>4
  <1> QED
    BY <1>1, <1>3, <1>7, <1>8, <1>9, <1>10, <1>11, ReadingFrame

LEMMA Finite ==
  /\ IsFiniteSet(Claiming) /\ IsFiniteSet(Storing) /\ IsFiniteSet(Settling) /\ IsFiniteSet(Working)
  /\ Cardinality(Claiming) \in Nat /\ Cardinality(Storing) \in Nat
  /\ Cardinality(Settling) \in Nat /\ Cardinality(Working) \in Nat
  <1>1. Claiming \subseteq Nodes /\ Storing \subseteq Nodes /\ Settling \subseteq Consumers
        /\ Working \subseteq Nodes
    BY DEF Claiming, Storing, Settling, Working
  <1> QED
    BY <1>1, StreamAssumption, FS_Subset, FS_CardinalityType

\* A step of a worker that pushes: the recordset stays open and its workers the same.
LEMMA PushingFrame ==
  ASSUME StreamInv, NEW n \in Nodes, wpc[n] \in Pushing, OnlyWorker(n),
         wpc'[n] \in {"push", "enqueue", "undo", "check", "ending"},
         UNCHANGED <<active, instances, cpc, got, delivered, userClosed>>,
         queue' = queue \/ queue' = Append(queue, item[n])
  PROVE  EndSeen' /\ Returns' /\ Settling' = Settling
  <1>1. n \in Working /\ Working' = Working /\ Settling' = Settling
    BY DEF Working, Settling, OnlyWorker, Pushing
  <1>2. \A m \in Nodes : wpc'[m] # "closing"
    BY <1>1 DEF StreamInv, EndSeen, OnlyWorker
  <1>3. (\E c \in Consumers : cpc[c] = "ended") => userClosed # FALSE
    BY <1>1 DEF StreamInv, EndSeen
  <1>4. EndSeen'
    BY <1>1, <1>2, <1>3 DEF StreamInv, EndSeen
  <1> QED
    BY <1>1, <1>4 DEF StreamInv, Returns

\* Recordset::push claims a place.
LEMMA ClaimStep ==
  ASSUME StreamInv, NEW n \in Nodes, PushClaim(n)
  PROVE  StreamInv'
  <1>1. /\ wpc[n] = "push" /\ count' = count + 1
        /\ wpc' = [wpc EXCEPT ![n] = IF count < RecordQueueSize THEN "enqueue" ELSE "undo"]
        /\ UNCHANGED <<active, instances, queue, cpc, got, delivered, userClosed, msg, pos, item,
                       conn, fate>>
    BY DEF PushClaim, Goto, consumers
  <1>2. /\ wpc'[n] = IF count < RecordQueueSize THEN "enqueue" ELSE "undo"
        /\ \A m \in Nodes : m # n => wpc'[m] = wpc[m]
        /\ count \in Nat /\ Len(queue) \in Nat
    BY <1>1 DEF StreamInv, StreamTypeOK, TypeOK
  <1>3. StreamTypeOK'
    <2>1. active' \in BOOLEAN /\ userClosed' \in BOOLEAN
      BY <1>1, Zenon DEF StreamInv, StreamTypeOK, TypeOK
    <2>2. wpc' \in [Nodes -> {"spawned", "header", "check", "read", "push", "enqueue",
                              "undo", "ending", "closing", "done"}]
      BY <1>1 DEF StreamInv, StreamTypeOK, TypeOK
    <2> QED
      BY <2>1, <2>2, <1>1, <1>2 DEF StreamInv, StreamTypeOK, TypeOK
  <1>4. OnlyWorker(n)
    BY <1>1, <1>2 DEF OnlyWorker
  <1>5. InReply(n)' /\ Pushes(n)'
    BY <1>1, <1>2 DEF StreamInv, InReply, Pushes, Pushing, Ended
  <1>6. EndSeen' /\ Returns' /\ Settling' = Settling
    BY <1>1, <1>2, <1>4, PushingFrame DEF Pushing
  <1>7. InOnePlace'
    BY <1>1, CopiesSame DEF StreamInv, InOnePlace, Read
  <1>8. Cardinality(Claiming') = Cardinality(Claiming) + 1
    <2>1. n \notin Claiming /\ Claiming' = Claiming \cup {n}
      BY <1>1, <1>2 DEF Claiming
    <2> QED
      BY <2>1, Finite, FS_AddElement
  <1>9. CountExact'
    BY <1>1, <1>2, <1>6, <1>8, Finite DEF StreamInv, CountExact, Claiming, Settling
  <1>10. QueueBounded'
    <2>1. CASE count < RecordQueueSize
      <3>1. n \notin Storing /\ Storing' = Storing \cup {n} /\ Storing \subseteq Claiming
        BY <2>1, <1>1, <1>2 DEF Storing, Claiming
      <3>2. /\ Cardinality(Storing') = Cardinality(Storing) + 1
            /\ Cardinality(Storing) <= Cardinality(Claiming)
        BY <3>1, Finite, FS_AddElement, FS_Subset
      <3>3. count = Len(queue) + Cardinality(Claiming) + Cardinality(Settling)
        BY DEF StreamInv, CountExact, Claiming, Settling
      <3>4. Len(queue) + Cardinality(Storing') <= RecordQueueSize
        BY <2>1, <3>2, <3>3, <1>2, Finite, StreamAssumption
      <3> QED
        BY <3>4, <1>1 DEF QueueBounded, Storing
    <2>2. CASE ~(count < RecordQueueSize)
      <3>1. Storing' = Storing
        BY <2>2, <1>1, <1>2 DEF Storing
      <3> QED
        BY <3>1, <1>1 DEF StreamInv, QueueBounded, Storing
    <2> QED
      BY <2>1, <2>2
  <1> QED
    BY <1>3, <1>4, <1>5, <1>6, <1>7, <1>9, <1>10, OtherWorkers DEF StreamInv

\* The claim is given back, because the queue is full.
LEMMA UndoStep ==
  ASSUME StreamInv, NEW n \in Nodes, UndoClaim(n)
  PROVE  StreamInv'
  <1>1. /\ wpc[n] = "undo" /\ count' = count - 1
        /\ wpc' = [wpc EXCEPT ![n] = IF item[n] \in Errors THEN "ending" ELSE "push"]
        /\ \/ conn' = conn
           \/ conn' = [conn EXCEPT ![n] = IF fate[n] = "broken" THEN "dirty" ELSE "pooled"]
        /\ UNCHANGED <<active, instances, queue, cpc, got, delivered, userClosed, msg, pos, item,
                       fate>>
    BY DEF UndoClaim, AfterPush, Goto, consumers
  <1>2. /\ wpc'[n] = IF item[n] \in Errors THEN "ending" ELSE "push"
        /\ \A m \in Nodes : m # n => wpc'[m] = wpc[m]
        /\ count \in Nat /\ Len(queue) \in Nat
    BY <1>1 DEF StreamInv, StreamTypeOK, TypeOK
  <1>3. Cardinality(Claiming') = Cardinality(Claiming) - 1
    <2>1. n \in Claiming /\ Claiming' = Claiming \ {n}
      BY <1>1, <1>2 DEF Claiming
    <2> QED
      BY <2>1, Finite, FS_RemoveElement
  <1>4. OnlyWorker(n)
    BY <1>1, <1>2 DEF OnlyWorker
  <1>5. InReply(n)' /\ Pushes(n)'
    BY <1>1, <1>2, RecordFacts DEF StreamInv, InReply, Pushes, Pushing, Ended
  <1>6. EndSeen' /\ Returns' /\ Settling' = Settling
    BY <1>1, <1>2, <1>4, PushingFrame DEF Pushing
  <1>7. InOnePlace'
    BY <1>1, CopiesSame DEF StreamInv, InOnePlace, Read
  <1>8. CountExact' /\ count' \in Nat
    <2>1. count = Len(queue) + Cardinality(Claiming) + Cardinality(Settling)
      BY DEF StreamInv, CountExact, Claiming, Settling
    <2>2. Cardinality(Claiming') \in Nat
      <3>1. Claiming' \subseteq Nodes
        BY DEF Claiming
      <3> QED
        BY <3>1, StreamAssumption, FS_Subset, FS_CardinalityType
    <2>3. /\ count' = Len(queue) + Cardinality(Claiming') + Cardinality(Settling)
          /\ count' \in Nat
      BY <2>1, <2>2, <1>1, <1>2, <1>3, Finite
    <2> QED
      BY <2>3, <1>1, <1>6 DEF CountExact, Claiming, Settling
  <1>9. QueueBounded'
    <2>1. Storing' = Storing
      BY <1>1, <1>2 DEF Storing
    <2> QED
      BY <2>1, <1>1 DEF StreamInv, QueueBounded, Storing
  <1>10. StreamTypeOK'
    <2>1. active' \in BOOLEAN /\ userClosed' \in BOOLEAN
      BY <1>1, Zenon DEF StreamInv, StreamTypeOK, TypeOK
    <2>2. wpc' \in [Nodes -> {"spawned", "header", "check", "read", "push", "enqueue",
                              "undo", "ending", "closing", "done"}]
      BY <1>1 DEF StreamInv, StreamTypeOK, TypeOK
    <2>3. conn' \in [Nodes -> {"none", "in_use", "pooled", "dirty", "closed"}]
      BY <1>1 DEF StreamInv, StreamTypeOK, TypeOK
    <2> QED
      BY <2>1, <2>2, <2>3, <1>1, <1>8 DEF StreamInv, StreamTypeOK, TypeOK
  <1> QED
    BY <1>4, <1>5, <1>6, <1>7, <1>8, <1>9, <1>10, OtherWorkers DEF StreamInv

\* The claimed place is filled.
LEMMA EnqueueStep ==
  ASSUME StreamInv, NEW n \in Nodes, Enqueue(n)
  PROVE  StreamInv'
  <1>1. /\ wpc[n] = "enqueue" /\ queue' = Append(queue, item[n])
        /\ item' = [item EXCEPT ![n] = None]
        /\ wpc' = [wpc EXCEPT ![n] = IF item[n] \in Errors THEN "ending" ELSE "check"]
        /\ \/ conn' = conn
           \/ conn' = [conn EXCEPT ![n] = IF fate[n] = "broken" THEN "dirty" ELSE "pooled"]
        /\ UNCHANGED <<active, instances, count, cpc, got, delivered, userClosed, msg, pos, fate>>
    BY DEF Enqueue, AfterPush, Goto, consumers
  <1>2. /\ wpc'[n] = IF item[n] \in Errors THEN "ending" ELSE "check"
        /\ item'[n] = None /\ queue \in Seq(Records \cup Errors)
        /\ \A m \in Nodes : m # n => wpc'[m] = wpc[m] /\ item'[m] = item[m]
        /\ count \in Nat /\ Len(queue) \in Nat
    BY <1>1 DEF StreamInv, StreamTypeOK, TypeOK
  <1>3. item[n] \in Records \cup Errors /\ InReply(n) /\ Pushes(n) /\ msg[n] \in Nat
    BY <1>1 DEF StreamInv, Pushes, Pushing, StreamTypeOK
  <1>4. /\ queue' \in Seq(Records \cup Errors) /\ Len(queue') = Len(queue) + 1
    BY <1>1, <1>2, <1>3, AppendProperties
  <1>5. OnlyWorker(n)
    BY <1>1, <1>2 DEF OnlyWorker
  <1>6. InReply(n)' /\ Pushes(n)'
    BY <1>1, <1>2, <1>3, RecordFacts DEF InReply, Pushes, Pushing, Ended
  <1>7. EndSeen' /\ Returns' /\ Settling' = Settling
    BY <1>1, <1>2, <1>5, PushingFrame DEF Pushing
  <1>8. /\ Cardinality(Claiming') = Cardinality(Claiming) - 1
        /\ Cardinality(Storing') = Cardinality(Storing) - 1
    <2>1. /\ n \in Claiming /\ Claiming' = Claiming \ {n}
          /\ n \in Storing /\ Storing' = Storing \ {n}
      BY <1>1, <1>2 DEF Claiming, Storing
    <2> QED
      BY <2>1, Finite, FS_RemoveElement
  <1>9. CountExact'
    <2>1. count = Len(queue) + Cardinality(Claiming) + Cardinality(Settling)
      BY DEF StreamInv, CountExact, Claiming, Settling
    <2>2. count' = Len(queue') + Cardinality(Claiming') + Cardinality(Settling)
      BY <2>1, <1>1, <1>2, <1>4, <1>8, Finite
    <2> QED
      BY <2>2, <1>7 DEF CountExact, Claiming, Settling
  <1>10. QueueBounded'
    <2>1. Len(queue) + Cardinality(Storing) <= RecordQueueSize
      BY DEF StreamInv, QueueBounded, Storing
    <2>2. Len(queue') + Cardinality(Storing') <= RecordQueueSize
      BY <2>1, <1>2, <1>4, <1>8, Finite
    <2> QED
      BY <2>2 DEF QueueBounded, Storing
  <1>11. StreamTypeOK'
    <2>1. active' \in BOOLEAN /\ userClosed' \in BOOLEAN
      BY <1>1, Zenon DEF StreamInv, StreamTypeOK, TypeOK
    <2>2. wpc' \in [Nodes -> {"spawned", "header", "check", "read", "push", "enqueue",
                              "undo", "ending", "closing", "done"}]
      BY <1>1 DEF StreamInv, StreamTypeOK, TypeOK
    <2>3. conn' \in [Nodes -> {"none", "in_use", "pooled", "dirty", "closed"}]
      BY <1>1 DEF StreamInv, StreamTypeOK, TypeOK
    <2>4. item' \in [Nodes -> Records \cup Errors \cup {None}]
      BY <1>1 DEF StreamInv, StreamTypeOK, TypeOK
    <2> QED
      BY <2>1, <2>2, <2>3, <2>4, <1>1, <1>4 DEF StreamInv, StreamTypeOK, TypeOK
  <1>12. InOnePlace'
    <2> SUFFICES ASSUME NEW r \in Records PROVE Copies(r)' = Copies(r)
      BY <1>1 DEF StreamInv, InOnePlace, Read
    <2>1. Cardinality(InQueue(queue', r))
            = Cardinality(InQueue(queue, r)) + (IF item[n] = r THEN 1 ELSE 0)
      BY <1>1, <1>2, <1>3, InQueueAppend
    <2>2. Cardinality(Having(item', Nodes, r))
            = Cardinality(Having(item, Nodes, r)) - (IF item[n] = r THEN 1 ELSE 0)
      <3>1. item'[n] # r
        BY <1>2, RecordFacts
      <3> QED
        BY <3>1, <1>2, ItemMoves, CardTypes
    <2>3. /\ delivered[r] \in Nat /\ Cardinality(InQueue(queue, r)) \in Nat
          /\ Cardinality(Having(got, Consumers, r)) \in Nat
          /\ Cardinality(Having(item, Nodes, r)) \in Nat
      BY CardTypes, InQueueFinite DEF StreamInv, StreamTypeOK, TypeOK
    <2>4. delivered'[r] = delivered[r] /\ Having(got', Consumers, r) = Having(got, Consumers, r)
      BY <1>1
    <2> QED
      BY <2>1, <2>2, <2>3, <2>4, CopiesParts
  <1> QED
    BY <1>5, <1>6, <1>7, <1>9, <1>10, <1>11, <1>12, OtherWorkers DEF StreamInv

\* A worker counts itself out, and the last one closes the recordset.
LEMMA EndStep ==
  ASSUME StreamInv, NEW n \in Nodes, SignalEnd(n) \/ CloseByLast(n)
  PROVE  StreamInv'
  <1>1. /\ wpc[n] \in {"ending", "closing"} /\ wpc'[n] \in {"closing", "done"}
        /\ wpc' = [wpc EXCEPT ![n] = wpc'[n]]
        /\ UNCHANGED <<queue, count, cpc, got, delivered, userClosed, msg, pos, item, conn, fate>>
    BY DEF SignalEnd, CloseByLast, Goto, consumers, StreamInv, StreamTypeOK, TypeOK
  <1>2. \A m \in Nodes : m # n => wpc'[m] = wpc[m]
    BY <1>1 DEF StreamInv, StreamTypeOK, TypeOK
  <1>3. OnlyWorker(n)
    BY <1>1, <1>2 DEF OnlyWorker
  <1>4. InReply(n)' /\ Pushes(n)'
    BY <1>1 DEF StreamInv, InReply, Pushes, Pushing, Ended
  <1>5. Claiming' = Claiming /\ Storing' = Storing /\ Settling' = Settling
    BY <1>1, <1>2 DEF Claiming, Storing, Settling
  <1>6. CountExact' /\ QueueBounded' /\ Returns'
    BY <1>1, <1>5 DEF StreamInv, CountExact, QueueBounded, Returns, Claiming, Storing, Settling
  <1>7. InOnePlace'
    BY <1>1, CopiesSame DEF StreamInv, InOnePlace, Read
  <1>8. instances = Cardinality(Working)
    BY DEF StreamInv, EndSeen
  <1>9. EndSeen' /\ active' \in BOOLEAN
    <2>1. CASE SignalEnd(n)
      <3>1. /\ wpc[n] = "ending" /\ instances' = instances - 1 /\ active' = active
            /\ wpc'[n] = IF instances = 1 THEN "closing" ELSE "done"
        BY <2>1 DEF SignalEnd, Goto, StreamInv, StreamTypeOK, TypeOK
      <3>2. n \in Working /\ Working' = Working \ {n}
        BY <3>1, <1>1, <1>2 DEF Working
      <3>3. instances' = Cardinality(Working') /\ IsFiniteSet(Working')
        BY <3>1, <3>2, <1>8, Finite, FS_RemoveElement
      <3>4. wpc'[n] = "closing" => Working' = {}
        <4> SUFFICES ASSUME wpc'[n] = "closing" PROVE Working' = {}
          OBVIOUS
        <4>1. instances = 1
          BY <3>1
        <4>2. Cardinality(Working') = 0
          BY <4>1, <3>1, <3>3
        <4> QED
          BY <4>2, <3>3, FS_EmptySet
      <3>5. active' \in BOOLEAN
        BY <3>1, Zenon DEF StreamInv, StreamTypeOK, TypeOK
      <3>6. \A m \in Nodes : wpc[m] # "closing"
        BY <3>2 DEF StreamInv, EndSeen
      <3> QED
        BY <3>1, <3>2, <3>3, <3>4, <3>5, <3>6, <1>1, <1>2 DEF StreamInv, EndSeen
    <2>2. CASE CloseByLast(n)
      <3>1. wpc[n] = "closing" /\ active' = FALSE /\ instances' = instances
        BY <2>2 DEF CloseByLast
      <3>2. Working = {} /\ Working' = Working
        BY <3>1, <1>1, <1>2 DEF StreamInv, EndSeen, Working
      <3>3. active' \in BOOLEAN
        BY <3>1, Zenon
      <3> QED
        BY <3>1, <3>2, <3>3, <1>1, <1>8 DEF StreamInv, EndSeen
    <2> QED
      BY <2>1, <2>2
  <1>10. StreamTypeOK'
    <2>1. userClosed' \in BOOLEAN
      BY <1>1, Zenon DEF StreamInv, StreamTypeOK, TypeOK
    <2>2. wpc' \in [Nodes -> {"spawned", "header", "check", "read", "push", "enqueue",
                              "undo", "ending", "closing", "done"}]
      BY <1>1 DEF StreamInv, StreamTypeOK, TypeOK
    <2>3. instances' \in 0 .. Cardinality(Nodes)
      <3>1. Working' \subseteq Nodes /\ instances' = Cardinality(Working')
        BY <1>9 DEF Working, EndSeen
      <3>2. /\ Cardinality(Working') \in Nat /\ Cardinality(Working') <= Cardinality(Nodes)
            /\ Cardinality(Nodes) \in Nat
        BY <3>1, StreamAssumption, FS_Subset, FS_CardinalityType
      <3> QED
        BY <3>1, <3>2
    <2> QED
      BY <2>1, <2>2, <2>3, <1>1, <1>9 DEF StreamInv, StreamTypeOK, TypeOK
  <1> QED
    BY <1>3, <1>4, <1>6, <1>7, <1>9, <1>10, OtherWorkers DEF StreamInv

-----------------------------------------------------------------------------
(* Steps of a consumer *)

LEMMA ConsumerFrame ==
  ASSUME StreamInv, UNCHANGED <<wpc, msg, pos, item, conn, fate>>
  PROVE  /\ \A n \in Nodes : InReply(n)' /\ Pushes(n)'
         /\ Claiming' = Claiming /\ Storing' = Storing /\ Working' = Working
         /\ \A r \in Records : Read(r)' = Read(r)
  <1>1. \A n \in Nodes : InReply(n)' /\ Pushes(n)'
    BY DEF StreamInv, InReply, Pushes
  <1> QED
    BY <1>1 DEF Claiming, Storing, Working, Read

\* A consumer looks, or stops, or closes the recordset.
LEMMA LookStep ==
  ASSUME StreamInv, NEW c \in Consumers,
         \/ Look(c) \/ Peek(c) \/ UserClose(c) \/ StopReading(c)
         \/ Pop(c) /\ queue = << >>
  PROVE  StreamInv'
  <1>1. /\ cpc' = [cpc EXCEPT ![c] = cpc'[c]] /\ cpc[c] \in {"look", "peek", "pop"}
        /\ cpc'[c] \in {"look", "peek", "pop", "ended"}
        /\ UNCHANGED <<instances, queue, count, wpc, msg, pos, item, conn, fate, got, delivered>>
    BY DEF Look, Peek, UserClose, StopReading, Pop, recordset, workers,
           StreamInv, StreamTypeOK, TypeOK
  <1>2. /\ active' \in BOOLEAN /\ userClosed' \in BOOLEAN
        /\ active' = active \/ (active' = FALSE /\ userClosed' = TRUE)
        /\ userClosed' = userClosed \/ userClosed' = TRUE
        /\ cpc'[c] = "peek" => active' = FALSE
        /\ cpc'[c] = "ended" => userClosed' = TRUE \/ (cpc[c] = "peek" /\ queue = << >>)
    <2>1. active \in BOOLEAN /\ userClosed \in BOOLEAN /\ cpc[c] # "ended"
      BY <1>1, Zenon DEF StreamInv, StreamTypeOK, TypeOK
    <2>2. CASE Look(c)
      <3>1. /\ active' = active /\ userClosed' = userClosed /\ cpc'[c] # "ended"
            /\ cpc'[c] = IF active THEN "pop" ELSE "peek"
        BY <2>2 DEF Look, recordset, StreamInv, StreamTypeOK, TypeOK
      <3>2. cpc'[c] = "peek" => active = FALSE
        <4>1. CASE active = TRUE
          BY <3>1, <4>1
        <4>2. CASE active = FALSE
          BY <4>2
        <4> QED
          BY <4>1, <4>2, <2>1
      <3> QED
        BY <3>1, <3>2, <2>1, Zenon
    <2>3. CASE Peek(c)
      <3>1. /\ active' = active /\ userClosed' = userClosed /\ cpc'[c] # "peek" /\ cpc[c] = "peek"
            /\ cpc'[c] = "ended" => queue = << >>
        BY <2>3 DEF Peek, recordset, StreamInv, StreamTypeOK, TypeOK
      <3> QED
        BY <3>1, <2>1, Zenon
    <2>4. CASE UserClose(c)
      <3>1. active' = FALSE /\ userClosed' = TRUE
        BY <2>4, Zenon DEF UserClose
      <3> QED
        BY <3>1, Zenon
    <2>5. CASE StopReading(c)
      <3>1. userClosed /\ active' = active /\ userClosed' = userClosed
        BY <2>5, Zenon DEF StopReading, recordset
      <3>2. cpc'[c] = "ended"
        BY <2>5 DEF StopReading, StreamInv, StreamTypeOK, TypeOK
      <3>3. userClosed' = TRUE
        BY <3>1, <2>1, Zenon
      <3>4. cpc'[c] # "peek"
        BY <3>2
      <3> QED
        BY <3>1, <3>3, <3>4, <2>1, Zenon
    <2>6. CASE Pop(c) /\ queue = << >>
      <3>1. active' = active /\ userClosed' = userClosed /\ cpc'[c] # "peek" /\ cpc'[c] # "ended"
        BY <2>6 DEF Pop, StreamInv, StreamTypeOK, TypeOK
      <3> QED
        BY <3>1, <2>1, Zenon
    <2> QED
      BY <2>2, <2>3, <2>4, <2>5, <2>6
  <1>3. \A d \in Consumers : d # c => cpc'[d] = cpc[d]
    BY <1>1 DEF StreamInv, StreamTypeOK, TypeOK
  <1>4. StreamTypeOK'
    <2>1. cpc' \in [Consumers -> {"look", "peek", "pop", "settle", "ended"}]
      BY <1>1 DEF StreamInv, StreamTypeOK, TypeOK
    <2> QED
      BY <2>1, <1>1, <1>2 DEF StreamInv, StreamTypeOK, TypeOK
  <1>5. /\ \A n \in Nodes : InReply(n)' /\ Pushes(n)'
        /\ Claiming' = Claiming /\ Storing' = Storing /\ Working' = Working
    BY <1>1, ConsumerFrame
  <1>6. Settling' = Settling /\ Returns'
    BY <1>1, <1>3 DEF StreamInv, Settling, Returns
  <1>7. CountExact' /\ QueueBounded'
    BY <1>1, <1>5, <1>6 DEF StreamInv, CountExact, QueueBounded, Claiming, Storing, Settling
  <1>8. InOnePlace'
    BY <1>1, CopiesSame DEF StreamInv, InOnePlace, Read
  <1>9. EndSeen'
    <2>1. instances' = Cardinality(Working') /\ ((\E n \in Nodes : wpc'[n] = "closing") => Working' = {})
      BY <1>1, <1>5 DEF StreamInv, EndSeen
    <2>2. active' = FALSE /\ userClosed' = FALSE => Working' = {}
      BY <1>2, <1>5 DEF StreamInv, EndSeen
    <2>3. \A d \in Consumers : cpc'[d] = "peek" => active' = FALSE
      BY <1>2, <1>3 DEF StreamInv, EndSeen
    <2>4. ASSUME NEW d \in Consumers, cpc'[d] = "ended", userClosed' = FALSE
          PROVE  active' = FALSE /\ queue' = << >>
      <3>1. userClosed = FALSE /\ active' = active
        BY <2>4, <1>2
      <3>2. CASE d # c
        BY <3>1, <3>2, <2>4, <1>1, <1>3 DEF StreamInv, EndSeen
      <3>3. CASE d = c
        <4>1. cpc[c] = "peek" /\ queue = << >>
          BY <3>3, <2>4, <1>2
        <4> QED
          BY <4>1, <3>1, <1>1 DEF StreamInv, EndSeen
      <3> QED
        BY <3>2, <3>3
    <2> QED
      BY <2>1, <2>2, <2>3, <2>4 DEF EndSeen
  <1> QED
    BY <1>4, <1>5, <1>6, <1>7, <1>8, <1>9 DEF StreamInv

\* A record or an error is popped.
LEMMA PopStep ==
  ASSUME StreamInv, NEW c \in Consumers, Pop(c), queue # << >>
  PROVE  StreamInv'
  <1>1. /\ cpc[c] = "pop" /\ cpc' = [cpc EXCEPT ![c] = "settle"]
        /\ got' = [got EXCEPT ![c] = Head(queue)] /\ queue' = Tail(queue)
        /\ UNCHANGED <<active, instances, count, wpc, msg, pos, item, conn, fate, delivered, userClosed>>
    BY DEF Pop, workers
  <1>2. /\ cpc'[c] = "settle" /\ got'[c] = Head(queue) /\ queue \in Seq(Records \cup Errors)
        /\ \A d \in Consumers : d # c => cpc'[d] = cpc[d] /\ got'[d] = got[d]
        /\ count \in Nat
    BY <1>1 DEF StreamInv, StreamTypeOK, TypeOK
  <1>3. /\ Head(queue) \in Records \cup Errors /\ queue' \in Seq(Records \cup Errors)
        /\ Len(queue') = Len(queue) - 1 /\ Len(queue) \in Nat \ {0}
    BY <1>1, <1>2, HeadTailProperties
  <1>4. StreamTypeOK'
    <2>1. active' \in BOOLEAN /\ userClosed' \in BOOLEAN
      BY <1>1, Zenon DEF StreamInv, StreamTypeOK, TypeOK
    <2>2. cpc' \in [Consumers -> {"look", "peek", "pop", "settle", "ended"}]
      BY <1>1 DEF StreamInv, StreamTypeOK, TypeOK
    <2>3. got' \in [Consumers -> Records \cup Errors \cup {None}]
      BY <1>1, <1>3 DEF StreamInv, StreamTypeOK, TypeOK
    <2> QED
      BY <2>1, <2>2, <2>3, <1>1, <1>3 DEF StreamInv, StreamTypeOK, TypeOK
  <1>5. /\ \A n \in Nodes : InReply(n)' /\ Pushes(n)'
        /\ Claiming' = Claiming /\ Storing' = Storing /\ Working' = Working
    BY <1>1, ConsumerFrame
  <1>6. Returns' /\ Cardinality(Settling') = Cardinality(Settling) + 1
    <2>1. c \notin Settling /\ Settling' = Settling \cup {c}
      BY <1>1, <1>2 DEF Settling
    <2>2. Cardinality(Settling') = Cardinality(Settling) + 1
      BY <2>1, Finite, FS_AddElement
    <2> QED
      BY <2>2, <1>1, <1>2 DEF StreamInv, Returns
  <1>7. CountExact'
    <2>1. count = Len(queue) + Cardinality(Claiming) + Cardinality(Settling)
      BY DEF StreamInv, CountExact, Claiming, Settling
    <2>2. count' = Len(queue') + Cardinality(Claiming') + Cardinality(Settling')
      BY <2>1, <1>1, <1>3, <1>5, <1>6, Finite
    <2> QED
      BY <2>2 DEF CountExact, Claiming, Settling
  <1>8. QueueBounded'
    <2>1. Len(queue) + Cardinality(Storing) <= RecordQueueSize
      BY DEF StreamInv, QueueBounded, Storing
    <2>2. Len(queue') + Cardinality(Storing') <= RecordQueueSize
      BY <2>1, <1>3, <1>5, Finite, StreamAssumption
    <2> QED
      BY <2>2 DEF QueueBounded, Storing
  <1>9. EndSeen'
    BY <1>1, <1>2, <1>5 DEF StreamInv, EndSeen
  <1>10. InOnePlace'
    <2> SUFFICES ASSUME NEW r \in Records PROVE Copies(r)' = Copies(r)
      BY <1>1 DEF StreamInv, InOnePlace, Read
    <2>1. Cardinality(InQueue(queue', r)) + (IF Head(queue) = r THEN 1 ELSE 0)
            = Cardinality(InQueue(queue, r))
      BY <1>1, <1>2, InQueueTail
    <2>2. Cardinality(Having(got', Consumers, r))
            = Cardinality(Having(got, Consumers, r)) + (IF Head(queue) = r THEN 1 ELSE 0)
      <3>1. got[c] # r
        BY <1>1 DEF StreamInv, Returns
      <3> QED
        BY <3>1, <1>2, GotMoves, CardTypes
    <2>3. /\ delivered[r] \in Nat /\ Cardinality(InQueue(queue', r)) \in Nat
          /\ Cardinality(Having(got, Consumers, r)) \in Nat
          /\ Cardinality(Having(item, Nodes, r)) \in Nat
      BY <1>3, CardTypes, InQueueFinite DEF StreamInv, StreamTypeOK, TypeOK
    <2>4. delivered'[r] = delivered[r] /\ Having(item', Nodes, r) = Having(item, Nodes, r)
      BY <1>1
    <2> QED
      BY <2>1, <2>2, <2>3, <2>4, CopiesParts
  <1> QED
    BY <1>4, <1>5, <1>6, <1>7, <1>8, <1>9, <1>10 DEF StreamInv

\* The popped record is returned to the caller, and its place given back.
LEMMA SettleStep ==
  ASSUME StreamInv, NEW c \in Consumers, Settle(c)
  PROVE  StreamInv'
  <1>1. /\ cpc[c] = "settle" /\ cpc' = [cpc EXCEPT ![c] = "look"]
        /\ got' = [got EXCEPT ![c] = None] /\ count' = count - 1
        /\ delivered' = [r \in Records |-> delivered[r] + IF r = got[c] THEN 1 ELSE 0]
        /\ UNCHANGED <<active, instances, queue, wpc, msg, pos, item, conn, fate, userClosed>>
    BY DEF Settle, workers
  <1>2. /\ cpc'[c] = "look" /\ got'[c] = None
        /\ \A d \in Consumers : d # c => cpc'[d] = cpc[d] /\ got'[d] = got[d]
        /\ count \in Nat /\ Len(queue) \in Nat
    BY <1>1 DEF StreamInv, StreamTypeOK, TypeOK
  <1>3. \A r \in Records : /\ delivered'[r] = delivered[r] + (IF got[c] = r THEN 1 ELSE 0)
                           /\ delivered[r] \in Nat /\ delivered'[r] \in Nat
    BY <1>1 DEF StreamInv, StreamTypeOK, TypeOK
  <1>4. /\ \A n \in Nodes : InReply(n)' /\ Pushes(n)'
        /\ Claiming' = Claiming /\ Storing' = Storing /\ Working' = Working
    BY <1>1, ConsumerFrame
  <1>5. Returns' /\ Cardinality(Settling') = Cardinality(Settling) - 1 /\ Cardinality(Settling') \in Nat
    <2>1. c \in Settling /\ Settling' = Settling \ {c} /\ Settling' \subseteq Consumers
      BY <1>1, <1>2 DEF Settling
    <2>2. Cardinality(Settling') = Cardinality(Settling) - 1
      BY <2>1, Finite, FS_RemoveElement
    <2>3. Cardinality(Settling') \in Nat
      BY <2>1, StreamAssumption, FS_Subset, FS_CardinalityType
    <2> QED
      BY <2>2, <2>3, <1>1, <1>2, RecordFacts DEF StreamInv, Returns
  <1>6. CountExact' /\ count' \in Nat
    <2>1. count = Len(queue) + Cardinality(Claiming) + Cardinality(Settling)
      BY DEF StreamInv, CountExact, Claiming, Settling
    <2>2. count' = Len(queue') + Cardinality(Claiming') + Cardinality(Settling') /\ count' \in Nat
      BY <2>1, <1>1, <1>2, <1>4, <1>5, Finite
    <2> QED
      BY <2>2 DEF CountExact, Claiming, Settling
  <1>7. QueueBounded'
    BY <1>1, <1>4 DEF StreamInv, QueueBounded, Storing
  <1>8. StreamTypeOK'
    <2>1. active' \in BOOLEAN /\ userClosed' \in BOOLEAN
      BY <1>1, Zenon DEF StreamInv, StreamTypeOK, TypeOK
    <2>2. cpc' \in [Consumers -> {"look", "peek", "pop", "settle", "ended"}]
      BY <1>1 DEF StreamInv, StreamTypeOK, TypeOK
    <2>3. got' \in [Consumers -> Records \cup Errors \cup {None}]
      BY <1>1 DEF StreamInv, StreamTypeOK, TypeOK
    <2>4. delivered' \in [Records -> Nat]
      BY <1>1, <1>3
    <2> QED
      BY <2>1, <2>2, <2>3, <2>4, <1>1, <1>6 DEF StreamInv, StreamTypeOK, TypeOK
  <1>9. EndSeen'
    BY <1>1, <1>2, <1>4 DEF StreamInv, EndSeen
  <1>10. InOnePlace'
    <2> SUFFICES ASSUME NEW r \in Records PROVE Copies(r)' = Copies(r)
      BY <1>1 DEF StreamInv, InOnePlace, Read
    <2>1. Cardinality(Having(got', Consumers, r))
            = Cardinality(Having(got, Consumers, r)) - (IF got[c] = r THEN 1 ELSE 0)
      <3>1. got'[c] # r
        BY <1>2, RecordFacts
      <3> QED
        BY <3>1, <1>2, GotMoves, CardTypes
    <2>2. /\ Cardinality(InQueue(queue, r)) \in Nat
          /\ Cardinality(Having(got, Consumers, r)) \in Nat
          /\ Cardinality(Having(item, Nodes, r)) \in Nat
      BY CardTypes, InQueueFinite DEF StreamInv, StreamTypeOK, TypeOK
    <2>3. InQueue(queue', r) = InQueue(queue, r) /\ Having(item', Nodes, r) = Having(item, Nodes, r)
      BY <1>1
    <2> QED
      BY <2>1, <2>2, <2>3, <1>3, CopiesParts
  <1> QED
    BY <1>4, <1>5, <1>6, <1>7, <1>8, <1>9, <1>10 DEF StreamInv

-----------------------------------------------------------------------------
LEMMA InitStreamInv == Init => StreamInv
  <1> SUFFICES ASSUME Init PROVE StreamInv
    OBVIOUS
  <1>1. Cardinality(Nodes) \in Nat
    BY StreamAssumption, FS_CardinalityType
  <1>2. StreamTypeOK
    <2>1. active \in BOOLEAN /\ userClosed \in BOOLEAN
      BY Zenon DEF Init
    <2> QED
      BY <2>1, <1>1 DEF Init, StreamTypeOK, TypeOK
  <1>3. /\ Claiming = {} /\ Storing = {} /\ Settling = {} /\ Working = Nodes
        /\ Cardinality({}) = 0 /\ Len(queue) = 0
    BY FS_EmptySet DEF Init, Claiming, Storing, Settling, Working
  <1>4. Cardinality(Claiming) = 0 /\ Cardinality(Storing) = 0 /\ Cardinality(Settling) = 0
    BY <1>3, Zenon
  <1>5. CountExact /\ QueueBounded
    <2>1. count = Len(queue) + Cardinality(Claiming) + Cardinality(Settling)
      BY <1>3, <1>4 DEF Init
    <2>2. Len(queue) + Cardinality(Storing) <= RecordQueueSize
      BY <1>3, <1>4, StreamAssumption
    <2> QED
      BY <2>1, <2>2 DEF CountExact, QueueBounded, Claiming, Storing, Settling
  <1>6. \A n \in Nodes : InReply(n) /\ Pushes(n)
    <2> SUFFICES ASSUME NEW n \in Nodes PROVE InReply(n) /\ Pushes(n)
      OBVIOUS
    <2>1. msg[n] = 0 /\ pos[n] = 0 /\ wpc[n] = "spawned" /\ item[n] = None /\ Len(Stream[n]) \in Nat
      BY StreamFacts DEF Init
    <2> QED
      BY <2>1, RecordFacts DEF InReply, Pushes, Pushing, Ended
  <1>7. Returns /\ EndSeen
    BY <1>3, RecordFacts DEF Init, Returns, EndSeen
  <1>8. InOnePlace
    <2> SUFFICES ASSUME NEW r \in Records PROVE Copies(r) = 0 /\ ~Read(r)
      BY DEF InOnePlace
    <2>1. InQueue(queue, r) = {} /\ Having(got, Consumers, r) = {} /\ Having(item, Nodes, r) = {}
      BY RecordFacts DEF Init, InQueue, Having
    <2>2. delivered[r] = 0
      BY DEF Init
    <2>3. r[1] \in Nodes /\ r[2] \in Nat /\ r[2] > 0
      BY RecordFacts, StreamFacts
    <2>4. /\ Cardinality(InQueue(queue, r)) = 0 /\ Cardinality(Having(got, Consumers, r)) = 0
          /\ Cardinality(Having(item, Nodes, r)) = 0
      BY <2>1, <1>3, Zenon
    <2>5. Copies(r) = 0
      BY <2>2, <2>4, CopiesParts
    <2> QED
      BY <2>3, <2>5 DEF Init, Read
  <1> QED
    BY <1>2, <1>5, <1>6, <1>7, <1>8 DEF StreamInv

LEMMA StutterStream ==
  ASSUME StreamInv, UNCHANGED vars
  PROVE  StreamInv'
  <1>1. /\ \A n \in Nodes : InReply(n)' /\ Pushes(n)'
        /\ Claiming' = Claiming /\ Storing' = Storing /\ Working' = Working
    BY ConsumerFrame DEF vars
  <1>2. StreamTypeOK'
    <2>1. active' \in BOOLEAN /\ userClosed' \in BOOLEAN
      BY Zenon DEF vars, StreamInv, StreamTypeOK, TypeOK
    <2> QED
      BY <2>1 DEF vars, StreamInv, StreamTypeOK, TypeOK
  <1>3. InOnePlace'
    BY CopiesSame DEF vars, StreamInv, InOnePlace, Read
  <1>4. Returns' /\ EndSeen'
    BY <1>1 DEF vars, StreamInv, Returns, EndSeen
  <1>5. CountExact' /\ QueueBounded'
    BY DEF vars, StreamInv, CountExact, QueueBounded
  <1> QED
    BY <1>1, <1>2, <1>3, <1>4, <1>5 DEF StreamInv

\* Every step of the workers and of the consumers.
LEMMA NextStreamInv == StreamInv /\ [Next]_vars => StreamInv'
  <1> SUFFICES ASSUME StreamInv, [Next]_vars PROVE StreamInv'
    OBVIOUS
  <1>1. ASSUME NEW n \in Nodes, WorkerStep(n) \/ WorkerFault(n) PROVE StreamInv'
    <2>1. CASE \/ Send(n) \/ SendFails(n) \/ ReadHeader(n) \/ ReadGarbageSizeZero(n)
               \/ HeaderFails(n) \/ CheckActive(n)
      BY <2>1, HeaderStep
    <2>2. CASE ReadItem(n) \/ BodyFails(n)
      BY <2>2, ItemStep
    <2>3. CASE PushClaim(n)
      BY <2>3, ClaimStep
    <2>4. CASE Enqueue(n)
      BY <2>4, EnqueueStep
    <2>5. CASE UndoClaim(n)
      BY <2>5, UndoStep
    <2>6. CASE SignalEnd(n) \/ CloseByLast(n)
      BY <2>6, EndStep
    <2> QED
      BY <1>1, <2>1, <2>2, <2>3, <2>4, <2>5, <2>6, Zenon DEF WorkerStep, WorkerFault
  <1>2. ASSUME NEW c \in Consumers, ConsumerStep(c) \/ UserClose(c) \/ StopReading(c)
        PROVE  StreamInv'
    <2>1. CASE \/ Look(c) \/ Peek(c) \/ UserClose(c) \/ StopReading(c)
               \/ Pop(c) /\ queue = << >>
      BY <2>1, LookStep
    <2>2. CASE Pop(c) /\ queue # << >>
      BY <2>2, PopStep
    <2>3. CASE Settle(c)
      BY <2>3, SettleStep
    <2> QED
      BY <1>2, <2>1, <2>2, <2>3, Zenon DEF ConsumerStep
  <1>3. CASE UNCHANGED vars
    BY <1>3, StutterStream
  <1> QED
    BY <1>1, <1>2, <1>3, Zenon DEF Next

LEMMA StreamInvariant == Spec => []StreamInv
  BY InitStreamInv, NextStreamInv, PTL DEF Spec

\* Every variable of the recordset, the workers and the consumers stays in its set; in
\* particular the counters instances and record_queue_count never become negative.
THEOREM StreamTypeCorrect == Spec => []TypeOK
  <1>1. StreamInv => TypeOK
    BY DEF StreamInv, StreamTypeOK
  <1> QED
    BY <1>1, StreamInvariant, PTL

\* record_queue_count is the number of queued records, of claims in flight and of records
\* popped but not yet counted out, in every interleaving of push and next.
THEOREM StreamCountExact == Spec => []CountExact
  <1>1. StreamInv => CountExact
    BY DEF StreamInv
  <1> QED
    BY <1>1, StreamInvariant, PTL

\* The queue never holds more than record_queue_size records, however many workers push.
THEOREM StreamQueueBounded == Spec => []QueueBounded
  <1>1. StreamInv => QueueBounded
    BY DEF StreamInv
  <1> QED
    BY <1>1, StreamInvariant, PTL

\* No record reaches the consumers twice, with any number of workers and consumers and
\* whatever fails.
THEOREM StreamAtMostOnce == Spec => []AtMostOnce
  <1>1. StreamInv => AtMostOnce
    BY DEF StreamInv, InOnePlace, AtMostOnce
  <1> QED
    BY <1>1, StreamInvariant, PTL

\* A consumer that sees the end of a recordset nobody closed has missed no record of a
\* node whose stream was not cut short.
THEOREM StreamNothingLost == Spec => []NothingLost
  <1>1. StreamInv => NothingLost
    <2> SUFFICES ASSUME StreamInv, NEW c \in Consumers, cpc[c] = "ended", ~userClosed,
                        NEW r \in Records, fate[r[1]] = "ok"
                 PROVE  delivered[r] = 1 \/ \E d \in Consumers : got[d] = r
      BY DEF NothingLost
    <2>1. userClosed = FALSE
      BY Zenon DEF StreamInv, StreamTypeOK, TypeOK
    <2>2. active = FALSE /\ queue = << >> /\ Working = {}
      BY <2>1 DEF StreamInv, EndSeen
    <2>3. \A n \in Nodes : wpc[n] \in {"closing", "done"}
      BY <2>2 DEF Working
    <2>4. /\ r[1] \in Nodes /\ r[2] \in 1 .. Len(Stream[r[1]]) /\ r[2] \in Nat
          /\ r[3] \in 1 .. Len(Stream[r[1]][r[2]]) /\ r[3] \in Nat
          /\ Len(Stream[r[1]]) \in Nat
      BY RecordFacts, StreamFacts
    <2>5. /\ msg[r[1]] = Len(Stream[r[1]]) /\ pos[r[1]] = Len(Stream[r[1]][msg[r[1]]])
      BY <2>3, <2>4 DEF StreamInv, Pushes, Ended
    <2>6. Read(r)
      BY <2>4, <2>5 DEF Read
    <2>7. Copies(r) = 1
      BY <2>6 DEF StreamInv, InOnePlace
    <2>8. InQueue(queue, r) = {} /\ Having(item, Nodes, r) = {}
      <3>1. InQueue(queue, r) = {}
        BY <2>2 DEF InQueue
      <3>2. \A n \in Nodes : item[n] # r
        BY <2>3 DEF StreamInv, Pushes, Pushing
      <3> QED
        BY <3>1, <3>2 DEF Having
    <2>9. delivered[r] + Cardinality(Having(got, Consumers, r)) = 1
      <3>1. Cardinality(InQueue(queue, r)) = 0 /\ Cardinality(Having(item, Nodes, r)) = 0
        BY <2>8, FS_EmptySet, Zenon
      <3>2. delivered[r] \in Nat /\ Cardinality(Having(got, Consumers, r)) \in Nat
        BY CardTypes DEF StreamInv, StreamTypeOK, TypeOK
      <3> QED
        BY <3>1, <3>2, <2>7, CopiesParts
    <2>10. CASE Having(got, Consumers, r) = {}
      BY <2>9, <2>10, FS_EmptySet DEF StreamInv, StreamTypeOK, TypeOK
    <2>11. CASE Having(got, Consumers, r) # {}
      BY <2>11 DEF Having
    <2> QED
      BY <2>10, <2>11
  <1> QED
    BY <1>1, StreamInvariant, PTL
==============================================================================
