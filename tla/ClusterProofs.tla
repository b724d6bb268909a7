---------------------------- MODULE ClusterProofs ----------------------------
(***************************************************************************)
(* Proofs about Cluster, for any servers, seeds and callers, however the   *)
(* servers change between the steps of a tend.                             *)
(***************************************************************************)
EXTENDS Cluster, FiniteSetTheorems, FunctionTheorems, SequenceTheorems,
        WellFoundedInduction, TLAPS

-----------------------------------------------------------------------------
(* The inductive invariant, part by part. *)

ServersTypeOK ==
  /\ server \in [Addrs -> Names \cup {Down}] /\ listed \subseteq Addrs
  /\ owner \in [Partitions -> Names] /\ generation \in [Names -> Nat]

TendTypeOK ==
  /\ node \in [Objs -> NodeRecords \cup {NoNode}]
  /\ nodes \in Seq(Objs) /\ found \in Seq(Objs) /\ pending \in Seq(Objs)
  /\ friends \in Seq(Addrs) /\ untried \in Seq(Seq(Addrs) \ {<< >>})
  /\ tpc \in {"poll", "seed", "refresh", "fetch", "add", "remove", "reseed", "removing",
              "done"}

\* A Node of one of the lists is not gone.
Live(list) == \A i \in DOMAIN list : node[list[i]] \in NodeRecords

\* A refresh is about a node of the list.
PendingKnown ==
  /\ tpc \in {"refresh", "fetch"} <=> pending # << >>
  /\ \A i \in DOMAIN pending : \E j \in DOMAIN nodes : pending[i] = nodes[j]

Unique(list) ==
  \A i, j \in DOMAIN list : node[list[i]].name = node[list[j]].name => i = j

\* No node of one list has the name of one of the other.
Strangers(list, other) ==
  \A i \in DOMAIN list, j \in DOMAIN other : node[list[i]].name # node[other[j]].name

\* What a tend has found can join the list: it has new names, or takes the place of the
\* single node that keeps failing.
FoundNew ==
  /\ Unique(found)
  /\ tpc \notin {"seed", "reseed", "add"} => found = << >>
  /\ tpc = "seed" => nodes = << >>
  /\ tpc = "add" => Strangers(nodes, found)
  /\ tpc = "reseed" => Len(nodes) = 1 /\ node[nodes[1]].failures > 5

\* Of two nodes of one name one is about to go.
OneGoes ==
  tpc = "removing" =>
    \A i, j \in DOMAIN nodes :
      node[nodes[i]].name = node[nodes[j]].name =>
        i = j \/ nodes[i] \in doomed \/ nodes[j] \in doomed

\* Why a node is condemned.
Judged ==
  tpc = "removing" =>
    \A d \in doomed : node[d].active = FALSE \/ node[d].failures > 0 \/ ~Mapped(d)

ClusterInv ==
  /\ ServersTypeOK /\ TendTypeOK /\ Live(nodes) /\ Live(found) /\ PendingKnown
  /\ FoundNew /\ UniqueNames /\ OneGoes /\ Judged

-----------------------------------------------------------------------------
(* Numbers, sequences, and what the servers answer *)

LEMMA LeastOf ==
  ASSUME NEW S, S \subseteq Nat, S # {}
  PROVE  \E m \in S : \A k \in S : m <= k
  <1> DEFINE R == OpToRel(<, Nat)
  <1>1. \E m \in S : \A k \in S : ~(<<k, m>> \in R)
    <2>1. IsWellFoundedOn(R, Nat)
      BY NatLessThanWellFounded
    <2> HIDE DEF R
    <2> QED
      BY <2>1, WFMin
  <1>2. PICK m \in S : \A k \in S : ~(<<k, m>> \in R)
    BY <1>1
  <1>3. ASSUME NEW k \in S PROVE m <= k
    <2>1. ~(k < m)
      BY <1>2 DEF OpToRel
    <2> QED
      BY <2>1
  <1> QED
    BY <1>3

\* validate_node finds a server or none.
LEMMA ValidateType ==
  ASSUME ServersTypeOK, NEW addrs \in Seq(Addrs)
  PROVE  Validate(addrs) \in Names \cup {Down}
  <1> DEFINE up == {i \in DOMAIN addrs : server[addrs[i]] # Down}
  <1>1. CASE up = {}
    BY <1>1 DEF Validate
  <1>2. CASE up # {}
    <2>1. up \subseteq Nat /\ DOMAIN addrs = 1 .. Len(addrs) /\ Len(addrs) \in Nat
      OBVIOUS
    <2>2. PICK m \in up : \A k \in up : m <= k
      <3> HIDE DEF up
      <3> QED
        BY <1>2, <2>1, LeastOf
    <2>3. \A j \in 1 .. m - 1 : server[addrs[j]] = Down
      BY <2>1, <2>2
    <2> DEFINE First(i) == /\ server[addrs[i]] # Down
                           /\ \A j \in 1 .. i - 1 : server[addrs[j]] = Down
               f == CHOOSE i \in DOMAIN addrs : First(i)
    <2>4. m \in DOMAIN addrs /\ First(m)
      BY <2>2, <2>3
    <2>5. f \in DOMAIN addrs
      <3> HIDE DEF First
      <3> QED
        BY <2>4
    <2>6. Validate(addrs) = server[addrs[f]]
      BY <1>2 DEF Validate
    <2>7. addrs[f] \in Addrs
      BY <2>5
    <2> QED
      BY <2>6, <2>7 DEF ServersTypeOK
  <1> QED
    BY <1>1, <1>2

LEMMA SetToSeqType ==
  ASSUME NEW S, S \subseteq Addrs
  PROVE  SetToSeq(S) \in Seq(Addrs)
  <1>1. IsFiniteSet(S)
    BY FS_Subset, ClusterAssumption
  <1>2. Cardinality(S) \in Nat /\ ExistsBijection(1 .. Cardinality(S), S)
    BY <1>1, FS_CardinalityType
  <1>3. \E f \in [1 .. Cardinality(S) -> S] : IsInjective(f)
    BY <1>2 DEF ExistsBijection, Bijection, Injection, IsInjective
  <1>4. SetToSeq(S) \in [1 .. Cardinality(S) -> S]
    BY <1>3 DEF SetToSeq
  <1> QED
    BY <1>2, <1>4

LEMMA NoNodeFacts == NoNode \notin NodeRecords /\ Down \notin Names
  BY NoNodeAssumption, ClusterAssumption

LEMMA NewNodeType ==
  ASSUME NEW name \in Names, NEW addrs \in Seq(Addrs) \ {<< >>}
  PROVE  NewNode(name, addrs) \in NodeRecords /\ NewNode(name, addrs).name = name
  <1>1. addrs[1] \in Addrs /\ Range(addrs) \subseteq Addrs
    BY DEF Range
  <1>2. TRUE \in BOOLEAN
    OBVIOUS
  <1> QED
    BY <1>1, <1>2 DEF NewNode, NodeRecords, MaxFailures

-----------------------------------------------------------------------------
(* Steps that leave the lists alone *)

\* The nodes of a list keep their names in a step.
NamesKept(list) ==
  \A i \in DOMAIN list : /\ node'[list[i]] \in NodeRecords
                         /\ node'[list[i]].name = node[list[i]].name

\* Outside of discovery and removal the invariant is about the names in the node list.
LEMMA ListsKept ==
  ASSUME ClusterInv, tpc # "removing", found = << >>,
         nodes' = nodes, found' = found, NamesKept(nodes),
         tpc' \notin {"removing", "reseed"}, tpc' = "seed" => nodes = << >>
  PROVE  Live(nodes)' /\ Live(found)' /\ FoundNew' /\ UniqueNames' /\ OneGoes' /\ Judged'
  <1>1. Live(nodes)' /\ Live(found)'
    BY DEF NamesKept, Live
  <1>2. FoundNew'
    BY DEF FoundNew, Unique, Strangers
  <1>3. UniqueNames'
    BY DEF ClusterInv, UniqueNames, NamesKept
  <1>4. OneGoes' /\ Judged'
    BY DEF OneGoes, Judged
  <1> QED
    BY <1>1, <1>2, <1>3, <1>4

\* Going on to the next node of this tend, or to the discovery.
LEMMA ContinueFacts ==
  ASSUME NEW rest \in Seq(Objs), Continue(rest),
         \A i \in DOMAIN rest : \E j \in DOMAIN nodes' : rest[i] = nodes'[j]
  PROVE  PendingKnown' /\ pending' \in Seq(Objs) /\ tpc' \in {"refresh", "add"}
  BY DEF Continue, PendingKnown

LEMMA TailKnown ==
  ASSUME ClusterInv, tpc \in {"refresh", "fetch"}
  PROVE  /\ pending # << >> /\ Tail(pending) \in Seq(Objs)
         /\ \A i \in DOMAIN Tail(pending) : \E j \in DOMAIN nodes : Tail(pending)[i] = nodes[j]
         /\ Head(pending) \in Objs /\ node[Head(pending)] \in NodeRecords
         /\ found = << >>
  <1>1. pending # << >> /\ pending \in Seq(Objs)
    BY DEF ClusterInv, PendingKnown, TendTypeOK
  <1>2. /\ Tail(pending) \in Seq(Objs) /\ Head(pending) = pending[1] /\ 1 \in DOMAIN pending
        /\ \A i \in DOMAIN Tail(pending) : /\ i + 1 \in DOMAIN pending
                                           /\ Tail(pending)[i] = pending[i + 1]
    BY <1>1
  <1>3. \A i \in DOMAIN Tail(pending) : \E j \in DOMAIN nodes : Tail(pending)[i] = nodes[j]
    BY <1>2 DEF ClusterInv, PendingKnown
  <1>4. Head(pending) \in Objs /\ node[Head(pending)] \in NodeRecords
    <2>1. PICK j \in DOMAIN nodes : pending[1] = nodes[j]
      BY <1>2 DEF ClusterInv, PendingKnown
    <2> QED
      BY <1>1, <1>2, <2>1 DEF ClusterInv, Live
  <1> QED
    BY <1>1, <1>2, <1>3, <1>4 DEF ClusterInv, FoundNew

LEMMA StartTendStep ==
  ASSUME ClusterInv, StartTend
  PROVE  ClusterInv'
  <1>1. /\ tpc = "poll" /\ found = << >> /\ pending = << >>
    BY DEF StartTend, ClusterInv, FoundNew, PendingKnown
  <1>2. /\ UNCHANGED <<servers, node, nodes, found>> /\ friends' = << >>
    BY DEF StartTend, cluster
  <1>3. NamesKept(nodes) /\ ServersTypeOK'
    BY <1>2 DEF ClusterInv, Live, NamesKept, ServersTypeOK, servers
  <1>4. CASE nodes = << >>
    <2>1. tpc' = "seed" /\ untried' = Seeds /\ pending' = pending
      BY <1>4 DEF StartTend
    <2>2. TendTypeOK' /\ PendingKnown'
      BY <1>1, <1>2, <2>1, ClusterAssumption DEF ClusterInv, TendTypeOK, PendingKnown
    <2> QED
      BY <1>1, <1>2, <1>3, <1>4, <2>1, <2>2, ListsKept DEF ClusterInv
  <1>5. CASE nodes # << >>
    <2>1. Continue(nodes) /\ untried' = untried
      BY <1>5 DEF StartTend
    <2>2. PendingKnown' /\ pending' \in Seq(Objs) /\ tpc' \in {"refresh", "add"}
      BY <1>2, <2>1, ContinueFacts DEF ClusterInv, TendTypeOK
    <2>3. TendTypeOK'
      BY <1>2, <2>1, <2>2 DEF ClusterInv, TendTypeOK
    <2> QED
      BY <1>1, <1>2, <1>3, <2>2, <2>3, ListsKept DEF ClusterInv
  <1> QED
    BY <1>4, <1>5

\* A node skipped, a fetch of the partition map that succeeds, and one that fails.
LEMMA PassStep ==
  ASSUME ClusterInv, NEW lost \in BOOLEAN,
         SkipInactive \/ FetchPartitions \/ FetchFails(lost)
  PROVE  ClusterInv'
  <1>1. /\ tpc \in {"refresh", "fetch"}
        /\ UNCHANGED <<world, node, nodes, found, friends, untried>>
        /\ Continue(Tail(pending)) \/ (tpc' = "done" /\ pending' = << >>)
    BY DEF SkipInactive, FetchPartitions, FetchFails, Exchange, cluster, servers, world
  <1>2. NamesKept(nodes) /\ ServersTypeOK'
    BY <1>1 DEF ClusterInv, Live, NamesKept, ServersTypeOK, world
  <1>3. PendingKnown' /\ pending' \in Seq(Objs) /\ tpc' \in {"refresh", "add", "done"}
    <2>1. CASE Continue(Tail(pending))
      BY <1>1, <2>1, TailKnown, ContinueFacts
    <2>2. CASE tpc' = "done" /\ pending' = << >>
      BY <2>2 DEF PendingKnown
    <2> QED
      BY <1>1, <2>1, <2>2
  <1>4. TendTypeOK'
    BY <1>1, <1>3 DEF ClusterInv, TendTypeOK
  <1> QED
    BY <1>1, <1>2, <1>3, <1>4, TailKnown, ListsKept DEF ClusterInv

\* A change of one node that keeps its name.
LEMMA TouchFacts ==
  ASSUME ClusterInv, NEW o \in Objs, node[o] \in NodeRecords, NEW r \in NodeRecords,
         r.name = node[o].name, node' = [node EXCEPT ![o] = r]
  PROVE  /\ node' \in [Objs -> NodeRecords \cup {NoNode}]
         /\ NamesKept(nodes) /\ NamesKept(found)
  <1>1. node \in [Objs -> NodeRecords \cup {NoNode}] /\ node'[o] = r
    BY DEF ClusterInv, TendTypeOK
  <1>2. \A p \in Objs : p # o => node'[p] = node[p]
    BY <1>1
  <1>3. /\ \A i \in DOMAIN nodes : nodes[i] \in Objs
        /\ \A i \in DOMAIN found : found[i] \in Objs
    BY DEF ClusterInv, TendTypeOK
  <1> QED
    BY <1>1, <1>2, <1>3 DEF ClusterInv, Live, NamesKept

\* What a failed refresh writes into a node.
LEMMA FailedType ==
  ASSUME NEW q \in NodeRecords, NEW f \in 0 .. MaxFailures, NEW b \in BOOLEAN
  PROVE  /\ [q EXCEPT !.refs = 0, !.failures = f, !.active = b] \in NodeRecords
         /\ [q EXCEPT !.refs = 0, !.failures = f, !.active = b].name = q.name
  <1>1. 0 \in Nat
    OBVIOUS
  <1>2. [q EXCEPT !.refs = 0, !.failures = f, !.active = b] \in NodeRecords
    BY <1>1, Zenon DEF NodeRecords
  <1>3. [q EXCEPT !.refs = 0, !.failures = f, !.active = b].name = q.name
    BY DEF NodeRecords
  <1> QED
    BY <1>2, <1>3, Zenon

\* What a refresh that succeeds writes.
LEMMA RefreshedType ==
  ASSUME NEW q \in NodeRecords, NEW n \in Nat, NEW g \in Nat
  PROVE  /\ [q EXCEPT !.refs = n, !.failures = 0, !.gen = g] \in NodeRecords
         /\ [q EXCEPT !.refs = n, !.failures = 0, !.gen = g].name = q.name
  <1>1. g \in Nat \cup {-1} /\ 0 \in 0 .. MaxFailures
    BY DEF MaxFailures
  <1>2. [q EXCEPT !.refs = n, !.failures = 0, !.gen = g] \in NodeRecords
    BY <1>1, Zenon DEF NodeRecords
  <1>3. [q EXCEPT !.refs = n, !.failures = 0, !.gen = g].name = q.name
    BY DEF NodeRecords
  <1> QED
    BY <1>2, <1>3, Zenon

LEMMA RefreshFailsStep ==
  ASSUME ClusterInv, NEW lost \in BOOLEAN, RefreshFails(lost)
  PROVE  ClusterInv'
  <1> DEFINE o == Head(pending)
             s == server[node[o].addr]
             f == IF node[o].failures < MaxFailures THEN node[o].failures + 1
                  ELSE node[o].failures
             b == lost \/ s = Down
             r == [node[o] EXCEPT !.refs = 0, !.failures = f, !.active = b]
  <1>1. tpc = "refresh" /\ Continue(Tail(pending))
        /\ UNCHANGED <<world, nodes, found, friends, untried>>
    BY DEF RefreshFails, Exchange
  <1>2. o \in Objs /\ node[o] \in NodeRecords /\ found = << >>
    BY <1>1, TailKnown
  <1>3. node' = [node EXCEPT ![o] = r]
    BY <1>2 DEF RefreshFails, ClusterInv, TendTypeOK
  <1>4. r \in NodeRecords /\ r.name = node[o].name
    <2>1. b \in BOOLEAN
      BY Zenon
    <2>2. f \in 0 .. MaxFailures
      BY <1>2 DEF NodeRecords, MaxFailures
    <2> HIDE DEF o, b, f
    <2> QED
      BY <1>2, <2>1, <2>2, FailedType, Zenon
  <1>5. node' \in [Objs -> NodeRecords \cup {NoNode}] /\ NamesKept(nodes)
    <2> HIDE DEF o, r
    <2> QED
      BY <1>2, <1>3, <1>4, TouchFacts
  <1>6. PendingKnown' /\ pending' \in Seq(Objs) /\ tpc' \in {"refresh", "add"}
    BY <1>1, TailKnown, ContinueFacts
  <1>7. TendTypeOK' /\ ServersTypeOK'
    BY <1>1, <1>5, <1>6 DEF ClusterInv, TendTypeOK, ServersTypeOK, world
  <1> QED
    BY <1>1, <1>2, <1>5, <1>6, <1>7, ListsKept DEF ClusterInv

LEMMA RefreshStep ==
  ASSUME ClusterInv, Refresh
  PROVE  ClusterInv'
  <1> DEFINE o     == Head(pending)
             s     == server[node[o].addr]
             peers == {a \in listed : server[a] # s}
             fresh == {a \in peers : aliases[a] = NoNode}
             r     == [node[o] EXCEPT !.refs = Cardinality(peers \ fresh), !.failures = 0,
                                      !.gen = generation[s]]
  <1>1. /\ tpc = "refresh" /\ s = node[o].name
        /\ friends' = friends \o SetToSeq(fresh)
        /\ UNCHANGED <<servers, nodes, found, untried>>
        /\ Continue(Tail(pending)) \/ (tpc' = "fetch" /\ pending' = pending)
    BY DEF Refresh
  <1>2. o \in Objs /\ node[o] \in NodeRecords /\ found = << >>
    BY <1>1, TailKnown
  <1>3. node' = [node EXCEPT ![o] = r]
    BY <1>2 DEF Refresh, ClusterInv, TendTypeOK
  <1>4. r \in NodeRecords /\ r.name = node[o].name
    <2>1. peers \subseteq Addrs /\ fresh \subseteq Addrs
      BY DEF ClusterInv, ServersTypeOK
    <2>2. Cardinality(peers \ fresh) \in Nat
      <3>1. IsFiniteSet(peers \ fresh)
        BY <2>1, FS_Subset, ClusterAssumption
      <3> QED
        BY <3>1, FS_CardinalityType
    <2>3. generation[s] \in Nat
      BY <1>1, <1>2 DEF ClusterInv, ServersTypeOK, NodeRecords
    <2> HIDE DEF o, s, peers, fresh
    <2> QED
      BY <1>2, <2>2, <2>3, RefreshedType, Zenon
  <1>5. node' \in [Objs -> NodeRecords \cup {NoNode}] /\ NamesKept(nodes)
    <2> HIDE DEF o, r
    <2> QED
      BY <1>2, <1>3, <1>4, TouchFacts
  <1>6. PendingKnown' /\ pending' \in Seq(Objs) /\ tpc' \in {"refresh", "fetch", "add"}
    <2>1. CASE Continue(Tail(pending))
      BY <1>1, <2>1, TailKnown, ContinueFacts
    <2>2. CASE tpc' = "fetch" /\ pending' = pending
      BY <1>1, <2>2 DEF ClusterInv, PendingKnown, TendTypeOK
    <2> QED
      BY <1>1, <2>1, <2>2
  <1>7. friends' \in Seq(Addrs)
    <2>1. SetToSeq(fresh) \in Seq(Addrs)
      BY SetToSeqType DEF ClusterInv, ServersTypeOK
    <2> QED
      BY <1>1, <2>1, ConcatProperties DEF ClusterInv, TendTypeOK
  <1>8. TendTypeOK' /\ ServersTypeOK'
    BY <1>1, <1>5, <1>6, <1>7 DEF ClusterInv, TendTypeOK, ServersTypeOK, servers
  <1> QED
    BY <1>1, <1>2, <1>5, <1>6, <1>8, ListsKept DEF ClusterInv

-----------------------------------------------------------------------------
(* Discovery *)

Untouched(list) == \A i \in DOMAIN list : node'[list[i]] = node[list[i]]

\* A name that no node of the list has.
NewName(list, name) == \A i \in DOMAIN list : node[list[i]].name # name

\* create_node makes a new object, which is none of those in the lists.
LEMMA CreateFacts ==
  ASSUME ClusterInv, NEW name \in Names, NEW addrs \in Seq(Addrs) \ {<< >>},
         Create(name, addrs)
  PROVE  \E o \in Objs : /\ node' \in [Objs -> NodeRecords \cup {NoNode}]
                         /\ node'[o] \in NodeRecords /\ node'[o].name = name
                         /\ found' = Append(found, o)
                         /\ Untouched(nodes) /\ Untouched(found)
  <1> DEFINE free == {o \in Objs : node[o] = NoNode}
             o    == CHOOSE o \in free : TRUE
             r    == NewNode(name, addrs)
  <1>1. free # {} /\ node' = [node EXCEPT ![o] = r] /\ found' = Append(found, o)
    BY DEF Create
  <1>2. o \in Objs /\ node[o] = NoNode
    <2>1. o \in free
      <3> HIDE DEF free
      <3> QED
        BY <1>1
    <2> QED
      BY <2>1
  <1>3. r \in NodeRecords /\ r.name = name
    BY NewNodeType
  <1> HIDE DEF free, o, r
  <1>4. node \in [Objs -> NodeRecords \cup {NoNode}]
    BY DEF ClusterInv, TendTypeOK
  <1>5. node' \in [Objs -> NodeRecords \cup {NoNode}] /\ node'[o] = r
    BY <1>1, <1>2, <1>3, <1>4
  <1>6. \A p \in Objs : node[p] \in NodeRecords => node'[p] = node[p]
    BY <1>1, <1>2, <1>4, NoNodeFacts
  <1>7. /\ \A i \in DOMAIN nodes : nodes[i] \in Objs
        /\ \A i \in DOMAIN found : found[i] \in Objs
    BY DEF ClusterInv, TendTypeOK
  <1>8. Untouched(nodes) /\ Untouched(found)
    BY <1>6, <1>7 DEF ClusterInv, Live, Untouched
  <1> QED
    BY <1>1, <1>2, <1>3, <1>5, <1>8

\* A node of a new name joins what has been found.
LEMMA FoundGrows ==
  ASSUME ClusterInv, NEW o \in Objs, NEW name, node'[o] \in NodeRecords,
         node'[o].name = name, found' = Append(found, o), nodes' = nodes,
         Untouched(nodes), Untouched(found), NewName(found, name)
  PROVE  /\ found' \in Seq(Objs) /\ Live(nodes)' /\ Live(found)' /\ Unique(found)'
         /\ Strangers(nodes, found) /\ NewName(nodes, name) => Strangers(nodes, found)'
  <1>1. /\ found \in Seq(Objs) /\ Len(found) \in Nat /\ found' \in Seq(Objs)
        /\ DOMAIN found' = 1 .. Len(found) + 1 /\ DOMAIN found = 1 .. Len(found)
        /\ found'[Len(found) + 1] = o
        /\ \A i \in DOMAIN found : found'[i] = found[i]
    BY DEF ClusterInv, TendTypeOK
  <1>2. /\ \A i \in DOMAIN found : /\ node'[found'[i]] \in NodeRecords
                                   /\ node'[found'[i]].name = node[found[i]].name
        /\ \A i \in DOMAIN found' : i \in DOMAIN found \/ i = Len(found) + 1
    BY <1>1 DEF ClusterInv, Live, Untouched
  <1>3. Live(nodes)'
    BY DEF ClusterInv, Live, Untouched
  <1>4. Live(found)'
    BY <1>1, <1>2 DEF Live
  <1>5. Unique(found)'
    <2> SUFFICES ASSUME NEW i \in DOMAIN found', NEW j \in DOMAIN found',
                        node'[found'[i]].name = node'[found'[j]].name
                 PROVE  i = j
      BY DEF Unique
    <2>1. CASE i \in DOMAIN found /\ j \in DOMAIN found
      BY <1>2, <2>1 DEF ClusterInv, FoundNew, Unique
    <2>2. CASE i \in DOMAIN found /\ j = Len(found) + 1
      BY <1>1, <1>2, <2>2 DEF NewName
    <2>3. CASE i = Len(found) + 1 /\ j \in DOMAIN found
      BY <1>1, <1>2, <2>3 DEF NewName
    <2> QED
      BY <1>2, <2>1, <2>2, <2>3
  <1>6. ASSUME Strangers(nodes, found), NewName(nodes, name) PROVE Strangers(nodes, found)'
    <2> SUFFICES ASSUME NEW i \in DOMAIN nodes, NEW j \in DOMAIN found'
                 PROVE  node'[nodes[i]].name # node'[found'[j]].name
      BY DEF Strangers
    <2>1. node'[nodes[i]] = node[nodes[i]]
      BY DEF Untouched
    <2>2. CASE j \in DOMAIN found
      BY <1>2, <1>6, <2>1, <2>2 DEF Strangers
    <2>3. CASE j = Len(found) + 1
      BY <1>1, <1>6, <2>1, <2>3 DEF NewName
    <2> QED
      BY <1>2, <2>2, <2>3
  <1> QED
    BY <1>1, <1>3, <1>4, <1>5, <1>6

LEMMA NamedNone ==
  ASSUME NEW list, NEW name, Named(list, name) = {}
  PROVE  NewName(list, name)
  BY DEF Named, NewName, Range

LEMMA TrySeedStep ==
  ASSUME ClusterInv, NEW lost \in BOOLEAN, TrySeed(lost)
  PROVE  ClusterInv'
  <1> DEFINE addrs == Head(untried)
             name  == IF lost THEN Down ELSE Validate(addrs)
  <1>1. /\ tpc \in {"seed", "reseed"} /\ untried # << >> /\ untried' = Tail(untried)
        /\ UNCHANGED <<world, nodes, tpc, pending, friends>>
    BY DEF TrySeed, Exchange
  <1>2. addrs \in Seq(Addrs) \ {<< >>} /\ untried' \in Seq(Seq(Addrs) \ {<< >>})
    <2>1. untried \in Seq(Seq(Addrs) \ {<< >>})
      BY DEF ClusterInv, TendTypeOK
    <2> QED
      BY <1>1, <2>1, HeadTailProperties
  <1>3. name \in Names \cup {Down}
    BY <1>2, ValidateType DEF ClusterInv
  <1>4. ServersTypeOK' /\ PendingKnown'
    BY <1>1 DEF ClusterInv, ServersTypeOK, PendingKnown, world
  <1>5. CASE name = Down \/ Named(found, name) # {}
    <2>1. UNCHANGED <<node, found>>
      BY <1>5 DEF TrySeed
    <2>2. TendTypeOK' /\ Live(nodes)' /\ Live(found)'
      BY <1>1, <1>2, <2>1 DEF ClusterInv, TendTypeOK, Live
    <2>3. FoundNew' /\ UniqueNames' /\ OneGoes' /\ Judged'
      BY <1>1, <2>1 DEF ClusterInv, FoundNew, Unique, UniqueNames, OneGoes, Judged
    <2> QED
      BY <1>4, <2>2, <2>3 DEF ClusterInv
  <1>6. CASE name # Down /\ Named(found, name) = {}
    <2>1. name \in Names /\ Create(name, addrs) /\ NewName(found, name)
      BY <1>3, <1>6, NamedNone DEF TrySeed
    <2> HIDE DEF name, addrs
    <2>2. PICK o \in Objs : /\ node' \in [Objs -> NodeRecords \cup {NoNode}]
                            /\ node'[o] \in NodeRecords /\ node'[o].name = name
                            /\ found' = Append(found, o)
                            /\ Untouched(nodes) /\ Untouched(found)
      BY <1>2, <2>1, CreateFacts
    <2>3. found' \in Seq(Objs) /\ Live(nodes)' /\ Live(found)' /\ Unique(found)'
      BY <1>1, <2>1, <2>2, FoundGrows
    <2>4. TendTypeOK'
      BY <1>1, <1>2, <2>2, <2>3 DEF ClusterInv, TendTypeOK
    <2>5. tpc = "reseed" => Len(nodes) = 1 /\ node'[nodes[1]].failures > 5
      <3> SUFFICES ASSUME tpc = "reseed" PROVE Len(nodes) = 1 /\ node'[nodes[1]].failures > 5
        OBVIOUS
      <3>1. Len(nodes) = 1 /\ node[nodes[1]].failures > 5 /\ 1 \in DOMAIN nodes
        BY DEF ClusterInv, FoundNew, TendTypeOK
      <3> QED
        BY <3>1, <2>2 DEF Untouched
    <2>6. FoundNew'
      BY <1>1, <2>3, <2>5 DEF ClusterInv, FoundNew
    <2>7. UniqueNames' /\ OneGoes' /\ Judged'
      BY <1>1, <2>2 DEF ClusterInv, UniqueNames, OneGoes, Judged, Untouched
    <2> QED
      BY <1>4, <2>3, <2>4, <2>6, <2>7 DEF ClusterInv
  <1> QED
    BY <1>5, <1>6

\* What add_alias writes into a node.
LEMMA AliasedType ==
  ASSUME NEW q \in NodeRecords, NEW a \in Addrs
  PROVE  /\ [q EXCEPT !.aliases = @ \cup {a}, !.refs = @ + 1] \in NodeRecords
         /\ [q EXCEPT !.aliases = @ \cup {a}, !.refs = @ + 1].name = q.name
  <1>1. q.aliases \cup {a} \in SUBSET Addrs /\ q.refs + 1 \in Nat
    BY DEF NodeRecords
  <1>2. [q EXCEPT !.aliases = q.aliases \cup {a}, !.refs = q.refs + 1] \in NodeRecords
    BY <1>1, Zenon DEF NodeRecords
  <1>3. [q EXCEPT !.aliases = q.aliases \cup {a}, !.refs = q.refs + 1].name = q.name
    BY DEF NodeRecords
  <1> QED
    BY <1>2, <1>3, Zenon

\* The places of two lists one after the other.
LEMMA JoinedPlaces ==
  ASSUME NEW list \in Seq(Objs), NEW other \in Seq(Objs)
  PROVE  /\ list \o other \in Seq(Objs)
         /\ \A i \in DOMAIN list : i \in DOMAIN (list \o other) /\ (list \o other)[i] = list[i]
         /\ \A j \in DOMAIN other : /\ Len(list) + j \in DOMAIN (list \o other)
                                    /\ (list \o other)[Len(list) + j] = other[j]
         /\ \A i \in DOMAIN (list \o other) :
              \/ i \in DOMAIN list /\ (list \o other)[i] = list[i]
              \/ \E j \in DOMAIN other : i = Len(list) + j /\ (list \o other)[i] = other[j]
  <1>1. /\ Len(list \o other) = Len(list) + Len(other) /\ list \o other \in Seq(Objs)
        /\ \A i \in 1 .. Len(list) + Len(other) :
             (list \o other)[i] = IF i <= Len(list) THEN list[i] ELSE other[i - Len(list)]
    BY ConcatProperties
  <1>2. /\ DOMAIN (list \o other) = 1 .. Len(list) + Len(other)
        /\ DOMAIN list = 1 .. Len(list) /\ DOMAIN other = 1 .. Len(other)
        /\ Len(list) \in Nat /\ Len(other) \in Nat
    BY <1>1
  <1> DEFINE both == list \o other
             m == Len(list)
             n == Len(other)
  <1>3. /\ \A i \in 1 .. m + n : both[i] = IF i <= m THEN list[i] ELSE other[i - m]
        /\ m \in Nat /\ n \in Nat
    BY <1>1, <1>2
  <1>4. both \in Seq(Objs) /\ DOMAIN both = 1 .. m + n /\ DOMAIN list = 1 .. m
        /\ DOMAIN other = 1 .. n
    BY <1>1, <1>2
  <1> HIDE DEF both, m, n
  <1>5. \A i \in 1 .. m : i \in 1 .. m + n /\ both[i] = list[i]
    BY <1>3
  <1>6. \A j \in 1 .. n : m + j \in 1 .. m + n /\ both[m + j] = other[j]
    BY <1>3
  <1>7. ASSUME NEW i \in 1 .. m + n
        PROVE  \/ i \in 1 .. m /\ both[i] = list[i]
               \/ \E j \in 1 .. n : i = m + j /\ both[i] = other[j]
    <2>1. CASE i <= m
      BY <1>3, <2>1
    <2>2. CASE ~(i <= m)
      <3>1. i - m \in 1 .. n /\ i = m + (i - m) /\ both[i] = other[i - m]
        BY <1>3, <2>2
      <3> QED
        BY <3>1
    <2> QED
      BY <2>1, <2>2
  <1> QED
    BY <1>4, <1>5, <1>6, <1>7 DEF both, m, n

LEMMA TryFriendStep ==
  ASSUME ClusterInv, NEW lost \in BOOLEAN, TryFriend(lost)
  PROVE  ClusterInv'
  <1> DEFINE a    == Head(friends)
             name == IF lost THEN Down ELSE Validate(<<a>>)
             both == nodes \o found
  <1>1. /\ tpc = "add" /\ friends # << >> /\ friends' = Tail(friends)
        /\ UNCHANGED <<world, nodes, tpc, pending, untried>>
    BY DEF TryFriend, Exchange
  <1>2. a \in Addrs /\ friends' \in Seq(Addrs)
    BY <1>1, HeadTailProperties DEF ClusterInv, TendTypeOK
  <1>3. <<a>> \in Seq(Addrs) \ {<< >>} /\ name \in Names \cup {Down}
    <2>1. <<a>> \in Seq(Addrs) \ {<< >>}
      BY <1>2
    <2> QED
      BY <2>1, ValidateType DEF ClusterInv
  <1>4. ServersTypeOK' /\ PendingKnown'
    BY <1>1 DEF ClusterInv, ServersTypeOK, PendingKnown, world
  <1>5. /\ nodes \in Seq(Objs) /\ found \in Seq(Objs) /\ both \in Seq(Objs)
        /\ \A i \in DOMAIN nodes : \E k \in DOMAIN both : both[k] = nodes[i]
        /\ \A i \in DOMAIN found : \E k \in DOMAIN both : both[k] = found[i]
        /\ \A k \in DOMAIN both : \/ \E i \in DOMAIN nodes : both[k] = nodes[i]
                                  \/ \E i \in DOMAIN found : both[k] = found[i]
    <2>1. nodes \in Seq(Objs) /\ found \in Seq(Objs)
      BY DEF ClusterInv, TendTypeOK
    <2>2. /\ both \in Seq(Objs)
          /\ \A i \in DOMAIN nodes : i \in DOMAIN both /\ both[i] = nodes[i]
          /\ \A j \in DOMAIN found : /\ Len(nodes) + j \in DOMAIN both
                                     /\ both[Len(nodes) + j] = found[j]
          /\ \A k \in DOMAIN both :
               \/ k \in DOMAIN nodes /\ both[k] = nodes[k]
               \/ \E j \in DOMAIN found : k = Len(nodes) + j /\ both[k] = found[j]
      BY <2>1, JoinedPlaces, Zenon
    <2> HIDE DEF both
    <2> QED
      BY <2>1, <2>2
  <1>6. CASE name = Down
    <2>1. UNCHANGED <<node, found>>
      BY <1>6 DEF TryFriend
    <2>2. TendTypeOK' /\ Live(nodes)' /\ Live(found)'
      BY <1>1, <1>2, <2>1 DEF ClusterInv, TendTypeOK, Live
    <2>3. FoundNew' /\ UniqueNames' /\ OneGoes' /\ Judged'
      BY <1>1, <2>1 DEF ClusterInv, FoundNew, Unique, Strangers, UniqueNames, OneGoes, Judged
    <2> QED
      BY <1>4, <2>2, <2>3 DEF ClusterInv
  <1>7. CASE name # Down /\ Named(both, name) = {}
    <2>1. name \in Names /\ Create(name, <<a>>)
      BY <1>3, <1>7 DEF TryFriend
    <2> HIDE DEF name, a, both
    <2>2. NewName(nodes, name) /\ NewName(found, name)
      <3>1. NewName(both, name)
        BY <1>7, NamedNone
      <3> QED
        BY <1>5, <3>1 DEF NewName
    <2>3. PICK o \in Objs : /\ node' \in [Objs -> NodeRecords \cup {NoNode}]
                            /\ node'[o] \in NodeRecords /\ node'[o].name = name
                            /\ found' = Append(found, o)
                            /\ Untouched(nodes) /\ Untouched(found)
      BY <1>3, <2>1, CreateFacts
    <2>4. Strangers(nodes, found)
      BY <1>1 DEF ClusterInv, FoundNew
    <2>5. /\ found' \in Seq(Objs) /\ Live(nodes)' /\ Live(found)' /\ Unique(found)'
          /\ Strangers(nodes, found)'
      BY <1>1, <2>2, <2>3, <2>4, FoundGrows
    <2>6. TendTypeOK'
      BY <1>1, <1>2, <2>3, <2>5 DEF ClusterInv, TendTypeOK
    <2>7. FoundNew'
      BY <1>1, <2>5 DEF FoundNew
    <2>8. UniqueNames' /\ OneGoes' /\ Judged'
      BY <1>1, <2>3 DEF ClusterInv, UniqueNames, OneGoes, Judged, Untouched
    <2> QED
      BY <1>4, <2>5, <2>6, <2>7, <2>8 DEF ClusterInv
  <1>8. CASE name # Down /\ Named(both, name) # {}
    <2> DEFINE o == CHOOSE o \in Named(both, name) : TRUE
               r == [node[o] EXCEPT !.aliases = @ \cup {a}, !.refs = @ + 1]
    <2>1. found' = found /\ Alias(a, o)
      BY <1>8 DEF TryFriend
    <2>2. o \in Named(both, name)
      BY <1>8
    <2>3. o \in Objs /\ node[o] \in NodeRecords
      <3>1. PICK k \in DOMAIN both : o = both[k]
        BY <2>2 DEF Named, Range
      <3> HIDE DEF both, o
      <3> QED
        BY <3>1, <1>5 DEF ClusterInv, Live
    <2> HIDE DEF name, a, both, o
    <2>4. node' = [node EXCEPT ![o] = r]
      BY <2>1, <2>3 DEF Alias, ClusterInv, TendTypeOK
    <2>5. r \in NodeRecords /\ r.name = node[o].name
      BY <1>2, <2>3, AliasedType, Zenon
    <2>6. node' \in [Objs -> NodeRecords \cup {NoNode}] /\ NamesKept(nodes) /\ NamesKept(found)
      <3> HIDE DEF r
      <3> QED
        BY <2>3, <2>4, <2>5, TouchFacts
    <2>7. TendTypeOK' /\ Live(nodes)' /\ Live(found)'
      BY <1>1, <1>2, <2>1, <2>6 DEF ClusterInv, TendTypeOK, Live, NamesKept
    <2>8. FoundNew' /\ UniqueNames' /\ OneGoes' /\ Judged'
      BY <1>1, <2>1, <2>6 DEF ClusterInv, FoundNew, Unique, Strangers, UniqueNames, OneGoes,
         Judged, NamesKept
    <2> QED
      BY <1>4, <2>7, <2>8 DEF ClusterInv
  <1> QED
    BY <1>6, <1>7, <1>8

\* What was found joins the node list.
LEMMA AddFoundFacts ==
  ASSUME ClusterInv, AddFound, node' = node
  PROVE  /\ nodes' \in Seq(Objs) /\ found' = << >>
         /\ Live(nodes)' /\ Live(found)' /\ Unique(found)'
         /\ Unique(nodes) /\ Strangers(nodes, found) => Unique(nodes)'
         /\ \A i \in DOMAIN nodes' :
              \/ i \in DOMAIN nodes /\ nodes'[i] = nodes[i]
              \/ \E j \in DOMAIN found : i = Len(nodes) + j /\ nodes'[i] = found[j]
  <1>1. nodes \in Seq(Objs) /\ found \in Seq(Objs) /\ nodes' = nodes \o found /\ found' = << >>
    BY DEF ClusterInv, TendTypeOK, AddFound
  <1>2. /\ nodes' \in Seq(Objs)
        /\ \A i \in DOMAIN nodes' :
             \/ i \in DOMAIN nodes /\ nodes'[i] = nodes[i]
             \/ \E j \in DOMAIN found : i = Len(nodes) + j /\ nodes'[i] = found[j]
    BY <1>1, JoinedPlaces, Zenon
  <1>3. Live(nodes)' /\ Live(found)' /\ Unique(found)'
    BY <1>1, <1>2 DEF ClusterInv, Live, Unique
  <1>4. ASSUME Unique(nodes), Strangers(nodes, found) PROVE Unique(nodes)'
    <2> SUFFICES ASSUME NEW i \in DOMAIN nodes', NEW k \in DOMAIN nodes',
                        node[nodes'[i]].name = node[nodes'[k]].name
                 PROVE  i = k
      BY DEF Unique
    <2>1. CASE i \in DOMAIN nodes /\ nodes'[i] = nodes[i]
      <3>1. CASE k \in DOMAIN nodes /\ nodes'[k] = nodes[k]
        BY <1>4, <2>1, <3>1 DEF Unique
      <3>2. CASE \E j \in DOMAIN found : k = Len(nodes) + j /\ nodes'[k] = found[j]
        BY <1>4, <2>1, <3>2 DEF Strangers
      <3> QED
        BY <1>2, <3>1, <3>2
    <2>2. CASE \E j \in DOMAIN found : i = Len(nodes) + j /\ nodes'[i] = found[j]
      <3>1. CASE k \in DOMAIN nodes /\ nodes'[k] = nodes[k]
        BY <1>4, <2>2, <3>1 DEF Strangers
      <3>2. CASE \E j \in DOMAIN found : k = Len(nodes) + j /\ nodes'[k] = found[j]
        BY <2>2, <3>2 DEF ClusterInv, FoundNew, Unique
      <3> QED
        BY <1>2, <3>1, <3>2
    <2> QED
      BY <1>2, <2>1, <2>2
  <1> QED
    BY <1>1, <1>2, <1>3, <1>4

\* The end of seed_nodes in tend, and of find_new_nodes_to_add.
LEMMA AddStep ==
  ASSUME ClusterInv, Seeded \/ AddNodes
  PROVE  ClusterInv'
  <1>1. /\ tpc \in {"seed", "add"} /\ AddFound /\ UNCHANGED <<servers, node, friends, untried>>
        /\ \/ Continue(nodes')
           \/ tpc' = "remove" /\ pending' = pending
    BY DEF Seeded, AddNodes
  <1>2. /\ nodes' \in Seq(Objs) /\ found' = << >>
        /\ Live(nodes)' /\ Live(found)' /\ Unique(found)'
        /\ Unique(nodes) /\ Strangers(nodes, found) => Unique(nodes)'
    BY <1>1, AddFoundFacts
  <1>3. Unique(nodes) /\ Strangers(nodes, found)
    BY <1>1 DEF ClusterInv, UniqueNames, FoundNew, Unique, Strangers
  <1>4. PendingKnown' /\ pending' \in Seq(Objs) /\ tpc' \in {"refresh", "add", "remove"}
    <2>1. CASE Continue(nodes')
      BY <1>2, <2>1, ContinueFacts
    <2>2. CASE tpc' = "remove" /\ pending' = pending
      BY <1>1, <2>2 DEF ClusterInv, PendingKnown, TendTypeOK
    <2> QED
      BY <1>1, <2>1, <2>2
  <1>5. TendTypeOK' /\ ServersTypeOK'
    BY <1>1, <1>2, <1>4 DEF ClusterInv, TendTypeOK, ServersTypeOK, servers
  <1>6. FoundNew'
    BY <1>2, <1>4 DEF FoundNew, Strangers
  <1>7. UniqueNames' /\ OneGoes' /\ Judged'
    BY <1>2, <1>3, <1>4 DEF UniqueNames, Unique, OneGoes, Judged
  <1> QED
    BY <1>2, <1>4, <1>5, <1>6, <1>7 DEF ClusterInv

-----------------------------------------------------------------------------
(* Removal *)

\* find_nodes_to_remove condemns no node that answers and is mapped.
LEMMA CondemnedWhy ==
  ASSUME NEW o, node[o] \in NodeRecords, Condemned(o)
  PROVE  node[o].active = FALSE \/ node[o].failures > 0 \/ ~Mapped(o)
  <1>1. node[o].active \in BOOLEAN /\ node[o].failures \in 0 .. MaxFailures
    BY Zenon DEF NodeRecords
  <1>2. CASE ~node[o].active
    BY <1>1, <1>2, Zenon
  <1>3. CASE node[o].active
    <2>1. node[o].failures > 0 \/ (node[o].failures = 0 => ~Mapped(o))
      BY <1>3 DEF Condemned
    <2>2. node[o].failures > 0 \/ node[o].failures = 0
      BY <1>1 DEF MaxFailures
    <2> QED
      BY <2>1, <2>2
  <1> QED
    BY <1>2, <1>3

LEMMA FindStep ==
  ASSUME ClusterInv, FindNodesToRemove
  PROVE  ClusterInv'
  <1>1. /\ tpc = "remove"
        /\ UNCHANGED <<servers, node, nodes, aliases, pmap, pending, found, friends>>
    BY DEF FindNodesToRemove, cluster
  <1>2. found = << >> /\ pending = << >>
    BY <1>1 DEF ClusterInv, FoundNew, PendingKnown
  <1>3. ServersTypeOK' /\ Live(nodes)' /\ Live(found)'
    BY <1>1 DEF ClusterInv, ServersTypeOK, servers, Live
  <1>4. \A i, j \in DOMAIN nodes : node[nodes[i]].name = node[nodes[j]].name => i = j
    BY <1>1 DEF ClusterInv, UniqueNames
  <1>5. CASE Len(nodes) = 1 /\ node[nodes[1]].active /\ node[nodes[1]].failures > 5
    <2>1. tpc' = "reseed" /\ untried' = Seeds
      BY <1>5 DEF FindNodesToRemove
    <2>2. TendTypeOK' /\ PendingKnown'
      BY <1>1, <1>2, <2>1, ClusterAssumption DEF ClusterInv, TendTypeOK, PendingKnown
    <2>3. FoundNew' /\ UniqueNames' /\ OneGoes' /\ Judged'
      BY <1>1, <1>2, <1>4, <1>5, <2>1 DEF FoundNew, Unique, UniqueNames, OneGoes, Judged
    <2> QED
      BY <1>3, <2>2, <2>3 DEF ClusterInv
  <1>6. CASE ~(Len(nodes) = 1 /\ node[nodes[1]].active /\ node[nodes[1]].failures > 5)
    <2>1. /\ tpc' = "removing" /\ doomed' = {o \in Range(nodes) : Condemned(o)}
          /\ untried' = untried
      BY <1>6 DEF FindNodesToRemove
    <2>2. TendTypeOK' /\ PendingKnown'
      BY <1>1, <1>2, <2>1 DEF ClusterInv, TendTypeOK, PendingKnown
    <2>3. FoundNew' /\ UniqueNames' /\ OneGoes'
      BY <1>1, <1>2, <1>4, <2>1 DEF FoundNew, Unique, UniqueNames, OneGoes
    <2>4. Judged'
      <3> SUFFICES ASSUME NEW d \in doomed'
                   PROVE  (node[d].active = FALSE \/ node[d].failures > 0 \/ ~Mapped(d))'
        BY DEF Judged
      <3>1. Condemned(d) /\ node[d] \in NodeRecords
        BY <2>1 DEF Range, ClusterInv, Live
      <3>2. node[d].active = FALSE \/ node[d].failures > 0 \/ ~Mapped(d)
        BY <3>1, CondemnedWhy
      <3> QED
        BY <1>1, <3>2 DEF Mapped
    <2> QED
      BY <1>3, <2>2, <2>3, <2>4 DEF ClusterInv
  <1> QED
    BY <1>5, <1>6

LEMMA ReseededStep ==
  ASSUME ClusterInv, Reseeded
  PROVE  ClusterInv'
  <1>1. /\ tpc = "reseed" /\ AddFound /\ tpc' = "removing"
        /\ UNCHANGED <<servers, node, pmap, pending, friends, untried>>
        /\ doomed' = IF found # << >> THEN {nodes[1]} ELSE {}
    BY DEF Reseeded
  <1>2. /\ nodes' \in Seq(Objs) /\ found' = << >>
        /\ Live(nodes)' /\ Live(found)' /\ Unique(found)'
        /\ \A i \in DOMAIN nodes' :
             \/ i \in DOMAIN nodes /\ nodes'[i] = nodes[i]
             \/ \E j \in DOMAIN found : i = Len(nodes) + j /\ nodes'[i] = found[j]
    BY <1>1, AddFoundFacts
  <1>3. Len(nodes) = 1 /\ node[nodes[1]].failures > 5 /\ DOMAIN nodes = {1} /\ pending = << >>
    <2>1. Len(nodes) = 1 /\ node[nodes[1]].failures > 5 /\ pending = << >>
      BY <1>1 DEF ClusterInv, FoundNew, PendingKnown
    <2> QED
      BY <2>1 DEF ClusterInv, TendTypeOK
  <1>4. TendTypeOK' /\ ServersTypeOK' /\ PendingKnown'
    BY <1>1, <1>2, <1>3 DEF ClusterInv, TendTypeOK, ServersTypeOK, PendingKnown, servers
  <1>5. FoundNew' /\ UniqueNames'
    BY <1>1, <1>2 DEF FoundNew, UniqueNames
  <1>6. OneGoes'
    <2> SUFFICES ASSUME NEW i \in DOMAIN nodes', NEW k \in DOMAIN nodes',
                        node[nodes'[i]].name = node[nodes'[k]].name
                 PROVE  i = k \/ nodes'[i] \in doomed' \/ nodes'[k] \in doomed'
      BY <1>1 DEF OneGoes
    <2>1. CASE i \in DOMAIN nodes /\ nodes'[i] = nodes[i]
      <3>1. CASE k \in DOMAIN nodes
        BY <1>3, <2>1, <3>1
      <3>2. CASE \E j \in DOMAIN found : k = Len(nodes) + j /\ nodes'[k] = found[j]
        <4>1. found # << >>
          BY <3>2
        <4> QED
          BY <1>1, <1>3, <2>1, <4>1
      <3> QED
        BY <1>2, <3>1, <3>2
    <2>2. CASE \E j \in DOMAIN found : i = Len(nodes) + j /\ nodes'[i] = found[j]
      <3>1. CASE k \in DOMAIN nodes /\ nodes'[k] = nodes[k]
        <4>1. found # << >>
          BY <2>2
        <4> QED
          BY <1>1, <1>3, <3>1, <4>1
      <3>2. CASE \E j \in DOMAIN found : k = Len(nodes) + j /\ nodes'[k] = found[j]
        BY <2>2, <3>2 DEF ClusterInv, FoundNew, Unique
      <3> QED
        BY <1>2, <3>1, <3>2
    <2> QED
      BY <1>2, <2>1, <2>2
  <1>7. Judged'
    <2> SUFFICES ASSUME NEW d \in doomed' PROVE node'[d].failures > 0
      BY DEF Judged
    <2>1. d = nodes[1] /\ node[d] \in NodeRecords
      BY <1>1, <1>3 DEF ClusterInv, Live
    <2> QED
      BY <1>1, <1>3, <2>1 DEF NodeRecords, MaxFailures
  <1> QED
    BY <1>2, <1>4, <1>5, <1>6, <1>7 DEF ClusterInv

\* remove_nodes keeps the nodes whose names nobody condemned has, and each once.
LEMMA CopyKeptFacts ==
  ASSUME ClusterInv, CopyKept
  PROVE  /\ nodes' \in Seq(Objs)
         /\ \A i \in DOMAIN nodes : (\A d \in doomed : node[nodes[i]].name # node[d].name) =>
              \E k \in DOMAIN nodes' : nodes'[k] = nodes[i]
         /\ \A k \in DOMAIN nodes' : \E i \in DOMAIN nodes : nodes'[k] = nodes[i]
         /\ tpc = "removing" =>
              \A k, l \in DOMAIN nodes' :
                node[nodes'[k]].name = node[nodes'[l]].name => k = l
  <1> DEFINE kept == {i \in DOMAIN nodes : \A d \in doomed : node[nodes[i]].name # node[d].name}
             n    == Cardinality(kept)
  <1>1. PICK at \in [1 .. n -> kept] :
          /\ \A i, j \in DOMAIN at : i < j => at[i] < at[j]
          /\ nodes' = [i \in DOMAIN at |-> nodes[at[i]]]
    BY DEF CopyKept
  <1>2. nodes \in Seq(Objs) /\ DOMAIN nodes = 1 .. Len(nodes) /\ Len(nodes) \in Nat
    BY DEF ClusterInv, TendTypeOK
  <1>3. IsFiniteSet(kept) /\ n \in Nat
    <2>1. IsFiniteSet(1 .. Len(nodes)) /\ kept \subseteq 1 .. Len(nodes)
      BY <1>2, FS_Interval
    <2>2. IsFiniteSet(kept)
      BY <2>1, FS_Subset
    <2> QED
      BY <2>2, FS_CardinalityType
  <1>4. \A i \in kept : i \in Int /\ i \in DOMAIN nodes
    BY <1>2
  <1>5. \A d \in doomed : \A i \in kept : node[nodes[i]].name # node[d].name
    OBVIOUS
  <1>6. \A i \in DOMAIN nodes : (\A d \in doomed : node[nodes[i]].name # node[d].name) => i \in kept
    OBVIOUS
  <1>7. Cardinality(1 .. n) = n
    BY <1>3, FS_Interval
  <1> HIDE DEF kept, n
  <1>8. DOMAIN at = 1 .. n /\ \A i \in 1 .. n : at[i] \in kept
    OBVIOUS
  <1>9. \A i, j \in 1 .. n : at[i] = at[j] => i = j
    <2> SUFFICES ASSUME NEW i \in 1 .. n, NEW j \in 1 .. n, at[i] = at[j] PROVE i = j
      OBVIOUS
    <2>1. at[i] \in Int /\ at[j] \in Int
      BY <1>4, <1>8
    <2>2. ~(i < j) /\ ~(j < i)
      BY <1>1, <1>8, <2>1
    <2> QED
      BY <1>3, <2>2
  <1>10. at \in Surjection(1 .. n, kept)
    <2>1. at \in Injection(1 .. n, kept)
      BY <1>9 DEF Injection, IsInjective
    <2> QED
      BY <2>1, <1>3, <1>7, FS_Injection DEF n
  <1>11. \A i \in kept : \E k \in 1 .. n : at[k] = i
    BY <1>10 DEF Surjection
  <1>12. DOMAIN nodes' = 1 .. n /\ \A k \in 1 .. n : nodes'[k] = nodes[at[k]]
    BY <1>1, <1>8
  <1>13. nodes' \in Seq(Objs)
    <2>1. \A k \in 1 .. n : nodes[at[k]] \in Objs
      BY <1>2, <1>4, <1>8
    <2>2. nodes' = [k \in 1 .. n |-> nodes[at[k]]]
      BY <1>1, <1>8
    <2> QED
      BY <1>3, <2>1, <2>2
  <1>14. ASSUME tpc = "removing", NEW k \in DOMAIN nodes', NEW l \in DOMAIN nodes',
                node[nodes'[k]].name = node[nodes'[l]].name
         PROVE  k = l
    <2>1. at[k] \in kept /\ at[l] \in kept /\ nodes'[k] = nodes[at[k]] /\ nodes'[l] = nodes[at[l]]
      BY <1>8, <1>12
    <2>2. at[k] = at[l] \/ nodes[at[k]] \in doomed \/ nodes[at[l]] \in doomed
      BY <1>4, <1>14, <2>1 DEF ClusterInv, OneGoes
    <2>3. nodes[at[k]] \notin doomed /\ nodes[at[l]] \notin doomed
      BY <1>5, <2>1
    <2> QED
      BY <1>9, <1>12, <2>2, <2>3
  <1> QED
    BY <1>4, <1>6, <1>8, <1>11, <1>12, <1>13, <1>14

LEMMA RemoveStep ==
  ASSUME ClusterInv, RemoveNodes
  PROVE  ClusterInv'
  <1>1. /\ tpc = "removing" /\ tpc' = "done" /\ CopyKept
        /\ UNCHANGED <<servers, node, pending, found, friends, untried>>
    BY DEF RemoveNodes
  <1>2. found = << >> /\ pending = << >>
    BY <1>1 DEF ClusterInv, FoundNew, PendingKnown
  <1>3. /\ nodes' \in Seq(Objs)
        /\ \A k \in DOMAIN nodes' : \E i \in DOMAIN nodes : nodes'[k] = nodes[i]
        /\ \A k, l \in DOMAIN nodes' : node[nodes'[k]].name = node[nodes'[l]].name => k = l
    BY <1>1, CopyKeptFacts
  <1>4. ServersTypeOK' /\ TendTypeOK' /\ PendingKnown'
    BY <1>1, <1>2, <1>3 DEF ClusterInv, ServersTypeOK, servers, TendTypeOK, PendingKnown
  <1>5. Live(nodes)' /\ Live(found)'
    BY <1>1, <1>2, <1>3 DEF ClusterInv, Live
  <1>6. FoundNew' /\ UniqueNames' /\ OneGoes' /\ Judged'
    BY <1>1, <1>2, <1>3 DEF FoundNew, Unique, UniqueNames, OneGoes, Judged
  <1> QED
    BY <1>4, <1>5, <1>6 DEF ClusterInv

\* The end of a tend: the nodes of the list are referred to and so not gone.
LEMMA ReturnStep ==
  ASSUME ClusterInv, NEW late \in BOOLEAN, TendReturns(late)
  PROVE  ClusterInv'
  <1>1. /\ tpc = "done" /\ tpc' = "poll" /\ friends' = << >> /\ node' = Collect(node, Roots)
        /\ UNCHANGED <<servers, nodes, pending, untried, found>>
    BY DEF TendReturns
  <1>2. found = << >> /\ pending = << >>
    BY <1>1 DEF ClusterInv, FoundNew, PendingKnown
  <1>3. \A i \in DOMAIN nodes : nodes[i] \in Objs /\ nodes[i] \in Roots
    BY DEF ClusterInv, TendTypeOK, Roots, Range
  <1>4. NamesKept(nodes)
    <2>1. \A i \in DOMAIN nodes : node'[nodes[i]] = node[nodes[i]]
      BY <1>1, <1>3 DEF Collect
    <2> QED
      BY <2>1 DEF ClusterInv, Live, NamesKept
  <1>5. node' \in [Objs -> NodeRecords \cup {NoNode}]
    BY <1>1 DEF ClusterInv, TendTypeOK, Collect
  <1>6. ServersTypeOK' /\ TendTypeOK' /\ PendingKnown'
    BY <1>1, <1>2, <1>5 DEF ClusterInv, ServersTypeOK, servers, TendTypeOK, PendingKnown
  <1> QED
    BY <1>1, <1>2, <1>4, <1>6, ListsKept DEF ClusterInv

-----------------------------------------------------------------------------
(* Servers, callers, and the whole *)

LEMMA ServersStep ==
  ASSUME ClusterInv, Servers
  PROVE  ServersTypeOK' /\ UNCHANGED <<cluster, tending>>
  <1>1. ASSUME NEW a \in Addrs, ServerFails(a)
        PROVE  ServersTypeOK' /\ UNCHANGED <<cluster, tending>>
    BY <1>1 DEF ServerFails, MayChange, ClusterInv, ServersTypeOK
  <1>2. ASSUME NEW a \in Addrs, NEW n \in Names, ServerStarts(a, n)
        PROVE  ServersTypeOK' /\ UNCHANGED <<cluster, tending>>
    BY <1>2 DEF ServerStarts, MayChange, ClusterInv, ServersTypeOK
  <1>3. ASSUME MembershipSettles
        PROVE  ServersTypeOK' /\ UNCHANGED <<cluster, tending>>
    BY <1>3 DEF MembershipSettles, MayChange, ClusterInv, ServersTypeOK, Up
  <1>4. ASSUME NEW p \in Partitions, NEW n \in Names, Rebalance(p, n)
        PROVE  ServersTypeOK' /\ UNCHANGED <<cluster, tending>>
    <2>1. owner[p] \in Names /\ generation \in [Names -> Nat] /\ owner \in [Partitions -> Names]
      BY DEF ClusterInv, ServersTypeOK
    <2>2. generation' \in [Names -> Nat] /\ owner' \in [Partitions -> Names]
      BY <1>4, <2>1 DEF Rebalance
    <2>3. UNCHANGED <<server, listed, cluster, tending>>
      BY <1>4 DEF Rebalance, MayChange
    <2> QED
      BY <2>2, <2>3 DEF ClusterInv, ServersTypeOK
  <1> QED
    BY <1>1, <1>2, <1>3, <1>4 DEF Servers

\* What callers and the close of the client do is nothing to the tending.
LEMMA CallStep ==
  ASSUME Close \/ Call \/ UNCHANGED vars
  PROVE  UNCHANGED <<servers, cluster, tending>>
  <1>1. CASE Close
    BY <1>1 DEF Close
  <1>2. CASE Call
    <2>1. PICK c \in Callers : \/ StartRandom(c) \/ ProbeActive(c)
                               \/ ProbeInactive(c) \/ NoActiveNode(c)
      BY <1>2 DEF Call
    <2> QED
      BY <2>1 DEF StartRandom, ProbeActive, ProbeInactive, NoActiveNode, Draw
  <1>3. CASE UNCHANGED vars
    BY <1>3 DEF vars, servers, cluster, tending
  <1> QED
    BY <1>1, <1>2, <1>3

LEMMA TendUntouched ==
  ASSUME ClusterInv, ServersTypeOK', UNCHANGED <<cluster, tending>>
  PROVE  ClusterInv'
  <1>1. UNCHANGED <<node, nodes, pmap, tpc, pending, friends, untried, found, doomed>>
    BY DEF cluster, tending
  <1>2. TendTypeOK' /\ Live(nodes)' /\ Live(found)' /\ PendingKnown'
    BY <1>1 DEF ClusterInv, TendTypeOK, Live, PendingKnown
  <1>3. FoundNew' /\ UniqueNames' /\ OneGoes'
    BY <1>1 DEF ClusterInv, FoundNew, Unique, Strangers, UniqueNames, OneGoes
  <1>4. Judged'
    BY <1>1 DEF ClusterInv, Judged, Mapped
  <1> QED
    BY <1>2, <1>3, <1>4 DEF ClusterInv

LEMMA InitClusterInv == Init => ClusterInv
  <1> SUFFICES ASSUME Init PROVE ClusterInv
    OBVIOUS
  <1>1. /\ node = [o \in Objs |-> NoNode] /\ nodes = << >> /\ found = << >> /\ pending = << >>
        /\ friends = << >> /\ untried = << >> /\ tpc = "poll"
    BY DEF Init
  <1>2. ServersTypeOK
    BY DEF Init, ServersTypeOK, Up
  <1>3. TendTypeOK /\ PendingKnown
    BY <1>1 DEF TendTypeOK, PendingKnown
  <1>4. Live(nodes) /\ Live(found) /\ FoundNew /\ UniqueNames /\ OneGoes /\ Judged
    BY <1>1 DEF Live, FoundNew, Unique, UniqueNames, OneGoes, Judged
  <1> QED
    BY <1>2, <1>3, <1>4 DEF ClusterInv

LEMMA NextClusterInv == ClusterInv /\ [Next]_vars => ClusterInv'
  <1> SUFFICES ASSUME ClusterInv, [Next]_vars PROVE ClusterInv'
    OBVIOUS
  <1>1. CASE Tend
    <2>1. ASSUME NEW late \in BOOLEAN, TendReturns(late) PROVE ClusterInv'
      BY <2>1, ReturnStep
    <2>2. CASE StartTend
      BY <2>2, StartTendStep
    <2>3. CASE SkipInactive \/ FetchPartitions
      BY <2>3, PassStep
    <2>5. ASSUME NEW lost \in BOOLEAN,
                 TrySeed(lost) \/ RefreshFails(lost) \/ FetchFails(lost) \/ TryFriend(lost)
          PROVE  ClusterInv'
      BY <2>5, TrySeedStep, RefreshFailsStep, PassStep, TryFriendStep
    <2>4. CASE Seeded \/ AddNodes
      BY <2>4, AddStep
    <2> QED
      BY <1>1, <2>1, <2>2, <2>3, <2>4, <2>5, RefreshStep, FindStep, ReseededStep, RemoveStep DEF Tend
  <1>2. CASE Servers
    BY <1>2, ServersStep, TendUntouched
  <1>3. CASE Close \/ Call \/ UNCHANGED vars
    <2>1. UNCHANGED <<servers, cluster, tending>>
      BY <1>3, CallStep
    <2>2. ServersTypeOK'
      BY <2>1 DEF servers, ClusterInv, ServersTypeOK
    <2> QED
      BY <2>1, <2>2, TendUntouched
  <1> QED
    BY <1>1, <1>2, <1>3 DEF Next

LEMMA ClusterInvariant == Spec => []ClusterInv
  BY InitClusterInv, NextClusterInv, PTL DEF Spec

\* A step that removes nodes is RemoveNodes.
LEMMA WhoRemoves ==
  ASSUME tpc = "removing", [Next]_vars
  PROVE  RemoveNodes \/ nodes' = nodes
  <1>1. ASSUME Tend PROVE RemoveNodes
    <2>1. ASSUME NEW late \in BOOLEAN, TendReturns(late) PROVE FALSE
      BY <2>1 DEF TendReturns
    <2> QED
      BY <1>1, <2>1 DEF Tend, StartTend, TrySeed, Seeded, SkipInactive, RefreshFails, Refresh,
         FetchPartitions, FetchFails, TryFriend, AddNodes, FindNodesToRemove, Reseeded
  <1>2. ASSUME Servers PROVE nodes' = nodes
    BY <1>2 DEF Servers, ServerFails, ServerStarts, MembershipSettles, Rebalance, MayChange,
       cluster
  <1>3. ASSUME Close \/ Call \/ UNCHANGED vars PROVE nodes' = nodes
    BY <1>3, CallStep DEF cluster
  <1> QED
    BY <1>1, <1>2, <1>3 DEF Next

-----------------------------------------------------------------------------
\* However servers fail, return, take each other's addresses and change between two steps
\* of seed_nodes, find_new_nodes_to_add and find_nodes_to_remove, the node list has no two
\* nodes of one name once a tend has removed what it condemned.
THEOREM ClusterUniqueNames == Spec => []UniqueNames
  <1>1. ClusterInv => UniqueNames
    BY DEF ClusterInv
  <1> QED
    BY <1>1, ClusterInvariant, PTL

\* remove_nodes_and_aliases does not drop a node that has answered in this tend and that
\* the partition map refers to, unless another node of its name is condemned.
THEOREM ClusterMappedNodeKept == Spec => MappedNodeKept
  <1> DEFINE Kept ==
        tpc = "removing" /\ Len(nodes) > 1 =>
          \A o \in Range(nodes) :
            node[o].active /\ node[o].failures = 0 /\ node[o].gen >= 0 /\ Mapped(o)
              => \/ o \in Range(nodes')
                 \/ \E d \in doomed : d # o /\ node[d].name = node[o].name
  <1>1. ASSUME ClusterInv, [Next]_vars PROVE Kept
    <2> SUFFICES ASSUME tpc = "removing", NEW o \in Range(nodes),
                        node[o].active, node[o].failures = 0, Mapped(o),
                        o \notin Range(nodes')
                 PROVE  \E d \in doomed : d # o /\ node[d].name = node[o].name
      OBVIOUS
    <2>1. CopyKept
      BY <1>1, WhoRemoves DEF RemoveNodes
    <2>2. PICK i \in DOMAIN nodes : o = nodes[i]
      BY DEF Range
    <2>3. PICK d \in doomed : node[nodes[i]].name = node[d].name
      BY <1>1, <2>1, <2>2, CopyKeptFacts DEF Range
    <2>4. node[o].active # FALSE /\ ~(node[o].failures > 0)
      OBVIOUS
    <2>5. o \notin doomed
      BY <1>1, <2>4 DEF ClusterInv, Judged
    <2> QED
      BY <2>2, <2>3, <2>5
  <1>2. ASSUME ClusterInv, [Next]_vars PROVE [Kept]_vars
    BY <1>1, <1>2
  <1> HIDE DEF Kept
  <1>3. Spec => [][Kept]_vars
    BY <1>2, ClusterInvariant, PTL DEF Spec
  <1> QED
    BY <1>3 DEF Kept, MappedNodeKept
-----------------------------------------------------------------------------
(* The alias map *)

\* Every seed is one address, as those are that are given by an IP address or by the
\* name of one server.
OneAddressSeeds == \A i \in DOMAIN Seeds : Len(Seeds[i]) = 1

\* The model's servers answer where they may.
ServersPlaced == \A a \in Addrs : server[a] \in NamesAt[a] \cup {Down}

\* A node has aliases, at which a server of its name may answer.
NodesPlaced ==
  \A o \in Objs : node[o] \in NodeRecords =>
    node[o].aliases # {} /\ \A a \in node[o].aliases : node[o].name \in NamesAt[a]

\* What the alias map refers to has the address for an alias.
AliasOwned ==
  /\ DOMAIN aliases = Addrs
  /\ \A a \in Addrs : aliases[a] # NoNode =>
       aliases[a] \in Objs /\ node[aliases[a]] \in NodeRecords /\ a \in node[aliases[a]].aliases

\* It is in the node list, or about to join it.
AliasListed ==
  \A a \in Addrs : SingleHomed(a) /\ aliases[a] # NoNode =>
    \/ \E i \in DOMAIN nodes : aliases[a] = nodes[i]
    \/ \E i \in DOMAIN found : aliases[a] = found[i]

DoomedLive ==
  tpc = "removing" => \A d \in doomed : d \in Objs /\ node[d] \in NodeRecords

AliasInv ==
  /\ ServersPlaced /\ NodesPlaced /\ AliasOwned /\ AliasListed /\ DoomedLive
  /\ \A i \in DOMAIN untried : Len(untried[i]) = 1

\* Steps that do not change what an alias is about: nodes may be gone, but none of
\* those in the lists or in the alias map, and those that stay keep name and aliases.
LEMMA AliasFrame ==
  ASSUME AliasInv, ServersPlaced', DoomedLive', aliases' = aliases, nodes' = nodes,
         found' = found, \A i \in DOMAIN untried' : Len(untried'[i]) = 1,
         \A o \in Objs : node'[o] \in NodeRecords =>
           /\ node[o] \in NodeRecords /\ node'[o].name = node[o].name
           /\ node'[o].aliases = node[o].aliases,
         \A a \in Addrs : aliases[a] # NoNode => node'[aliases[a]] \in NodeRecords
  PROVE  AliasInv'
  <1>1. NodesPlaced'
    BY DEF AliasInv, NodesPlaced
  <1>2. AliasOwned' /\ AliasListed'
    BY DEF AliasInv, AliasOwned, AliasListed
  <1> QED
    BY <1>1, <1>2 DEF AliasInv

\* A refresh does not touch name and aliases.
LEMMA RefreshKeeps ==
  ASSUME ClusterInv, ClusterInv', NEW lost \in BOOLEAN, RefreshFails(lost) \/ Refresh
  PROVE  \A o \in Objs : /\ node[o] \in NodeRecords <=> node'[o] \in NodeRecords
                         /\ node[o] \in NodeRecords => /\ node'[o].name = node[o].name
                                                       /\ node'[o].aliases = node[o].aliases
  <1> DEFINE h == Head(pending)
  <1>1. tpc = "refresh" /\ nodes' = nodes
    BY DEF RefreshFails, Refresh
  <1>2. h \in Objs /\ node[h] \in NodeRecords
    BY <1>1, TailKnown
  <1>3. \E j \in DOMAIN nodes : h = nodes[j]
    <2>1. pending # << >> /\ pending \in Seq(Objs)
      BY <1>1 DEF ClusterInv, PendingKnown, TendTypeOK
    <2>2. 1 \in DOMAIN pending /\ h = pending[1]
      BY <2>1
    <2> QED
      BY <2>2 DEF ClusterInv, PendingKnown
  <1>4. node'[h] \in NodeRecords
    BY <1>1, <1>3 DEF ClusterInv, Live
  <1>5. node \in [Objs -> NodeRecords \cup {NoNode}]
    BY DEF ClusterInv, TendTypeOK
  <1>6. /\ \A o \in Objs : o # h => node'[o] = node[o]
        /\ node'[h].name = node[h].name /\ node'[h].aliases = node[h].aliases
    <2>1. CASE RefreshFails(lost)
      BY <1>2, <1>5, <2>1 DEF RefreshFails, NodeRecords
    <2>2. CASE Refresh
      BY <1>2, <1>5, <2>2 DEF Refresh, NodeRecords
    <2> QED
      BY <2>1, <2>2
  <1> HIDE DEF h
  <1> QED
    BY <1>2, <1>4, <1>6

\* Seeds that are still to be tried.
LEMMA UntriedSingle ==
  ASSUME OneAddressSeeds, AliasInv, untried \in Seq(Seq(Addrs) \ {<< >>}),
         untried' = untried \/ untried' = Seeds \/ (untried # << >> /\ untried' = Tail(untried))
  PROVE  \A i \in DOMAIN untried' : Len(untried'[i]) = 1
  <1>1. CASE untried' = untried
    BY <1>1 DEF AliasInv
  <1>2. CASE untried' = Seeds
    BY <1>2 DEF OneAddressSeeds
  <1>3. CASE untried # << >> /\ untried' = Tail(untried)
    <2>1. \A i \in DOMAIN untried' : i + 1 \in DOMAIN untried /\ untried'[i] = untried[i + 1]
      BY <1>3
    <2> QED
      BY <2>1 DEF AliasInv
  <1> QED
    BY <1>1, <1>2, <1>3

LEMMA QuietAliasStep ==
  ASSUME ClusterInv, ClusterInv', OneAddressSeeds, AliasInv, NEW lost \in BOOLEAN,
         StartTend \/ SkipInactive \/ RefreshFails(lost) \/ Refresh \/ FetchPartitions
           \/ FetchFails(lost) \/ FindNodesToRemove
  PROVE  AliasInv'
  <1>1. /\ UNCHANGED <<server, aliases, nodes, found>>
        /\ untried' = untried \/ untried' = Seeds
    BY DEF StartTend, SkipInactive, RefreshFails, Refresh, FetchPartitions, FetchFails,
       FindNodesToRemove, Exchange, cluster, servers, world
  <1>2. ServersPlaced'
    BY <1>1 DEF AliasInv, ServersPlaced
  <1>3. \A i \in DOMAIN untried' : Len(untried'[i]) = 1
    BY <1>1, UntriedSingle DEF ClusterInv, TendTypeOK
  <1>4. \A o \in Objs : /\ node[o] \in NodeRecords <=> node'[o] \in NodeRecords
                        /\ node[o] \in NodeRecords => /\ node'[o].name = node[o].name
                                                      /\ node'[o].aliases = node[o].aliases
    <2>1. CASE RefreshFails(lost) \/ Refresh
      BY <2>1, RefreshKeeps
    <2>2. CASE ~(RefreshFails(lost) \/ Refresh)
      <3>1. node' = node
        BY <2>2 DEF StartTend, SkipInactive, FetchPartitions, FetchFails, FindNodesToRemove,
           cluster
      <3> QED
        BY <3>1
    <2> QED
      BY <2>1, <2>2
  <1>5. DoomedLive'
    <2>1. CASE FindNodesToRemove /\ tpc' = "removing"
      <3>1. node' = node /\ doomed' \subseteq Range(nodes)
        BY <2>1 DEF FindNodesToRemove, cluster
      <3>2. \A d \in Range(nodes) : d \in Objs /\ node[d] \in NodeRecords
        BY DEF ClusterInv, TendTypeOK, Live, Range
      <3> QED
        BY <3>1, <3>2 DEF DoomedLive
    <2>2. CASE tpc' # "removing"
      BY <2>2 DEF DoomedLive
    <2>3. CASE ~FindNodesToRemove
      <3>1. tpc' # "removing"
        BY <2>3 DEF StartTend, SkipInactive, RefreshFails, Refresh, FetchPartitions,
           FetchFails, Continue
      <3> QED
        BY <3>1 DEF DoomedLive
    <2> QED
      BY <2>1, <2>2, <2>3
  <1>6. \A a \in Addrs : aliases[a] # NoNode => node'[aliases[a]] \in NodeRecords
    BY <1>4 DEF AliasInv, AliasOwned
  <1> QED
    BY <1>1, <1>2, <1>3, <1>4, <1>5, <1>6, AliasFrame

\* What the alias map refers to is not gone at the end of a tend.
LEMMA ReturnAliasStep ==
  ASSUME ClusterInv, AliasInv, NEW late \in BOOLEAN, TendReturns(late)
  PROVE  AliasInv'
  <1>1. /\ UNCHANGED <<server, aliases, nodes, found, untried>>
        /\ node' = Collect(node, Roots) /\ tpc' = "poll"
    BY DEF TendReturns, servers
  <1>2. ServersPlaced' /\ DoomedLive'
    BY <1>1 DEF AliasInv, ServersPlaced, DoomedLive
  <1>3. \A o \in Objs : /\ node'[o] \in NodeRecords => node'[o] = node[o]
                        /\ o \in Roots => node'[o] = node[o]
    BY <1>1, NoNodeFacts DEF Collect
  <1>4. \A a \in Addrs : aliases[a] # NoNode =>
          aliases[a] \in Objs /\ node[aliases[a]] \in NodeRecords /\ aliases[a] \in Roots
    BY DEF AliasInv, AliasOwned, Roots, Range
  <1>5. \A i \in DOMAIN untried' : Len(untried'[i]) = 1
    BY <1>1 DEF AliasInv
  <1>6. \A a \in Addrs : aliases[a] # NoNode => node'[aliases[a]] \in NodeRecords
    BY <1>3, <1>4
  <1>7. \A o \in Objs : node'[o] \in NodeRecords =>
          /\ node[o] \in NodeRecords /\ node'[o].name = node[o].name
          /\ node'[o].aliases = node[o].aliases
    BY <1>3
  <1> QED
    BY <1>1, <1>2, <1>5, <1>6, <1>7, AliasFrame

LEMMA OutsideAliasStep ==
  ASSUME ClusterInv, AliasInv, Servers \/ Close \/ Call \/ UNCHANGED vars
  PROVE  AliasInv'
  <1>1. UNCHANGED <<cluster, tending>>
    BY ServersStep, CallStep
  <1>2. UNCHANGED <<node, nodes, aliases, tpc, untried, found, doomed>>
    BY <1>1 DEF cluster, tending
  <1>3. ServersPlaced'
    <2>1. server \in [Addrs -> Names \cup {Down}]
      BY DEF ClusterInv, ServersTypeOK
    <2>2. ASSUME NEW a \in Addrs, ServerFails(a) PROVE ServersPlaced'
      BY <2>1, <2>2 DEF ServerFails, AliasInv, ServersPlaced
    <2>3. ASSUME NEW a \in Addrs, NEW n \in Names, ServerStarts(a, n) PROVE ServersPlaced'
      BY <2>1, <2>3 DEF ServerStarts, AliasInv, ServersPlaced
    <2>4. ASSUME UNCHANGED server PROVE ServersPlaced'
      BY <2>4 DEF AliasInv, ServersPlaced
    <2>5. ASSUME NEW p \in Partitions, NEW n \in Names, Rebalance(p, n) PROVE UNCHANGED server
      BY <2>5 DEF Rebalance
    <2>6. ASSUME MembershipSettles PROVE UNCHANGED server
      BY <2>6 DEF MembershipSettles
    <2>7. ASSUME Close \/ Call \/ UNCHANGED vars PROVE UNCHANGED server
      BY <2>7, CallStep DEF servers
    <2> QED
      BY <2>2, <2>3, <2>4, <2>5, <2>6, <2>7 DEF Servers
  <1>4. /\ \A i \in DOMAIN untried' : Len(untried'[i]) = 1
        /\ \A a \in Addrs : aliases[a] # NoNode => node'[aliases[a]] \in NodeRecords
    BY <1>2 DEF AliasInv, AliasOwned
  <1>5. DoomedLive'
    BY <1>2 DEF AliasInv, DoomedLive
  <1> QED
    BY <1>2, <1>3, <1>4, <1>5, AliasFrame

\* A new node at one address, which its server answers at.
LEMMA CreateAlias ==
  ASSUME ClusterInv, AliasInv, NEW name \in Names, NEW a \in Addrs, name \in NamesAt[a],
         Create(name, <<a>>), aliases' = aliases, nodes' = nodes
  PROVE  NodesPlaced' /\ AliasOwned' /\ AliasListed'
  <1> DEFINE free == {o \in Objs : node[o] = NoNode}
             o    == CHOOSE o \in free : TRUE
             r    == NewNode(name, <<a>>)
  <1>1. free # {} /\ node' = [node EXCEPT ![o] = r] /\ found' = Append(found, o)
    BY DEF Create
  <1>2. o \in Objs /\ node[o] = NoNode
    <2>1. o \in free
      <3> HIDE DEF free
      <3> QED
        BY <1>1
    <2> QED
      BY <2>1
  <1>3. r.name = name /\ r.aliases = {a}
    <2>1. Range(<<a>>) = {a}
      BY DEF Range
    <2> QED
      BY <2>1 DEF NewNode
  <1> HIDE DEF free, o, r
  <1>4. node \in [Objs -> NodeRecords \cup {NoNode}] /\ found \in Seq(Objs)
    BY DEF ClusterInv, TendTypeOK
  <1>5. node'[o] = r /\ \A p \in Objs : p # o => node'[p] = node[p]
    BY <1>1, <1>2, <1>4
  <1>6. NodesPlaced'
    BY <1>3, <1>5 DEF AliasInv, NodesPlaced
  <1>7. AliasOwned'
    BY <1>2, <1>5, NoNodeFacts DEF AliasInv, AliasOwned
  <1>8. \A i \in DOMAIN found : i \in DOMAIN found' /\ found'[i] = found[i]
    BY <1>1, <1>2, <1>4
  <1>9. AliasListed'
    BY <1>8 DEF AliasInv, AliasListed
  <1> QED
    BY <1>6, <1>7, <1>9

\* The server that validate_node finds at a single address.
LEMMA ValidateOne ==
  ASSUME NEW a, Validate(<<a>>) # Down
  PROVE  Validate(<<a>>) = server[a]
  <1> DEFINE First(i) == /\ server[<<a>>[i]] # Down
                         /\ \A j \in 1 .. i - 1 : server[<<a>>[j]] = Down
             f == CHOOSE i \in DOMAIN <<a>> : First(i)
  <1>1. \E i \in DOMAIN <<a>> : server[<<a>>[i]] # Down
    BY DEF Validate
  <1>2. 1 \in DOMAIN <<a>> /\ First(1)
    BY <1>1
  <1>3. f \in DOMAIN <<a>>
    <2> HIDE DEF First
    <2> QED
      BY <1>2
  <1>4. Validate(<<a>>) = server[<<a>>[f]]
    BY <1>1 DEF Validate
  <1> HIDE DEF f
  <1>5. f = 1
    BY <1>3
  <1> QED
    BY <1>4, <1>5

LEMMA TrySeedAliasStep ==
  ASSUME ClusterInv, OneAddressSeeds, AliasInv, NEW lost \in BOOLEAN, TrySeed(lost)
  PROVE  AliasInv'
  <1> DEFINE addrs == Head(untried)
             name  == IF lost THEN Down ELSE Validate(addrs)
  <1>1. /\ tpc \in {"seed", "reseed"} /\ untried # << >> /\ untried' = Tail(untried)
        /\ UNCHANGED <<server, nodes, aliases, tpc>>
    BY DEF TrySeed, Exchange, world
  <1>2. /\ untried \in Seq(Seq(Addrs) \ {<< >>})
        /\ \A i \in DOMAIN untried' : Len(untried'[i]) = 1
    BY <1>1, UntriedSingle DEF ClusterInv, TendTypeOK
  <1>3. PICK a \in Addrs : addrs = <<a>>
    <2>1. 1 \in DOMAIN untried /\ addrs = untried[1]
      BY <1>1, <1>2
    <2>2. addrs \in Seq(Addrs) /\ Len(addrs) = 1
      BY <1>2, <2>1 DEF AliasInv
    <2>3. addrs = <<addrs[1]>> /\ addrs[1] \in Addrs
      <3> HIDE DEF addrs
      <3> QED
        BY <2>2
    <2> QED
      BY <2>3
  <1>4. ServersPlaced' /\ DoomedLive'
    BY <1>1 DEF AliasInv, ServersPlaced, DoomedLive
  <1>5. CASE name = Down \/ Named(found, name) # {}
    <2>1. UNCHANGED <<node, found>>
      BY <1>5 DEF TrySeed
    <2>2. \A b \in Addrs : aliases[b] # NoNode => node'[aliases[b]] \in NodeRecords
      BY <2>1 DEF AliasInv, AliasOwned
    <2> QED
      BY <1>1, <1>2, <1>4, <2>1, <2>2, AliasFrame
  <1>6. CASE name # Down /\ Named(found, name) = {}
    <2>1. Create(name, <<a>>)
      BY <1>3, <1>6 DEF TrySeed
    <2>2. name = server[a]
      BY <1>3, <1>6, ValidateOne
    <2>3. name \in NamesAt[a] /\ name \in Names
      BY <1>6, <2>2 DEF AliasInv, ServersPlaced, ClusterInv, ServersTypeOK
    <2>4. NodesPlaced' /\ AliasOwned' /\ AliasListed'
      <3> HIDE DEF name
      <3> QED
        BY <1>1, <2>1, <2>3, CreateAlias
    <2> QED
      BY <1>2, <1>4, <2>4 DEF AliasInv
  <1> QED
    BY <1>5, <1>6

LEMMA TryFriendAliasStep ==
  ASSUME ClusterInv, ClusterInv', AliasInv, NEW lost \in BOOLEAN, TryFriend(lost)
  PROVE  AliasInv'
  <1> DEFINE a    == Head(friends)
             name == IF lost THEN Down ELSE Validate(<<a>>)
             both == nodes \o found
  <1>1. /\ tpc = "add" /\ tpc' = tpc /\ friends # << >>
        /\ UNCHANGED <<server, nodes, untried>>
    BY DEF TryFriend, Exchange, world
  <1>2. a \in Addrs
    BY <1>1, HeadTailProperties DEF ClusterInv, TendTypeOK
  <1>3. ServersPlaced' /\ DoomedLive' /\ \A i \in DOMAIN untried' : Len(untried'[i]) = 1
    BY <1>1 DEF AliasInv, ServersPlaced, DoomedLive
  <1>4. name # Down => name \in NamesAt[a] /\ name \in Names
    BY <1>2, ValidateOne DEF AliasInv, ServersPlaced, ClusterInv, ServersTypeOK
  <1>5. CASE name = Down
    <2>1. UNCHANGED <<node, aliases, found>>
      BY <1>5 DEF TryFriend
    <2>2. \A b \in Addrs : aliases[b] # NoNode => node'[aliases[b]] \in NodeRecords
      BY <2>1 DEF AliasInv, AliasOwned
    <2> QED
      BY <1>1, <1>3, <2>1, <2>2, AliasFrame
  <1>6. CASE name # Down /\ Named(both, name) = {}
    <2>1. Create(name, <<a>>) /\ aliases' = aliases
      BY <1>6 DEF TryFriend
    <2> HIDE DEF name, a
    <2>2. NodesPlaced' /\ AliasOwned' /\ AliasListed'
      BY <1>1, <1>2, <1>4, <1>6, <2>1, CreateAlias
    <2> QED
      BY <1>3, <2>2 DEF AliasInv
  <1>7. CASE name # Down /\ Named(both, name) # {}
    <2> DEFINE o == CHOOSE o \in Named(both, name) : TRUE
    <2>1. found' = found /\ Alias(a, o)
      BY <1>7 DEF TryFriend
    <2>2. o \in Named(both, name)
      BY <1>7
    <2>3. /\ nodes \in Seq(Objs) /\ found \in Seq(Objs)
          /\ \A k \in DOMAIN both : \/ \E i \in DOMAIN nodes : both[k] = nodes[i]
                                    \/ \E i \in DOMAIN found : both[k] = found[i]
      <3>1. nodes \in Seq(Objs) /\ found \in Seq(Objs)
        BY DEF ClusterInv, TendTypeOK
      <3>2. \A k \in DOMAIN both :
              \/ k \in DOMAIN nodes /\ both[k] = nodes[k]
              \/ \E j \in DOMAIN found : k = Len(nodes) + j /\ both[k] = found[j]
        BY <3>1, JoinedPlaces, Zenon
      <3> HIDE DEF both
      <3> QED
        BY <3>1, <3>2
    <2>4. /\ node[o].name = name
          /\ \/ \E i \in DOMAIN nodes : o = nodes[i]
             \/ \E i \in DOMAIN found : o = found[i]
      <3>1. PICK k \in DOMAIN both : o = both[k]
        BY <2>2 DEF Named, Range
      <3>2. node[o].name = name
        BY <2>2 DEF Named
      <3> HIDE DEF both, o
      <3> QED
        BY <3>1, <3>2, <2>3
    <2> HIDE DEF name, a, both, o
    <2>5. o \in Objs /\ node[o] \in NodeRecords
      BY <2>3, <2>4 DEF ClusterInv, Live
    <2>6. /\ node' = [node EXCEPT ![o].aliases = @ \cup {a}, ![o].refs = @ + 1]
          /\ aliases' = [aliases EXCEPT ![a] = o]
          /\ node \in [Objs -> NodeRecords \cup {NoNode}]
      BY <2>1 DEF Alias, ClusterInv, TendTypeOK
    <2>7. /\ \A p \in Objs : p # o => node'[p] = node[p]
          /\ node'[o].name = node[o].name /\ node'[o].aliases = node[o].aliases \cup {a}
      BY <2>5, <2>6 DEF NodeRecords
    <2>8. node'[o] \in NodeRecords
      BY <1>1, <2>1, <2>4 DEF ClusterInv, Live
    <2>9. NodesPlaced'
      BY <1>4, <1>7, <2>4, <2>5, <2>7 DEF AliasInv, NodesPlaced
    <2>10. /\ DOMAIN aliases' = Addrs /\ aliases'[a] = o
           /\ \A b \in Addrs : b # a => aliases'[b] = aliases[b]
      BY <1>2, <2>6 DEF AliasInv, AliasOwned
    <2>11. AliasOwned'
      BY <2>5, <2>7, <2>8, <2>10 DEF AliasInv, AliasOwned
    <2>12. AliasListed'
      BY <1>1, <2>1, <2>4, <2>10 DEF AliasInv, AliasListed
    <2> QED
      BY <1>3, <2>9, <2>11, <2>12 DEF AliasInv
  <1> QED
    BY <1>5, <1>6, <1>7

\* The largest of finitely many places.
LEMMA MaxOf ==
  ASSUME NEW n \in Nat, NEW S, S \subseteq 1 .. n, S # {}
  PROVE  Max(S) \in S
  <1> DEFINE T == {n - i : i \in S}
  <1>1. T \subseteq Nat /\ T # {}
    <2>1. \A i \in S : n - i \in Nat
      OBVIOUS
    <2>2. PICK i \in S : TRUE
      OBVIOUS
    <2>3. n - i \in T
      OBVIOUS
    <2> QED
      BY <2>1, <2>3
  <1>2. PICK m \in T : \A k \in T : m <= k
    <2> HIDE DEF T
    <2> QED
      BY <1>1, LeastOf
  <1>3. PICK i \in S : m = n - i
    BY <1>2
  <1>4. \A j \in S : i >= j
    BY <1>2, <1>3
  <1> QED
    BY <1>4 DEF Max

LEMMA AddFoundAliases ==
  ASSUME ClusterInv, AliasInv, AddFound, node' = node
  PROVE  NodesPlaced' /\ AliasOwned' /\ AliasListed'
  <1>1. /\ nodes \in Seq(Objs) /\ found \in Seq(Objs) /\ nodes' = nodes \o found
        /\ DOMAIN found = 1 .. Len(found) /\ Len(found) \in Nat
    BY DEF ClusterInv, TendTypeOK, AddFound
  <1>2. NodesPlaced'
    BY DEF AliasInv, NodesPlaced
  <1>3. ASSUME NEW a \in Addrs
        PROVE  \/ aliases'[a] = aliases[a]
               \/ \E i \in DOMAIN found : aliases'[a] = found[i] /\ a \in node[found[i]].aliases
    <2> DEFINE having == {i \in DOMAIN found : a \in node[found[i]].aliases}
    <2>1. aliases'[a] = IF having = {} THEN aliases[a] ELSE found[Max(having)]
      BY DEF AddFound
    <2>2. having # {} => Max(having) \in having
      <3>1. having \subseteq 1 .. Len(found)
        BY <1>1
      <3> HIDE DEF having
      <3> QED
        BY <1>1, <3>1, MaxOf
    <2>3. CASE having = {}
      BY <2>1, <2>3
    <2>4. CASE having # {}
      BY <2>1, <2>2, <2>4
    <2> QED
      BY <2>3, <2>4
  <1>4. DOMAIN aliases' = Addrs
    BY DEF AddFound
  <1>5. AliasOwned'
    BY <1>1, <1>3, <1>4 DEF ClusterInv, Live, AliasInv, AliasOwned
  <1>6. /\ \A i \in DOMAIN nodes : i \in DOMAIN nodes' /\ nodes'[i] = nodes[i]
        /\ \A j \in DOMAIN found : /\ Len(nodes) + j \in DOMAIN nodes'
                                   /\ nodes'[Len(nodes) + j] = found[j]
    BY <1>1, JoinedPlaces, Zenon
  <1>7. AliasListed'
    <2> SUFFICES ASSUME NEW a \in Addrs, SingleHomed(a), aliases'[a] # NoNode
                 PROVE  \E i \in DOMAIN nodes' : aliases'[a] = nodes'[i]
      BY DEF AliasListed, SingleHomed
    <2>1. \/ \E i \in DOMAIN nodes : aliases'[a] = nodes[i]
          \/ \E i \in DOMAIN found : aliases'[a] = found[i]
      BY <1>3 DEF AliasInv, AliasListed
    <2> QED
      BY <1>6, <2>1
  <1> QED
    BY <1>2, <1>5, <1>7

LEMMA AddAliasStep ==
  ASSUME ClusterInv, AliasInv, Seeded \/ AddNodes \/ Reseeded
  PROVE  AliasInv'
  <1>1. AddFound /\ UNCHANGED <<server, node, untried>>
    BY DEF Seeded, AddNodes, Reseeded, servers
  <1>2. NodesPlaced' /\ AliasOwned' /\ AliasListed'
    BY <1>1, AddFoundAliases
  <1>3. ServersPlaced' /\ \A i \in DOMAIN untried' : Len(untried'[i]) = 1
    BY <1>1 DEF AliasInv, ServersPlaced
  <1>4. DoomedLive'
    <2>1. CASE Reseeded
      <3>1. doomed' \subseteq {nodes[1]} /\ tpc = "reseed"
        BY <2>1 DEF Reseeded
      <3>2. 1 \in DOMAIN nodes
        BY <3>1 DEF ClusterInv, FoundNew, TendTypeOK
      <3>3. nodes[1] \in Objs /\ node[nodes[1]] \in NodeRecords
        BY <3>2 DEF ClusterInv, TendTypeOK, Live
      <3> QED
        BY <1>1, <3>1, <3>3 DEF DoomedLive
    <2>2. CASE Seeded \/ AddNodes
      <3>1. tpc' # "removing"
        BY <2>2 DEF Seeded, AddNodes, Continue
      <3> QED
        BY <3>1 DEF DoomedLive
    <2> QED
      BY <2>1, <2>2
  <1> QED
    BY <1>2, <1>3, <1>4 DEF AliasInv

\* A node that is dropped because it has the name of a condemned one loses its aliases
\* as well, if its server has only one address.
LEMMA RemoveAliasStep ==
  ASSUME ClusterInv, AliasInv, RemoveNodes
  PROVE  AliasInv'
  <1>1. /\ tpc = "removing" /\ tpc' = "done" /\ CopyKept
        /\ UNCHANGED <<server, node, untried, found>>
        /\ aliases' = [a \in Addrs |->
             IF \E o \in doomed : a \in node[o].aliases THEN NoNode ELSE aliases[a]]
    BY DEF RemoveNodes, servers
  <1>2. /\ ServersPlaced' /\ NodesPlaced' /\ DoomedLive'
        /\ \A i \in DOMAIN untried' : Len(untried'[i]) = 1
    BY <1>1 DEF AliasInv, ServersPlaced, NodesPlaced, DoomedLive
  <1>3. DOMAIN aliases' = Addrs
    BY <1>1
  <1>4. \A a \in Addrs : aliases'[a] # NoNode =>
          aliases'[a] = aliases[a] /\ \A o \in doomed : a \notin node[o].aliases
    BY <1>1
  <1>5. AliasOwned'
    BY <1>1, <1>3, <1>4 DEF AliasInv, AliasOwned
  <1>6. AliasListed'
    <2> SUFFICES ASSUME NEW a \in Addrs, SingleHomed(a), aliases'[a] # NoNode
                 PROVE  \E i \in DOMAIN nodes' : aliases'[a] = nodes'[i]
      BY DEF AliasListed, SingleHomed
    <2> DEFINE o == aliases[a]
    <2>1. /\ aliases'[a] = o /\ o # NoNode /\ \A d \in doomed : a \notin node[d].aliases
          /\ o \in Objs /\ node[o] \in NodeRecords /\ a \in node[o].aliases
      BY <1>4 DEF AliasInv, AliasOwned
    <2>2. PICK i \in DOMAIN nodes : o = nodes[i]
      BY <1>1, <2>1 DEF AliasInv, AliasListed, ClusterInv, FoundNew
    <2> HIDE DEF o
    <2>3. ASSUME NEW d \in doomed PROVE node[nodes[i]].name # node[d].name
      <3> SUFFICES ASSUME node[o].name = node[d].name PROVE FALSE
        BY <2>2
      <3>1. d \in Objs /\ node[d] \in NodeRecords
        BY <1>1 DEF AliasInv, DoomedLive
      <3>2. PICK b \in node[d].aliases : node[d].name \in NamesAt[b]
        BY <3>1 DEF AliasInv, NodesPlaced
      <3>3. b \in Addrs /\ b # a
        BY <2>1, <3>1, <3>2 DEF NodeRecords
      <3>4. node[o].name \in NamesAt[a]
        BY <2>1 DEF AliasInv, NodesPlaced
      <3> QED
        BY <3>2, <3>3, <3>4 DEF SingleHomed
    <2> QED
      BY <1>1, <2>1, <2>2, <2>3, CopyKeptFacts
  <1> QED
    BY <1>2, <1>5, <1>6 DEF AliasInv

LEMMA InitAliasInv == Init => AliasInv
  <1> SUFFICES ASSUME Init PROVE AliasInv
    OBVIOUS
  <1>1. ServersPlaced /\ untried = << >>
    BY DEF Init, ServersPlaced
  <1>2. NodesPlaced
    BY NoNodeFacts DEF Init, NodesPlaced
  <1>3. AliasOwned /\ AliasListed /\ DoomedLive
    BY DEF Init, AliasOwned, AliasListed, DoomedLive
  <1> QED
    BY <1>1, <1>2, <1>3 DEF AliasInv

LEMMA NextAliasInv ==
  OneAddressSeeds /\ ClusterInv /\ ClusterInv' /\ AliasInv /\ [Next]_vars => AliasInv'
  <1> SUFFICES ASSUME OneAddressSeeds, ClusterInv, ClusterInv', AliasInv, [Next]_vars
               PROVE  AliasInv'
    OBVIOUS
  <1>1. CASE Tend
    <2>1. ASSUME NEW late \in BOOLEAN, TendReturns(late) PROVE AliasInv'
      BY <2>1, ReturnAliasStep
    <2>2. ASSUME NEW lost \in BOOLEAN,
                 TrySeed(lost) \/ RefreshFails(lost) \/ FetchFails(lost) \/ TryFriend(lost)
          PROVE  AliasInv'
      BY <2>2, TrySeedAliasStep, QuietAliasStep, TryFriendAliasStep
    <2> QED
      BY <1>1, <2>1, <2>2, QuietAliasStep, AddAliasStep, RemoveAliasStep DEF Tend
  <1>2. CASE Servers \/ Close \/ Call \/ UNCHANGED vars
    BY <1>2, OutsideAliasStep
  <1> QED
    BY <1>1, <1>2 DEF Next

\* When each seed is one address, the alias map never keeps an address of a node that has
\* left the list between two tends, for servers that have one address: what add_friends
\* takes for a known node is one.  (A seed of several addresses breaks it: a node found as
\* a friend at one of them and failing alone is found again by the seed with all of them;
\* both are removed by name, the aliases of the first only, and the others stay.)
THEOREM ClusterAliasesKnown ==
  ASSUME OneAddressSeeds
  PROVE  Spec => []AliasesKnown
  <1>1. ClusterInv /\ AliasInv => AliasesKnown
    <2> SUFFICES ASSUME ClusterInv, AliasInv, tpc = "poll", NEW a \in Addrs,
                        SingleHomed(a), aliases[a] # NoNode
                 PROVE  aliases[a] \in Range(nodes)
      BY DEF AliasesKnown
    <2>1. found = << >>
      BY DEF ClusterInv, FoundNew
    <2>2. PICK i \in DOMAIN nodes : aliases[a] = nodes[i]
      BY <2>1 DEF AliasInv, AliasListed
    <2> QED
      BY <2>2 DEF Range
  <1>2. ClusterInv /\ ClusterInv' /\ AliasInv /\ [Next]_vars => AliasInv'
    BY NextAliasInv
  <1> QED
    BY <1>1, <1>2, ClusterInvariant, InitAliasInv, PTL DEF Spec
-----------------------------------------------------------------------------
(* The random choice of a node.  The tickets of a caller that is alone with   *)
(* the counter are consecutive numbers, and as many of them as there are      *)
(* nodes fall on every node.                                                  *)

\* The place of the k-th ticket of a caller that was alone since its first.
Passed(c, k) == ((nodeIndex - tries[c] + k) % Len(snapshot[c])) + 1

CallersTypeOK ==
  /\ nodeIndex \in Nat /\ tries \in [Callers -> Nat] /\ snapshot \in [Callers -> Seq(Objs)]
  /\ cpc \in [Callers -> {"ready", "probe", "no_node"}] /\ alone \in [Callers -> BOOLEAN]

\* The nodes a caller has are not gone, though they may have left the list.
HeldLive == \A c \in Callers : Live(snapshot[c])

Turns ==
  \A c \in Callers : /\ cpc[c] = "probe" => tries[c] < Len(snapshot[c])
                     /\ cpc[c] = "no_node" => tries[c] = Len(snapshot[c]) /\ tries[c] > 0

\* All nodes its tickets have fallen on are inactive.
Tickets(c) ==
  /\ tries[c] <= nodeIndex
  /\ \A k \in 1 .. tries[c] : node[snapshot[c][Passed(c, k)]].active = FALSE

RandomInv ==
  /\ CallersTypeOK /\ HeldLive /\ Turns
  /\ \A c \in Callers : cpc[c] # "ready" /\ alone[c] = TRUE => Tickets(c)

\* A number is determined by quotient and remainder.
LEMMA Remainder ==
  ASSUME NEW n \in Nat \ {0}, NEW q \in Nat, NEW r \in 0 .. n - 1
  PROVE  (n * q + r) % n = r
  <1> DEFINE x == n * q + r
             d == x \div n
             e == x % n
  <1>1. x \in Nat /\ d \in Int /\ e \in 0 .. n - 1 /\ x = n * d + e
    OBVIOUS
  <1>2. n * q + r = n * d + e
    BY <1>1
  <1> HIDE DEF x, d, e
  <1>3. ~(q < d)
    <2> SUFFICES ASSUME q < d PROVE FALSE
      OBVIOUS
    <2>1. n * (q + 1) <= n * d
      BY <1>1
    <2>2. n * (q + 1) = n * q + n
      OBVIOUS
    <2> QED
      BY <1>1, <1>2, <2>1, <2>2
  <1>4. ~(d < q)
    <2> SUFFICES ASSUME d < q PROVE FALSE
      OBVIOUS
    <2>1. n * (d + 1) <= n * q
      BY <1>1
    <2>2. n * (d + 1) = n * d + n
      BY <1>1
    <2> QED
      BY <1>1, <1>2, <2>1, <2>2
  <1>5. d = q
    BY <1>1, <1>3, <1>4
  <1>6. e = r
    BY <1>1, <1>2, <1>5
  <1> QED
    BY <1>6 DEF e, x

\* Among n consecutive numbers every remainder occurs.
LEMMA AllRemainders ==
  ASSUME NEW n \in Nat \ {0}, NEW m \in Nat, NEW r \in 0 .. n - 1
  PROVE  \E k \in 1 .. n : (m + k) % n = r
  <1> DEFINE q == m \div n
             s == m % n
  <1>1. q \in Nat /\ s \in 0 .. n - 1 /\ m = n * q + s
    OBVIOUS
  <1> HIDE DEF q, s
  <1>2. CASE s < r
    <2>1. r - s \in 1 .. n /\ m + (r - s) = n * q + r
      BY <1>1, <1>2
    <2>2. (n * q + r) % n = r
      BY <1>1, Remainder
    <2> QED
      BY <2>1, <2>2
  <1>3. CASE ~(s < r)
    <2>1. r - s + n \in 1 .. n
      BY <1>1, <1>3
    <2>2. n * (q + 1) = n * q + n /\ q + 1 \in Nat
      BY <1>1
    <2>3. m + (r - s + n) = n * (q + 1) + r
      BY <1>1, <2>2
    <2>4. (n * (q + 1) + r) % n = r
      BY <2>2, Remainder
    <2> QED
      BY <2>1, <2>3, <2>4
  <1> QED
    BY <1>2, <1>3

\* A ticket falls on a place of the list.
LEMMA PassedPlace ==
  ASSUME CallersTypeOK, Turns, NEW c \in Callers, cpc[c] # "ready",
         tries[c] <= nodeIndex, NEW k \in 1 .. tries[c] + 1
  PROVE  Passed(c, k) \in DOMAIN snapshot[c]
  <1> DEFINE n == Len(snapshot[c])
             m == nodeIndex - tries[c] + k
  <1>1. n \in Nat \ {0} /\ m \in Nat /\ DOMAIN snapshot[c] = 1 .. n
    BY DEF CallersTypeOK, Turns
  <1>2. Passed(c, k) = (m % n) + 1
    BY DEF Passed
  <1> HIDE DEF n, m
  <1>3. m % n \in 0 .. n - 1
    BY <1>1
  <1> QED
    BY <1>1, <1>2, <1>3

\* What RandomInv is for.
LEMMA RandomInvEnough == RandomInv => RandomFindsActive
  <1> SUFFICES ASSUME RandomInv, NEW c \in Callers, cpc[c] = "no_node", alone[c],
                      NEW o \in Range(snapshot[c])
               PROVE  ~node[o].active
    BY DEF RandomFindsActive
  <1> DEFINE n == Len(snapshot[c])
             m == nodeIndex - tries[c]
  <1>1. snapshot[c] \in Seq(Objs) /\ n \in Nat \ {0} /\ tries[c] = n /\ nodeIndex \in Nat
    BY DEF RandomInv, CallersTypeOK, Turns
  <1>2. alone[c] = TRUE
    BY Zenon DEF RandomInv, CallersTypeOK
  <1>3. Tickets(c)
    BY <1>2 DEF RandomInv
  <1>4. m \in Nat
    BY <1>1, <1>3 DEF Tickets
  <1>5. PICK i \in 1 .. n : o = snapshot[c][i]
    BY <1>1 DEF Range
  <1>6. i - 1 \in 0 .. n - 1
    BY <1>1, <1>5
  <1>7. PICK k \in 1 .. n : (m + k) % n = i - 1
    <2>1. \A r \in 0 .. n - 1 : \E k \in 1 .. n : (m + k) % n = r
      <3> HIDE DEF n, m
      <3> QED
        BY <1>1, <1>4, AllRemainders
    <2> QED
      BY <1>6, <2>1
  <1>8. Passed(c, k) = i
    <2>1. Passed(c, k) = ((m + k) % n) + 1
      BY DEF Passed
    <2> HIDE DEF n, m
    <2> QED
      BY <1>1, <1>5, <1>7, <2>1
  <1>9. node[o].active = FALSE
    BY <1>1, <1>3, <1>5, <1>7, <1>8 DEF Tickets
  <1> QED
    BY <1>9

\* An object that has a node is not taken for a new one.
LEMMA CreateKeeps ==
  ASSUME ClusterInv, NEW name, NEW addrs, Create(name, addrs),
         NEW o \in Objs, node[o] \in NodeRecords
  PROVE  node'[o] = node[o]
  <1> DEFINE free == {p \in Objs : node[p] = NoNode}
             new  == CHOOSE p \in free : TRUE
  <1>1. free # {} /\ node' = [node EXCEPT ![new] = NewNode(name, addrs)]
    BY DEF Create
  <1>2. node[new] = NoNode
    <2>1. new \in free
      <3> HIDE DEF free
      <3> QED
        BY <1>1
    <2> QED
      BY <2>1
  <1> HIDE DEF new, free
  <1>3. o # new
    BY <1>2, NoNodeFacts
  <1> QED
    BY <1>1, <1>3 DEF ClusterInv, TendTypeOK

\* add_alias leaves alone whether a node is active.
LEMMA AliasKeeps ==
  ASSUME ClusterInv, NEW a \in Addrs, NEW p, Alias(a, p), NEW o \in Objs, node[o] \in NodeRecords
  PROVE  node'[o] \in NodeRecords /\ node'[o].active = node[o].active
  <1>1. node \in [Objs -> NodeRecords \cup {NoNode}]
    BY DEF ClusterInv, TendTypeOK
  <1>2. node' = [node EXCEPT ![p].aliases = @ \cup {a}, ![p].refs = @ + 1]
    BY DEF Alias
  <1>3. CASE o # p
    <2>1. node'[o] = node[o]
      BY <1>1, <1>2, <1>3
    <2> QED
      BY <2>1
  <1>4. CASE o = p
    <2>1. node'[o] = [node[o] EXCEPT !.aliases = @ \cup {a}, !.refs = @ + 1]
      BY <1>1, <1>2, <1>4
    <2>2. node'[o] \in NodeRecords
      BY <2>1, AliasedType, Zenon
    <2>3. node'[o].active = node[o].active
      BY <2>1, Zenon DEF NodeRecords
    <2> QED
      BY <2>2, <2>3
  <1> QED
    BY <1>3, <1>4

\* No refresh makes an inactive node active.
LEMMA RefreshInactive ==
  ASSUME ClusterInv, ClusterInv', NEW lost \in BOOLEAN, RefreshFails(lost) \/ Refresh,
         NEW o \in Objs, node[o] \in NodeRecords, node[o].active = FALSE
  PROVE  node'[o] = node[o]
  <1> DEFINE h == Head(pending)
  <1>1. tpc = "refresh" /\ node[h].active
    BY DEF RefreshFails, Refresh
  <1>2. h \in Objs /\ node[h] \in NodeRecords
    BY <1>1, TailKnown
  <1>3. o # h
    BY <1>1
  <1>4. node \in [Objs -> NodeRecords \cup {NoNode}]
    BY DEF ClusterInv, TendTypeOK
  <1>5. CASE RefreshFails(lost)
    BY <1>2, <1>3, <1>4, <1>5 DEF RefreshFails
  <1>6. CASE Refresh
    BY <1>2, <1>3, <1>4, <1>6 DEF Refresh
  <1> QED
    BY <1>5, <1>6

\* Nodes that a caller holds are not gone after a step of the tending, and those that were
\* inactive are.
LEMMA HeldKept ==
  ASSUME ClusterInv, ClusterInv', Tend, NEW o \in Held, o \in Objs, node[o] \in NodeRecords
  PROVE  /\ node'[o] \in NodeRecords
         /\ node[o].active = FALSE => node'[o].active = FALSE
  <1>1. CASE StartTend \/ Seeded \/ SkipInactive \/ FetchPartitions \/ AddNodes
               \/ (\E lost \in BOOLEAN : FetchFails(lost))
               \/ FindNodesToRemove \/ Reseeded \/ RemoveNodes
    <2>1. node' = node
      BY <1>1 DEF StartTend, Seeded, SkipInactive, FetchPartitions, FetchFails, AddNodes,
                  FindNodesToRemove, Reseeded, RemoveNodes, cluster
    <2> QED
      BY <2>1
  <1>2. CASE (\E lost \in BOOLEAN : RefreshFails(lost)) \/ Refresh
    BY <1>2, RefreshKeeps, RefreshInactive
  <1>3. CASE \E lost \in BOOLEAN : TrySeed(lost)
    <2>1. CASE UNCHANGED node
      BY <2>1
    <2>2. CASE ~UNCHANGED node
      <3>1. PICK name, addrs : Create(name, addrs)
        BY <1>3, <2>2 DEF TrySeed
      <3> QED
        BY <3>1, CreateKeeps
    <2> QED
      BY <2>1, <2>2
  <1>4. CASE \E lost \in BOOLEAN : TryFriend(lost)
    <2>1. CASE UNCHANGED node
      BY <2>1
    <2>2. CASE \E name, addrs : Create(name, addrs)
      BY <2>2, CreateKeeps
    <2>3. CASE \E a \in Addrs : \E p : Alias(a, p)
      BY <2>3, AliasKeeps, Zenon
    <2>4. Head(friends) \in Addrs
      BY <1>4, HeadTailProperties DEF TryFriend, ClusterInv, TendTypeOK
    <2> QED
      BY <1>4, <2>1, <2>2, <2>3, <2>4 DEF TryFriend
  <1>5. ASSUME NEW late \in BOOLEAN, TendReturns(late)
        PROVE  node'[o] = node[o]
    <2>1. node' = Collect(node, Roots) /\ o \in Roots
      BY <1>5 DEF TendReturns, Roots
    <2> QED
      BY <2>1 DEF Collect
  <1> QED
    BY <1>1, <1>2, <1>3, <1>4, <1>5 DEF Tend

\* A step that keeps the callers, and of the nodes they hold that they are there and inactive.
LEMMA CallersKept ==
  ASSUME RandomInv, UNCHANGED callers,
         \A o \in Held : o \in Objs /\ node[o] \in NodeRecords =>
           /\ node'[o] \in NodeRecords
           /\ node[o].active = FALSE => node'[o].active = FALSE
  PROVE  RandomInv'
  <1>1. UNCHANGED <<nodeIndex, cpc, snapshot, tries, alone>>
    BY DEF callers
  <1>2. CallersTypeOK' /\ Turns'
    BY <1>1 DEF RandomInv, CallersTypeOK, Turns
  <1>3. \A c \in Callers : \A i \in DOMAIN snapshot[c] :
          snapshot[c][i] \in Held /\ snapshot[c][i] \in Objs /\ node[snapshot[c][i]] \in NodeRecords
    BY DEF RandomInv, CallersTypeOK, HeldLive, Live, Held, Range
  <1>4. HeldLive'
    BY <1>1, <1>3 DEF HeldLive, Live
  <1>5. ASSUME NEW c \in Callers, cpc[c] # "ready", alone[c] = TRUE
        PROVE  Tickets(c)'
    <2>1. Tickets(c)
      BY <1>5 DEF RandomInv
    <2>2. \A k \in 1 .. tries[c] : Passed(c, k) \in DOMAIN snapshot[c]
      <3> SUFFICES ASSUME NEW k \in 1 .. tries[c] PROVE Passed(c, k) \in DOMAIN snapshot[c]
        OBVIOUS
      <3>1. tries[c] \in Nat /\ CallersTypeOK /\ Turns
        BY DEF RandomInv, CallersTypeOK
      <3>2. k \in 1 .. tries[c] + 1 /\ tries[c] <= nodeIndex
        BY <2>1, <3>1 DEF Tickets
      <3> QED
        BY <1>5, <3>1, <3>2, PassedPlace
    <2>3. \A k : Passed(c, k)' = Passed(c, k)
      BY <1>1 DEF Passed
    <2> QED
      BY <1>1, <1>3, <2>1, <2>2, <2>3 DEF Tickets
  <1> QED
    BY <1>1, <1>2, <1>4, <1>5 DEF RandomInv

\* A step of one caller, as the others see it: when it moves the index, those in the
\* middle of a choice are no longer alone.
LEMMA OneCaller ==
  ASSUME RandomInv, UNCHANGED node, NEW c \in Callers, CallersTypeOK',
         \A d \in Callers \ {c} :
           /\ cpc'[d] = cpc[d] /\ snapshot'[d] = snapshot[d] /\ tries'[d] = tries[d]
           /\ cpc[d] # "ready" /\ alone'[d] = TRUE => alone[d] = TRUE /\ nodeIndex' = nodeIndex,
         Live(snapshot'[c]),
         cpc'[c] = "probe" => tries'[c] < Len(snapshot'[c]),
         cpc'[c] = "no_node" => tries'[c] = Len(snapshot'[c]) /\ tries'[c] > 0,
         cpc'[c] # "ready" /\ alone'[c] = TRUE => Tickets(c)'
  PROVE  RandomInv'
  <1>1. HeldLive'
    BY DEF RandomInv, HeldLive, Live
  <1>2. Turns'
    BY DEF RandomInv, Turns
  <1>3. ASSUME NEW d \in Callers, d # c, cpc'[d] # "ready", alone'[d] = TRUE
        PROVE  Tickets(d)'
    <2>1. Tickets(d) /\ tries'[d] = tries[d] /\ nodeIndex' = nodeIndex /\ snapshot'[d] = snapshot[d]
      BY <1>3 DEF RandomInv
    <2> QED
      BY <2>1 DEF Tickets, Passed
  <1> QED
    BY <1>1, <1>2, <1>3 DEF RandomInv

LEMMA StartRandomStep ==
  ASSUME ClusterInv, RandomInv, NEW c \in Callers, StartRandom(c)
  PROVE  RandomInv'
  <1>1. /\ nodes # << >> /\ snapshot' = [snapshot EXCEPT ![c] = nodes]
        /\ tries' = [tries EXCEPT ![c] = 0] /\ alone' = [alone EXCEPT ![c] = TRUE]
        /\ cpc' = [cpc EXCEPT ![c] = "probe"] /\ UNCHANGED <<node, nodeIndex>>
    BY DEF StartRandom, cluster
  <1>2. nodes \in Seq(Objs) /\ Live(nodes) /\ CallersTypeOK
    BY DEF ClusterInv, TendTypeOK, RandomInv
  <1>3. CallersTypeOK'
    <2>1. alone' \in [Callers -> BOOLEAN]
      BY <1>1, <1>2, Zenon DEF CallersTypeOK
    <2> QED
      BY <1>1, <1>2, <2>1 DEF CallersTypeOK
  <1>4. snapshot'[c] = nodes /\ tries'[c] = 0 /\ cpc'[c] = "probe" /\ Len(nodes) > 0
    BY <1>1, <1>2 DEF CallersTypeOK
  <1>5. \A d \in Callers \ {c} : /\ cpc'[d] = cpc[d] /\ snapshot'[d] = snapshot[d]
                                 /\ tries'[d] = tries[d] /\ alone'[d] = alone[d]
    BY <1>1, <1>2 DEF CallersTypeOK
  <1>6. Tickets(c)'
    BY <1>1, <1>2, <1>4 DEF Tickets, CallersTypeOK
  <1> QED
    BY <1>1, <1>2, <1>3, <1>4, <1>5, <1>6, OneCaller

\* Returning from get_random_node, with a node or without one.
LEMMA ChoiceEnds ==
  ASSUME RandomInv, NEW c \in Callers, ProbeActive(c) \/ NoActiveNode(c)
  PROVE  RandomInv'
  <1>1. /\ cpc' = [cpc EXCEPT ![c] = "ready"] /\ snapshot' = [snapshot EXCEPT ![c] = << >>]
        /\ tries' = [tries EXCEPT ![c] = 0] /\ UNCHANGED node
        /\ nodeIndex' = nodeIndex \/ nodeIndex' = nodeIndex + 1
    BY DEF ProbeActive, NoActiveNode, Draw, cluster
  <1>2. CallersTypeOK
    BY DEF RandomInv
  <1>3. /\ alone' \in [Callers -> BOOLEAN]
        /\ \A d \in Callers \ {c} :
             cpc[d] # "ready" /\ alone'[d] = TRUE => alone[d] = TRUE /\ nodeIndex' = nodeIndex
    <2>1. CASE ProbeActive(c)
      <3>1. alone' = [d \in Callers |-> d = c \/ cpc[d] = "ready"]
        BY <2>1 DEF ProbeActive
      <3>2. alone' \in [Callers -> BOOLEAN]
        BY <3>1, Zenon
      <3>3. \A d \in Callers \ {c} : cpc[d] # "ready" => alone'[d] = FALSE
        BY <3>1
      <3> QED
        BY <3>2, <3>3
    <2>2. CASE NoActiveNode(c)
      <3>1. alone' = [alone EXCEPT ![c] = TRUE] /\ nodeIndex' = nodeIndex
        BY <2>2 DEF NoActiveNode
      <3>2. alone' \in [Callers -> BOOLEAN]
        BY <1>2, <3>1, Zenon DEF CallersTypeOK
      <3>3. \A d \in Callers \ {c} : alone'[d] = alone[d]
        BY <1>2, <3>1, Zenon DEF CallersTypeOK
      <3> QED
        BY <3>1, <3>2, <3>3
    <2> QED
      BY <2>1, <2>2
  <1>4. CallersTypeOK'
    BY <1>1, <1>2, <1>3 DEF CallersTypeOK
  <1>5. snapshot'[c] = << >> /\ cpc'[c] = "ready"
    BY <1>1, <1>2 DEF CallersTypeOK
  <1>6. \A d \in Callers \ {c} : /\ cpc'[d] = cpc[d] /\ snapshot'[d] = snapshot[d]
                                 /\ tries'[d] = tries[d]
    BY <1>1, <1>2 DEF CallersTypeOK
  <1>7. Live(snapshot'[c])
    BY <1>5 DEF Live
  <1> QED
    BY <1>1, <1>3, <1>4, <1>5, <1>6, <1>7, OneCaller

\* One more ticket that falls on an inactive node.
LEMMA ProbeInactiveStep ==
  ASSUME RandomInv, NEW c \in Callers, ProbeInactive(c)
  PROVE  RandomInv'
  <1> DEFINE n == Len(snapshot[c])
  <1>1. /\ cpc[c] = "probe" /\ ~node[Ticket(c)].active
        /\ cpc' = [cpc EXCEPT ![c] = IF tries[c] + 1 = n THEN "no_node" ELSE @]
        /\ tries' = [tries EXCEPT ![c] = @ + 1] /\ UNCHANGED <<node, snapshot>>
        /\ alone' = [d \in Callers |-> IF d = c THEN alone[d] ELSE cpc[d] = "ready"]
        /\ nodeIndex' = nodeIndex + 1
    BY DEF ProbeInactive, Draw, cluster
  <1>2. CallersTypeOK /\ Turns /\ n \in Nat /\ tries[c] \in Nat /\ tries[c] < n
    BY <1>1 DEF RandomInv, CallersTypeOK, Turns
  <1>3. alone' \in [Callers -> BOOLEAN] /\ alone'[c] = alone[c]
    BY <1>1, <1>2, Zenon DEF CallersTypeOK
  <1>4. \A d \in Callers \ {c} : cpc[d] # "ready" => alone'[d] = FALSE
    BY <1>1
  <1>5. tries'[c] = tries[c] + 1 /\ cpc'[c] = IF tries[c] + 1 = n THEN "no_node" ELSE "probe"
    BY <1>1, <1>2 DEF CallersTypeOK
  <1>6. \A d \in Callers \ {c} : cpc'[d] = cpc[d] /\ tries'[d] = tries[d]
    BY <1>1, <1>2 DEF CallersTypeOK
  <1>7. CallersTypeOK'
    BY <1>1, <1>2, <1>3 DEF CallersTypeOK
  <1>8. ASSUME alone[c] = TRUE PROVE Tickets(c)'
    <2>1. Tickets(c)
      BY <1>1, <1>8 DEF RandomInv
    <2>2. nodeIndex' - tries'[c] = nodeIndex - tries[c] /\ nodeIndex \in Nat
      BY <1>1, <1>2, <1>5 DEF CallersTypeOK
    <2>3. \A k \in Nat : Passed(c, k)' = Passed(c, k)
      BY <1>1, <2>2 DEF Passed
    <2>4. snapshot[c][Passed(c, tries[c] + 1)] = Ticket(c)
      <3>1. nodeIndex - tries[c] + (tries[c] + 1) = nodeIndex + 1
        BY <1>2, <2>2
      <3> QED
        BY <3>1 DEF Passed, Ticket
    <2>5. node[Ticket(c)].active = FALSE
      <3>1. tries[c] + 1 \in 1 .. tries[c] + 1 /\ tries[c] <= nodeIndex
        BY <1>2, <2>1 DEF Tickets
      <3>2. Passed(c, tries[c] + 1) \in DOMAIN snapshot[c]
        BY <1>1, <1>2, <3>1, PassedPlace
      <3>3. node[Ticket(c)] \in NodeRecords
        BY <2>4, <3>2 DEF RandomInv, HeldLive, Live
      <3> QED
        BY <1>1, <3>3, Zenon DEF NodeRecords
    <2>6. ASSUME NEW k \in 1 .. tries[c] + 1
          PROVE  node[snapshot[c][Passed(c, k)]].active = FALSE
      <3>1. k \in 1 .. tries[c] \/ k = tries[c] + 1
        BY <1>2
      <3> QED
        BY <2>1, <2>4, <2>5, <3>1 DEF Tickets
    <2>7. tries'[c] <= nodeIndex'
      BY <1>1, <1>2, <1>5, <2>1, <2>2 DEF Tickets
    <2>8. ASSUME NEW k \in 1 .. tries'[c]
          PROVE  node'[snapshot'[c][Passed(c, k)']].active = FALSE
      <3>1. k \in 1 .. tries[c] + 1 /\ k \in Nat
        BY <1>2, <1>5
      <3>2. Passed(c, k)' = Passed(c, k)
        BY <2>3, <3>1
      <3>3. node[snapshot[c][Passed(c, k)]].active = FALSE
        BY <2>6, <3>1
      <3> QED
        BY <1>1, <3>2, <3>3
    <2> QED
      BY <2>7, <2>8 DEF Tickets
  <1>9. Live(snapshot'[c])
    BY <1>1 DEF RandomInv, HeldLive
  <1>10. \A d \in Callers \ {c} :
           /\ cpc'[d] = cpc[d] /\ snapshot'[d] = snapshot[d] /\ tries'[d] = tries[d]
           /\ cpc[d] # "ready" /\ alone'[d] = TRUE => alone[d] = TRUE /\ nodeIndex' = nodeIndex
    BY <1>1, <1>4, <1>6
  <1>11. /\ cpc'[c] = "probe" => tries'[c] < Len(snapshot'[c])
         /\ cpc'[c] = "no_node" => tries'[c] = Len(snapshot'[c]) /\ tries'[c] > 0
    BY <1>1, <1>2, <1>5
  <1>12. cpc'[c] # "ready" /\ alone'[c] = TRUE => Tickets(c)'
    BY <1>3, <1>8
  <1>13. UNCHANGED node
    BY <1>1
  <1> QED
    BY <1>7, <1>9, <1>10, <1>11, <1>12, <1>13, OneCaller

LEMMA InitRandomInv == Init => RandomInv
  <1> SUFFICES ASSUME Init PROVE RandomInv
    OBVIOUS
  <1>1. /\ nodeIndex = 0 /\ cpc = [c \in Callers |-> "ready"]
        /\ snapshot = [c \in Callers |-> << >>]
        /\ tries = [c \in Callers |-> 0] /\ alone = [c \in Callers |-> TRUE]
    BY DEF Init
  <1>2. alone \in [Callers -> BOOLEAN]
    BY <1>1, Zenon
  <1>3. CallersTypeOK
    BY <1>1, <1>2 DEF CallersTypeOK
  <1> QED
    BY <1>1, <1>3 DEF RandomInv, HeldLive, Live, Turns

LEMMA NextRandomInv ==
  ClusterInv /\ ClusterInv' /\ RandomInv /\ [Next]_vars => RandomInv'
  <1> SUFFICES ASSUME ClusterInv, ClusterInv', RandomInv, [Next]_vars PROVE RandomInv'
    OBVIOUS
  <1>1. CASE Tend
    <2>1. UNCHANGED callers
      BY <1>1 DEF Tend, StartTend, TrySeed, Seeded, SkipInactive, RefreshFails, Refresh,
                  FetchPartitions, FetchFails, TryFriend, AddNodes, FindNodesToRemove, Reseeded,
                  RemoveNodes, TendReturns
    <2> QED
      BY <1>1, <2>1, HeldKept, CallersKept
  <1>2. CASE Servers \/ Close \/ UNCHANGED vars
    <2>1. UNCHANGED <<callers, node>>
      BY <1>2 DEF Servers, ServerFails, ServerStarts, MembershipSettles, Rebalance, MayChange,
                  Close, vars, callers, cluster
    <2> QED
      BY <2>1, CallersKept
  <1>3. CASE Call
    BY <1>3, StartRandomStep, ChoiceEnds, ProbeInactiveStep DEF Call
  <1> QED
    BY <1>1, <1>2, <1>3 DEF Next

\* get_random_node called by one thread at a time says that there is no active node only
\* when no node of the list it took is active, for any list, although nodes are found,
\* fail and leave the list meanwhile: its turns cover the list from wherever they start.
THEOREM ClusterRandomFindsActive == Spec => []RandomFindsActive
  <1>1. Spec => []RandomInv
    BY ClusterInvariant, InitRandomInv, NextRandomInv, PTL DEF Spec
  <1> QED
    BY <1>1, RandomInvEnough, PTL
==============================================================================
