------------------------------- MODULE Cluster -------------------------------
(***************************************************************************)
(* The client's view of the cluster (cluster/mod.rs, cluster/node.rs): the *)
(* tend thread that refreshes every known node, discovers their peers,     *)
(* keeps the partition map and drops the nodes that have gone, and the     *)
(* callers that pick a node for a request while it does so.                *)
(*                                                                         *)
(* A Node is shared by reference (Arc<Node>) between the node list, the    *)
(* alias map, the partition map and the callers, and two Node objects of   *)
(* the same name can exist at once, so nodes are identities here and       *)
(* node[o] is what o holds.  Only the tend thread changes the cluster; a   *)
(* step of it is an exchange with one server or an update of one of the    *)
(* lock-protected maps, and servers change between its steps.              *)
(***************************************************************************)
EXTENDS Integers, Sequences, FiniteSets, SequencesExt

CONSTANTS
  Addrs,             \* the IP addresses servers listen on
  Names,             \* names of servers
  NamesAt,           \* NamesAt[a]: the servers that may answer at address a
  Seeds,             \* the seed hosts, each the sequence of addresses it resolves to
  Partitions,        \* partition ids of one namespace
  Objs,              \* identities of Node objects
  Callers,           \* threads that call get_random_node
  MaxChanges,        \* how often the servers change or an exchange with one is lost
  MaxIndex,          \* the largest value of node_index (isize::MAX in the code)
  FailIfNotConnected,\* ClientPolicy.fail_if_not_connected
  MayClose,          \* whether the application ever closes the client
  NoNode, Down       \* no Node object; nothing answers at an address

MaxFailures == 6     \* the code only asks for 0, > 0 and > 5 failures

ASSUME ClusterAssumption ==
  /\ IsFiniteSet(Addrs) /\ IsFiniteSet(Names) /\ IsFiniteSet(Partitions)
  /\ MaxChanges \in Nat /\ MaxIndex \in Nat
  /\ FailIfNotConnected \in BOOLEAN /\ MayClose \in BOOLEAN
  /\ \A a \in Addrs : NamesAt[a] # {} /\ NamesAt[a] \subseteq Names
  /\ Seeds \in Seq(Seq(Addrs) \ {<< >>})
  /\ NoNode \notin Objs /\ Down \notin Names

\* The fields of a Node that the tending reads or writes.
NodeRecords ==
  [name : Names, addr : Addrs, aliases : SUBSET Addrs, failures : 0 .. MaxFailures,
   gen : Nat \cup {-1}, refs : Nat, active : BOOLEAN]

ASSUME NoNodeAssumption == NoNode \notin NodeRecords

VARIABLES
  server,      \* server[a]: the server that answers at a, or Down
  listed,      \* the addresses servers give out as "services"
  owner,       \* owner[p]: the server that is master of partition p
  generation,  \* generation[n]: partition-generation of server n
  changes,     \* how often that has happened
  node,        \* node[o]: the fields of Node object o, or NoNode
  nodes,       \* Cluster.nodes
  aliases,     \* Cluster.aliases
  pmap,        \* Cluster.partition_write_map
  closed,      \* Cluster.closed
  senders,     \* live Sender ends of the tend channel
  phase,       \* "starting" (wait_till_stabilized), "running" or "failed"
  count,       \* the node count wait_till_stabilized has seen last
  tpc,         \* where the tending thread is
  pending,     \* nodes this tend has still to refresh
  refreshCount,\* refresh_count of this tend
  friends,     \* friend_list of this tend
  untried,     \* seeds that seed_nodes has still to try
  found,       \* the list of seed_nodes or find_new_nodes_to_add
  doomed,      \* remove_list of this tend
  fetchFailed, \* some update_partitions has failed, or another server has answered it
  nodeIndex,   \* Cluster.node_index
  cpc, snapshot, tries, alone  \* get_random_node of each caller

world   == <<server, listed, owner, generation>>
servers == <<server, listed, owner, generation, changes>>
cluster == <<node, nodes, aliases, pmap>>
tending == <<tpc, pending, refreshCount, friends, untried, found, doomed, fetchFailed>>
client  == <<closed, senders, phase, count>>
callers == <<nodeIndex, cpc, snapshot, tries, alone>>
vars == <<server, listed, owner, generation, changes, node, nodes, aliases, pmap,
          closed, senders, phase, count, tpc, pending, refreshCount, friends, untried,
          found, doomed, fetchFailed, nodeIndex, cpc, snapshot, tries, alone>>

Up == {a \in Addrs : server[a] # Down}
UpNames == {server[a] : a \in Up}
Known == {node[o].name : o \in Range(nodes)}

Init ==
  /\ server \in [Addrs -> Names \cup {Down}]
  /\ \A a \in Addrs : server[a] \in NamesAt[a] \cup {Down}
  /\ listed = Up
  /\ owner \in [Partitions -> Names]
  /\ generation = [n \in Names |-> 0]
  /\ changes = 0
  /\ node = [o \in Objs |-> NoNode]
  /\ nodes = << >>
  /\ aliases = [a \in Addrs |-> NoNode]
  /\ pmap = [p \in Partitions |-> NoNode]
  /\ closed = FALSE /\ senders = 1 /\ phase = "starting" /\ count = -1
  /\ tpc = "poll" /\ pending = << >> /\ refreshCount = 0 /\ friends = << >>
  /\ untried = << >> /\ found = << >> /\ doomed = {} /\ fetchFailed = FALSE
  /\ nodeIndex = 0
  /\ cpc = [c \in Callers |-> "ready"] /\ snapshot = [c \in Callers |-> << >>]
  /\ tries = [c \in Callers |-> 0] /\ alone = [c \in Callers |-> TRUE]
-----------------------------------------------------------------------------
(* The servers (external) *)

MayChange == changes < MaxChanges /\ changes' = changes + 1
             /\ UNCHANGED <<cluster, tending, client, callers>>

ServerFails(a) ==
  /\ MayChange /\ server[a] # Down
  /\ server' = [server EXCEPT ![a] = Down]
  /\ UNCHANGED <<listed, owner, generation>>

\* A server starts at a, where nothing answers or another one has stopped just now.
ServerStarts(a, n) ==
  /\ MayChange /\ server[a] # n /\ n \in NamesAt[a]
  /\ server' = [server EXCEPT ![a] = n]
  /\ UNCHANGED <<listed, owner, generation>>

\* The servers agree on who is there.
MembershipSettles ==
  /\ MayChange /\ listed # Up
  /\ listed' = Up
  /\ UNCHANGED <<server, owner, generation>>

\* A server that is up becomes master of p.
Rebalance(p, n) ==
  /\ MayChange /\ n \in UpNames /\ owner[p] # n
  /\ owner' = [owner EXCEPT ![p] = n]
  /\ generation' = [generation EXCEPT ![n] = @ + 1, ![owner[p]] = @ + 1]
  /\ UNCHANGED <<server, listed>>

\* The client talks to server s.  The exchange may be lost although the server is
\* up: there is no connection left in the pool of the node, or a timeout.
Exchange(s, lost) ==
  /\ lost => s # Down /\ changes < MaxChanges
  /\ changes' = IF lost THEN changes + 1 ELSE changes
  /\ UNCHANGED world
-----------------------------------------------------------------------------
(* Nodes, seeds and friends *)

\* Node::new.
NewNode(name, addrs) ==
  [name |-> name, addr |-> addrs[1], aliases |-> Range(addrs), failures |-> 0,
   gen |-> -1, refs |-> 0, active |-> TRUE]

\* NodeValidator::validate_node: the name of the first of the addresses that
\* answers; Down when none does.
Validate(addrs) ==
  IF \E i \in DOMAIN addrs : server[addrs[i]] # Down
  THEN server[addrs[CHOOSE i \in DOMAIN addrs :
                      /\ server[addrs[i]] # Down
                      /\ \A j \in 1 .. i - 1 : server[addrs[j]] = Down]]
  ELSE Down

\* create_node and the push on the list.  The bound on the Node objects: one is free.
Create(name, addrs) ==
  LET free == {o \in Objs : node[o] = NoNode}
      o    == CHOOSE o \in free : TRUE IN
  /\ free # {}
  /\ node' = [node EXCEPT ![o] = NewNode(name, addrs)]
  /\ found' = Append(found, o)

\* add_nodes_and_aliases: the list joins the nodes, and the alias map has the last
\* node of it that has the address.
AddFound ==
  /\ nodes' = nodes \o found
  /\ aliases' = [a \in Addrs |->
       LET having == {i \in DOMAIN found : a \in node[found[i]].aliases} IN
       IF having = {} THEN aliases[a] ELSE found[Max(having)]]
  /\ found' = << >>

Named(list, name) == {o \in Range(list) : node[o].name = name}

\* add_alias.
Alias(a, o) ==
  /\ node' = [node EXCEPT ![o].aliases = @ \cup {a}, ![o].refs = @ + 1]
  /\ aliases' = [aliases EXCEPT ![a] = o]

\* Node objects nothing refers to any more are gone (their Arc count is zero).
Collect(nd, roots) == [o \in Objs |-> IF o \in roots THEN nd[o] ELSE NoNode]

Held == UNION {Range(snapshot[c]) : c \in Callers}
-----------------------------------------------------------------------------
(* Cluster::tend *)

Continue(rest) ==
  /\ pending' = rest
  /\ tpc' = IF rest = << >> THEN "add" ELSE "refresh"

StartTend_SeedAlways ==
  /\ tpc = "poll" /\ phase # "failed"
  /\ senders > 0
  /\ tpc' = "seed" /\ untried' = Seeds
  /\ refreshCount' = 0 /\ friends' = << >>
  /\ UNCHANGED <<servers, client, callers, cluster, pending, found, doomed,
                 fetchFailed>>

\* wait_till_stabilized or tend_thread starts a tend: it seeds the cluster when
\* there are no nodes.  tend_thread does so unless the channel has hung up.
StartTend ==
  /\ tpc = "poll" /\ phase # "failed"
  /\ senders > 0
  /\ IF nodes = << >>
     THEN tpc' = "seed" /\ untried' = Seeds /\ UNCHANGED pending
     ELSE Continue(nodes) /\ UNCHANGED untried
  /\ refreshCount' = 0 /\ friends' = << >>
  /\ UNCHANGED <<servers, client, callers, cluster, found, doomed, fetchFailed>>

\* The body of the loop of seed_nodes for one seed.  A seed with several addresses is
\* validated again for each of them; here once.  Its aliases, which are inserted here
\* and again at the end, and which only the tend reads, are inserted at the end.
TrySeed(lost) ==
  LET addrs == Head(untried)  name == IF lost THEN Down ELSE Validate(addrs) IN
  /\ tpc \in {"seed", "reseed"} /\ untried # << >>
  /\ Exchange(Validate(addrs), lost)
  /\ untried' = Tail(untried)
  /\ IF name = Down \/ Named(found, name) # {}
     THEN UNCHANGED <<node, found>>
     ELSE Create(name, addrs)
  /\ UNCHANGED <<client, callers, nodes, aliases, pmap, tpc, pending,
                 refreshCount, friends, doomed, fetchFailed>>

\* seed_nodes returns to tend, which goes on with the nodes it has added.
Seeded ==
  /\ tpc = "seed" /\ untried = << >>
  /\ AddFound
  /\ Continue(nodes')
  /\ UNCHANGED <<servers, client, callers, node, pmap, refreshCount, friends, untried,
                 doomed, fetchFailed>>

\* A node that has been found inactive is not refreshed.
SkipInactive ==
  /\ tpc = "refresh" /\ ~node[Head(pending)].active
  /\ Continue(Tail(pending))
  /\ UNCHANGED <<servers, client, callers, cluster, refreshCount, friends, untried,
                 found, doomed, fetchFailed>>

\* Node::refresh fails: the info command does, and the node stays active, or
\* another server answers, and the node is inactivated.
RefreshFails(lost) ==
  LET o == Head(pending)  s == server[node[o].addr] IN
  /\ tpc = "refresh" /\ node[o].active
  /\ Exchange(s, lost)
  /\ lost \/ s # node[o].name
  /\ node' = [node EXCEPT ![o].refs = 0,
                          ![o].failures = IF @ < MaxFailures THEN @ + 1 ELSE @,
                          ![o].active = (lost \/ s = Down)]
  /\ Continue(Tail(pending))
  /\ UNCHANGED <<client, callers, nodes, aliases, pmap, refreshCount, friends, untried,
                 found, doomed, fetchFailed>>


\* Node::refresh succeeds.  add_friends counts the peers that are known, and
\* returns the others; the generation the server reports is stored.
Refresh ==
  LET o     == Head(pending)
      s     == server[node[o].addr]
      peers == {a \in listed : server[a] # s}
      fresh == {a \in peers : aliases[a] = NoNode} IN
  /\ tpc = "refresh" /\ node[o].active
  /\ s = node[o].name
  /\ node' = [node EXCEPT ![o].refs = Cardinality(peers \ fresh), ![o].failures = 0,
                          ![o].gen = generation[s]]
  /\ refreshCount' = refreshCount + 1
  /\ friends' = friends \o SetToSeq(fresh)
  /\ IF node[o].gen # generation[s]
     THEN tpc' = "fetch" /\ UNCHANGED pending
     ELSE Continue(Tail(pending))
  /\ UNCHANGED <<servers, client, callers, nodes, aliases, pmap, untried, found,
                 doomed, fetchFailed>>

\* update_partition of the tokenizer: the partitions the server is master of are
\* taken over; the first map of a namespace gives all of them to the node.
Remap(o) ==
  IF \A p \in Partitions : pmap[p] = NoNode
  THEN [p \in Partitions |-> o]
  ELSE [p \in Partitions |-> IF owner[p] = server[node[o].addr] THEN o ELSE pmap[p]]

\* Cluster::update_partitions succeeds.
FetchPartitions ==
  LET o == Head(pending)  s == server[node[o].addr] IN
  /\ tpc = "fetch" /\ s # Down
  /\ pmap' = Remap(o)
  /\ fetchFailed' = (fetchFailed \/ s # node[o].name)
  /\ Continue(Tail(pending))
  /\ UNCHANGED <<servers, client, callers, node, nodes, aliases, refreshCount, friends,
                 untried, found, doomed>>

\* Cluster::update_partitions fails: the ? in tend abandons the whole tend.
FetchFails(lost) ==
  LET s == server[node[Head(pending)].addr] IN
  /\ tpc = "fetch"
  /\ Exchange(s, lost)
  /\ lost \/ s = Down
  /\ fetchFailed' = TRUE
  /\ tpc' = "done" /\ pending' = << >>
  /\ UNCHANGED <<client, callers, cluster, refreshCount, friends, untried,
                 found, doomed>>

\* The body of the loop of find_new_nodes_to_add for one host: a name that is
\* known, or on the list, gets another alias.
TryFriend(lost) ==
  LET a == Head(friends)  name == IF lost THEN Down ELSE Validate(<<a>>) IN
  /\ tpc = "add" /\ friends # << >>
  /\ Exchange(Validate(<<a>>), lost)
  /\ friends' = Tail(friends)
  /\ \/ /\ name = Down
        /\ UNCHANGED <<node, aliases, found>>
     \/ /\ name # Down
        /\ IF Named(nodes \o found, name) = {}
           THEN Create(name, <<a>>) /\ UNCHANGED aliases
           ELSE /\ Alias(a, CHOOSE o \in Named(nodes \o found, name) : TRUE)
                /\ UNCHANGED found
  /\ UNCHANGED <<client, callers, nodes, pmap, tpc, pending, refreshCount,
                 untried, doomed, fetchFailed>>

\* All hosts have been tried, and what was found is added.
AddNodes ==
  /\ tpc = "add" /\ friends = << >>
  /\ AddFound
  /\ tpc' = "remove"
  /\ UNCHANGED <<servers, client, callers, node, pmap, pending, refreshCount, friends,
                 untried, doomed, fetchFailed>>

Mapped(o) == \E p \in Partitions : pmap[p] # NoNode /\ node[pmap[p]].name = node[o].name

Condemned_MapNotAsked(o) ==
  \/ ~node[o].active
  \/ node[o].refs = 0 /\ refreshCount >= 2


\* Whether find_nodes_to_remove condemns o in a cluster of several nodes.
Condemned(o) ==
  \/ ~node[o].active
  \/ /\ node[o].active /\ node[o].refs = 0
     /\ IF Len(nodes) = 2 /\ refreshCount = 1 /\ node[o].failures > 0
        THEN TRUE
        ELSE refreshCount >= 2 /\ (node[o].failures = 0 => ~Mapped(o))

\* find_nodes_to_remove.  When a single node keeps failing, the seeds are tried.
FindNodesToRemove ==
  /\ tpc = "remove"
  /\ IF Len(nodes) = 1 /\ node[nodes[1]].active /\ node[nodes[1]].failures > 5
     THEN tpc' = "reseed" /\ untried' = Seeds /\ UNCHANGED doomed
     ELSE /\ tpc' = "removing" /\ doomed' = {o \in Range(nodes) : Condemned(o)}
          /\ UNCHANGED untried
  /\ UNCHANGED <<servers, client, callers, cluster, pending, refreshCount, friends,
                 found, fetchFailed>>

\* seed_nodes returns to find_nodes_to_remove: the failing node is condemned when
\* it has found a node.
Reseeded ==
  /\ tpc = "reseed" /\ untried = << >>
  /\ AddFound
  /\ doomed' = IF found # << >> THEN {nodes[1]} ELSE {}
  /\ tpc' = "removing"
  /\ UNCHANGED <<servers, client, callers, node, pmap, pending, refreshCount, friends,
                 untried, fetchFailed>>

\* remove_nodes copies the nodes whose name is not that of a condemned one.
CopyKept ==
  LET kept == {i \in DOMAIN nodes : \A d \in doomed : node[nodes[i]].name # node[d].name} IN
  \E at \in [1 .. Cardinality(kept) -> kept] :
    /\ \A i, j \in DOMAIN at : i < j => at[i] < at[j]
    /\ nodes' = [i \in DOMAIN at |-> nodes[at[i]]]

RemoveNodes_KeepsAliases ==
  /\ tpc = "removing"
  /\ aliases' = aliases
  /\ CopyKept
  /\ tpc' = "done" /\ doomed' = {}
  /\ UNCHANGED <<servers, client, callers, node, pmap, pending, refreshCount, friends,
                 untried, found, fetchFailed>>

\* remove_nodes_and_aliases.
RemoveNodes ==
  /\ tpc = "removing"
  /\ aliases' = [a \in Addrs |->
       IF \E o \in doomed : a \in node[o].aliases THEN NoNode ELSE aliases[a]]
  /\ CopyKept
  /\ tpc' = "done" /\ doomed' = {}
  /\ UNCHANGED <<servers, client, callers, node, pmap, pending, refreshCount, friends,
                 untried, found, fetchFailed>>

Roots == Range(nodes) \cup Held \cup (Objs \cap Range(aliases)) \cup (Objs \cap Range(pmap))

\* The tend has returned.  wait_till_stabilized is done when the number of nodes
\* has not changed or its deadline has passed; Cluster::new then fails or spawns
\* the tend thread.
TendReturns(deadlinePassed) ==
  /\ tpc = "done"
  /\ tpc' = "poll" /\ friends' = << >> /\ refreshCount' = 0
  /\ node' = Collect(node, Roots)
  /\ \/ /\ phase = "running" /\ ~deadlinePassed
        /\ UNCHANGED <<phase, count>>
     \/ /\ phase = "starting"
        /\ IF ~deadlinePassed /\ count # Len(nodes)
           THEN count' = Len(nodes) /\ UNCHANGED phase
           ELSE /\ count' = -1
                /\ phase' = IF FailIfNotConnected /\ nodes = << >> THEN "failed"
                            ELSE "running"
  /\ UNCHANGED <<servers, callers, nodes, aliases, pmap, pending, untried, found,
                 doomed, closed, senders, fetchFailed>>
-----------------------------------------------------------------------------
(* The callers *)

\* Cluster::close locks the channel's only Sender and releases it again; the
\* Sender lives on in the Cluster.
Close ==
  /\ MayClose /\ phase = "running" /\ ~closed
  /\ closed' = TRUE
  /\ UNCHANGED <<servers, cluster, tending, callers, senders, phase, count>>

\* get_random_node takes a copy of the node list.
StartRandom(c) ==
  /\ phase = "running" /\ cpc[c] = "ready" /\ nodes # << >>
  /\ snapshot' = [snapshot EXCEPT ![c] = nodes]
  /\ tries' = [tries EXCEPT ![c] = 0]
  /\ alone' = [alone EXCEPT ![c] = TRUE]
  /\ cpc' = [cpc EXCEPT ![c] = "probe"]
  /\ UNCHANGED <<servers, cluster, tending, client, nodeIndex>>

\* One turn of its loop: a ticket from the shared index, and a look at the node
\* it falls on.  What happens when the index overflows is left out.
Ticket(c) == snapshot[c][((nodeIndex + 1) % Len(snapshot[c])) + 1]

Draw(c) ==
  /\ cpc[c] = "probe" /\ nodeIndex < MaxIndex
  /\ nodeIndex' = nodeIndex + 1
  /\ UNCHANGED <<servers, cluster, tending, client>>

\* The node is active and returned.
ProbeActive(c) ==
  /\ Draw(c) /\ node[Ticket(c)].active
  /\ cpc' = [cpc EXCEPT ![c] = "ready"]
  /\ snapshot' = [snapshot EXCEPT ![c] = << >>]
  /\ tries' = [tries EXCEPT ![c] = 0]
  /\ alone' = [d \in Callers |-> d = c \/ cpc[d] = "ready"]

ProbeInactive_OneShort(c) ==
  /\ Draw(c) /\ ~node[Ticket(c)].active
  /\ cpc' = [cpc EXCEPT ![c] = IF tries[c] + 2 >= Len(snapshot[c]) THEN "no_node" ELSE @]
  /\ tries' = [tries EXCEPT ![c] = @ + 1]
  /\ alone' = [d \in Callers |-> IF d = c THEN alone[d] ELSE cpc[d] = "ready"]
  /\ UNCHANGED snapshot

\* The node is not active: on to the next, or to the error after as many turns as
\* there are nodes.
ProbeInactive(c) ==
  /\ Draw(c) /\ ~node[Ticket(c)].active
  /\ cpc' = [cpc EXCEPT ![c] = IF tries[c] + 1 = Len(snapshot[c]) THEN "no_node" ELSE @]
  /\ tries' = [tries EXCEPT ![c] = @ + 1]
  /\ alone' = [d \in Callers |-> IF d = c THEN alone[d] ELSE cpc[d] = "ready"]
  /\ UNCHANGED snapshot

\* The caller has been told that there is no active node.
NoActiveNode(c) ==
  /\ cpc[c] = "no_node"
  /\ cpc' = [cpc EXCEPT ![c] = "ready"]
  /\ snapshot' = [snapshot EXCEPT ![c] = << >>]
  /\ tries' = [tries EXCEPT ![c] = 0]
  /\ alone' = [alone EXCEPT ![c] = TRUE]
  /\ UNCHANGED <<servers, cluster, tending, client, nodeIndex>>
-----------------------------------------------------------------------------
Tend == \/ StartTend \/ Seeded \/ SkipInactive \/ Refresh \/ FetchPartitions
        \/ \E lost \in BOOLEAN : \/ TrySeed(lost) \/ RefreshFails(lost)
                                \/ FetchFails(lost) \/ TryFriend(lost)
        \/ AddNodes \/ FindNodesToRemove \/ Reseeded \/ RemoveNodes
        \/ \E late \in BOOLEAN : TendReturns(late)

Servers == \/ \E a \in Addrs : ServerFails(a) \/ \E n \in Names : ServerStarts(a, n)
           \/ MembershipSettles
           \/ \E p \in Partitions, n \in Names : Rebalance(p, n)

Call == \E c \in Callers : \/ StartRandom(c) \/ ProbeActive(c)
                          \/ ProbeInactive(c) \/ NoActiveNode(c)

Next == Tend \/ Servers \/ Close \/ Call

Spec == Init /\ [][Next]_vars

\* The tending thread keeps running: it is a thread of its own, and what it waits
\* for (the sleep, the timeouts of its sockets) ends.
LiveSpec == Spec /\ WF_vars(Tend)
-----------------------------------------------------------------------------
(* Properties *)

\* The node list never holds two nodes of one name, except while a single node
\* that keeps failing is being replaced: Client::get_node(name) and the scans, one
\* per node of the list, would take the same server twice.
UniqueNames ==
  tpc # "removing" =>
    \A i, j \in DOMAIN nodes : node[nodes[i]].name = node[nodes[j]].name => i = j

\* Nothing that answers at a answers at another address too.
SingleHomed(a) == \A b \in Addrs \ {a} : NamesAt[a] \cap NamesAt[b] = {}

\* Between tends the alias map refers to nodes of the node list only, for the
\* addresses of servers that have one.  An alias that outlives its node hides the
\* address: add_friends takes it for a known node and discovery skips it.
AliasesKnown ==
  tpc = "poll" => \A a \in Addrs : SingleHomed(a) /\ aliases[a] # NoNode =>
                                     aliases[a] \in Range(nodes)

\* A node that has answered in this tend and that the partition map refers to is
\* not dropped by it.
MappedNodeKept ==
  [][tpc = "removing" /\ Len(nodes) > 1 =>
       \A o \in Range(nodes) :
         node[o].active /\ node[o].failures = 0 /\ node[o].gen >= 0 /\ Mapped(o)
           => \/ o \in Range(nodes')
              \/ \E d \in doomed : d # o /\ node[d].name = node[o].name]_vars

\* A caller that has drawn its tickets undisturbed is told that there is no active
\* node only when none of the nodes it looked at is active.
RandomFindsActive ==
  \A c \in Callers : cpc[c] = "no_node" /\ alone[c] =>
                       \A o \in Range(snapshot[c]) : ~node[o].active

Alive(o) == server[node[o].addr] = node[o].name
AliveNodes == {o \in Range(nodes) : Alive(o)}
Settled == phase = "running" /\ listed = Up /\ AliveNodes # {}

\* The nodes a connected host lists get into the cluster map (Client::new: "Request
\* host's list of other nodes in cluster", "Add these nodes to the cluster map"):
\* once the servers stop changing, every one that is up is known, as long as one
\* node the client knows is alive.
Discovers == <>[](Settled => UpNames \subseteq Known)



\* Cluster::close: "close tend by closing the channel".  After a close the tending
\* thread ends: there is a last tend.
TendStops == closed ~> [](tpc = "poll")
==============================================================================
