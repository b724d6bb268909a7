------------------------------ MODULE MCCluster ------------------------------
(* Instances of Cluster: what may answer where, and what the seeds resolve to. *)
EXTENDS Cluster

CONSTANTS a1, a2, a3, A, B, C, D

\* Each server has an address of its own.
OneEach == a1 :> {A} @@ a2 :> {B} @@ a3 :> {C}
\* The same, but for D that may take the place of A.
OneReplaced == a1 :> {A, D} @@ a2 :> {B} @@ a3 :> {C}
\* A listens on two addresses, and the server at a3 may be replaced.
TwoHomed == a1 :> {A} @@ a2 :> {A} @@ a3 :> {B, C}

SeedFirst == << <<a1>> >>
SeedTwo == << <<a1>>, <<a2>> >>
\* One host name for all the servers.
SeedByName == << <<a1, a2, a3>> >>

SixObjs == 1 .. 6

\* Callers run the same code, B and C may both be at a3 and nowhere else, and the
\* properties do not tell them apart.
Interchangeable == Permutations(Callers) \cup Permutations({B, C})
==============================================================================
