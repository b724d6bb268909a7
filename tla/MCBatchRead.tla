----------------------------- MODULE MCBatchRead -----------------------------
(* An instance of BatchRead: the policies. *)
EXTENDS BatchRead

TwoThreads == [mode |-> "MaxThreads", max |-> 2]

\* In one only the deadline ends the loop, in the other only the number of tries.
MCPolicies == {[retries |-> NoLimit, timed |-> TRUE], [retries |-> 1, timed |-> FALSE]}
==============================================================================
