------------------------- MODULE MCCommandExecution -------------------------
(***************************************************************************)
(* Small instances of CommandExecution: three threads, one command of      *)
(* each kind, share a pool.  Only the deadline ends the loop of the first, *)
(* only the number of tries that of the last; the second has both.         *)
(***************************************************************************)
EXTENDS CommandExecution, TLC

CONSTANTS t1, t2, t3

MCKind == t1 :> "write" @@ t2 :> "read" @@ t3 :> "delete"
MCMaxRetries == t1 :> NoLimit @@ t2 :> 1 @@ t3 :> 1
=============================================================================
