--------------------------- MODULE MCStreamQuery ---------------------------
(***************************************************************************)
(* Replies of two nodes for StreamQuery.                                   *)
(***************************************************************************)
EXTENDS StreamQuery, TLC

CONSTANTS n1, n2

\* One node answers with two messages of records and finished partitions, the
\* other with a record and a server error.
MixedStream ==
  n1 :> << <<"record", "partition_done">>, <<"record", "last">> >>
  @@ n2 :> << <<"record", "server_error">> >>

\* Two nodes that answer without errors.
PlainStream ==
  n1 :> << <<"record", "record">>, <<"last">> >>
  @@ n2 :> << <<"record", "partition_done", "record">>, <<"last">> >>
=============================================================================
