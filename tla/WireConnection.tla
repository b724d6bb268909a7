--------------------------- MODULE WireConnection ----------------------------
(***************************************************************************)
(* One connection and its buffer (commands/buffer.rs, net/connection.rs),  *)
(* reused by command after command: a command sizes the buffer by an       *)
(* estimate and writes its message over what is there, the whole buffer is *)
(* sent, the reply is read into it and decoded.                            *)
(*                                                                         *)
(* data is the buffer: len its length, hdr what its first 30 bytes hold,   *)
(* body the tokens written behind them.  What len covers and body does not *)
(* is left from before.  The bits of an attribute byte are a set of names. *)
(* A request is the record of a command's arguments; an option is a        *)
(* sequence of at most one element.                                        *)
(*                                                                         *)
(* The header of each message is written here.  What follows it and how a  *)
(* reply is decoded are parameters, which the module WireBuffer defines.   *)
(***************************************************************************)
EXTENDS Protocol

CONSTANTS
  Requests,         \* the commands that the application may issue
  Replies,          \* what the server may answer to a command that returns a record
  Message(_),       \* of a request: the estimate of its size, the fields and operations
                    \* that are counted for its header, and the tokens behind the header
  Decoded(_, _)     \* the record made of the bins that were asked for and the answer

VARIABLES
  data,             \* the buffer
  phase,            \* how far the command is that holds the connection
  req,              \* its arguments
  got               \* the bins asked for, the server's answer and the record read from it

vars == <<data, phase, req, got>>

MSG_TOTAL_HEADER_SIZE == 30
MAX_BUFFER_SIZE == 1024 * 1024 + 8
-----------------------------------------------------------------------------
(* The header.  Both functions write over the bytes of h, what the buffer     *)
(* begins with, and leave the size, which end writes.  Both cast the counts   *)
(* to 16 bits.                                                                *)

u16(n) == n % 65536

\* Four bytes, as their upper and their lower half.
NoTimeout == <<0, 0>>

ConsistencyAttr(policy) ==
  IF policy.consistency_level = "ConsistencyAll" THEN {"CONSISTENCY_ALL"} ELSE {}

write_header_KeepsTimeout(h, policy, read_attr, write_attr, m) ==
  [h EXCEPT !.info1 = read_attr \cup ConsistencyAttr(policy), !.info2 = write_attr, !.info3 = {},
            !.generation = 0, !.expiration = 0, !.fields = u16(m.fields), !.ops = u16(m.ops)]

write_header(h, policy, read_attr, write_attr, m) ==
  [h EXCEPT !.info1 = read_attr \cup ConsistencyAttr(policy), !.info2 = write_attr, !.info3 = {},
            !.generation = 0, !.expiration = 0, !.timeout = NoTimeout, !.fields = u16(m.fields), !.ops = u16(m.ops)]

ExistsInfo3 ==
  [Update |-> {}, UpdateOnly |-> {"UPDATE_ONLY"}, Replace |-> {"CREATE_OR_REPLACE"},
   ReplaceOnly |-> {"REPLACE_ONLY"}, CreateOnly |-> {}]
GenerationInfo2 ==
  [None |-> {}, ExpectGenEqual |-> {"GENERATION"}, ExpectGenGreater |-> {"GENERATION_GT"}]

\* Expiration as the 32 bits on the wire; the two marks are -1 and -2 there.
expiration(e) ==
  CASE e.k = "Seconds" -> e.secs
    [] e.k = "NamespaceDefault" -> 0
    [] e.k = "Never" -> -1
    [] e.k = "DontUpdate" -> -2

write_header_with_policy(h, policy, read_attr, write_attr, m) ==
  [h EXCEPT !.info1 = read_attr \cup ConsistencyAttr(policy),
            !.info2 = write_attr \cup GenerationInfo2[policy.generation_policy]
                        \cup (IF policy.record_exists_action = "CreateOnly" THEN {"CREATE_ONLY"} ELSE {})
                        \cup (IF policy.durable_delete THEN {"DURABLE_DELETE"} ELSE {}),
            !.info3 = ExistsInfo3[policy.record_exists_action]
                        \cup (IF policy.commit_level = "CommitMaster" THEN {"COMMIT_MASTER"} ELSE {}),
            !.generation = IF policy.generation_policy = "None" THEN 0 ELSE policy.generation,
            !.expiration = expiration(policy.expiration), !.timeout = NoTimeout,
            !.fields = u16(m.fields), !.ops = u16(m.ops)]

OperationReads == {OperationType[t] : t \in {"Read", "CdtRead", "BitRead", "HllRead", "ExpRead"}}

\* What an operation adds to the two attribute bytes of an operate.
read_attr_of(operation) ==
  CASE operation.op \notin OperationReads -> {}
    [] operation.op = OperationType.Read /\ operation.bin.k = "None" -> {"READ", "NOBINDATA"}
    [] operation.op = OperationType.Read /\ operation.bin.k = "All" -> {"READ", "GET_ALL"}
    [] OTHER -> {"READ"}

write_attr_of(operation, policy) ==
  (IF operation.op \in OperationReads THEN {} ELSE {"WRITE"})
    \cup IF policy.respond_per_each_op \/ operation.data.k \in {"CdtMapOp", "CdtBitOp", "HLLOp", "EXPOp"}
         THEN {"RESPOND_ALL_OPS"} ELSE {}

read_attrs(r) == UNION {read_attr_of(r.operations[i]) : i \in DOMAIN r.operations}
write_attrs(r) == UNION {write_attr_of(r.operations[i], r.policy) : i \in DOMAIN r.operations}

\* The bins that a read asks for, or a scan or a query; a read of all of them says so.
ReadAttr == [None |-> {"READ", "NOBINDATA"}, All |-> {"READ", "GET_ALL"}, Some |-> {"READ"}]
BinsAttr(bins) == IF bins.k = "None" THEN {"READ", "NOBINDATA"} ELSE {"READ"}

\* A statement that Client::query accepts.
validate(r) ==
  /\ Len(r.filters) <= 1
  /\ r.set_name # ""
  /\ r.index_name # <<"">>
  /\ \A i \in DOMAIN r.aggregation : r.aggregation[i].package # "" /\ r.aggregation[i].function # ""

\* Policies, bins and statements have values of their types.
ASSUME WireAssumption ==
  \A r \in Requests :
    /\ r.cmd \in {"write", "delete", "touch", "operate"} =>
         /\ r.policy.generation_policy \in DOMAIN GenerationInfo2
         /\ r.policy.record_exists_action \in DOMAIN ExistsInfo3
         /\ r.policy.durable_delete \in BOOLEAN
         /\ r.policy.expiration.k \in {"Seconds", "NamespaceDefault", "Never", "DontUpdate"}
    /\ DOMAIN r.policy.timeout \in {{}, {1}}
    /\ \A i \in DOMAIN r.policy.timeout :
         LET d == r.policy.timeout[i] IN
         d.secs \in Nat /\ d.nanos \in Nat /\ d.nanos < 1000000000
    /\ r.cmd = "read" => r.bins.k \in DOMAIN ReadAttr
    /\ r.cmd = "query" => r.write \in BOOLEAN
-----------------------------------------------------------------------------
Header(n, attrs) ==
  [size |-> n, info1 |-> attrs, info2 |-> attrs, info3 |-> attrs, generation |-> n,
   expiration |-> n, timeout |-> <<n, n>>, fields |-> n, ops |-> n]

Fresh == [len |-> 0, hdr |-> Header(0, {}), body |-> << >>]
\* After a reply was read into it nothing is known of what the buffer holds.
Overwritten == [len |-> MSG_TOTAL_HEADER_SIZE, hdr |-> Header(255, {"LEFTOVER"}), body |-> << >>]

NoRequest == [cmd |-> "none"]
NoReply == [fields |-> << >>, answers |-> << >>]
NoAnswer == [bins |-> "None", reply |-> NoReply, record |-> << >>]

Init ==
  /\ data = Fresh
  /\ phase = "idle"
  /\ req = NoRequest
  /\ got = NoAnswer

\* prepare_buffer: begin, the estimates, size_buffer, the writes and end.  A message that is
\* too long is refused before the first write.
Prepare(r, m, hdr) ==
  /\ phase = "idle"
  /\ req' = r
  /\ IF MSG_TOTAL_HEADER_SIZE + m.est > MAX_BUFFER_SIZE
     THEN phase' = "refused" /\ UNCHANGED data
     ELSE /\ phase' = "built"
          /\ data' = [len |-> MSG_TOTAL_HEADER_SIZE + m.est, body |-> m.body,
                      hdr |-> [hdr EXCEPT !.size = MSG_TOTAL_HEADER_SIZE + Size(m.body) - 8]]
  /\ UNCHANGED got

\* The commands: r is the request and m its message.
SetWrite(r, m) ==
  r.cmd = "write" /\ Prepare(r, m, write_header_with_policy(data.hdr, r.policy, {}, {"WRITE"}, m))

SetDelete(r, m) ==
  r.cmd = "delete" /\ Prepare(r, m, write_header_with_policy(data.hdr, r.policy, {}, {"WRITE", "DELETE"}, m))

SetTouch(r, m) ==
  r.cmd = "touch" /\ Prepare(r, m, write_header_with_policy(data.hdr, r.policy, {}, {"WRITE"}, m))

SetExists(r, m) ==
  r.cmd = "exists" /\ Prepare(r, m, write_header(data.hdr, r.policy, {"READ", "NOBINDATA"}, {}, m))

SetRead(r, m) ==
  r.cmd = "read" /\ Prepare(r, m, write_header(data.hdr, r.policy, ReadAttr[r.bins.k], {}, m))

SetBatchRead(r, m) ==
  r.cmd = "batch_read" /\ Prepare(r, m, write_header(data.hdr, r.policy, {"READ", "BATCH"}, {}, m))

\* An operate that only reads has no use for the write policy.
SetOperate(r, m) ==
  /\ r.cmd = "operate"
  /\ Prepare(r, m, IF write_attrs(r) = {}
                   THEN write_header(data.hdr, r.policy, read_attrs(r), write_attrs(r), m)
                   ELSE write_header_with_policy(data.hdr, r.policy, read_attrs(r), write_attrs(r), m))

\* The write policy beside its base is not looked at.
SetUdf(r, m) ==
  r.cmd = "udf" /\ Prepare(r, m, write_header(data.hdr, r.policy, {}, {"WRITE"}, m))

SetScan(r, m) ==
  r.cmd = "scan" /\ Prepare(r, m, write_header(data.hdr, r.policy, BinsAttr(r.bins), {}, m))

SetQuery(r, m) ==
  /\ r.cmd = "query" /\ validate(r)
  /\ Prepare(r, m, write_header(data.hdr, r.policy, BinsAttr(r.bins),
                                IF r.write THEN {"WRITE"} ELSE {}, m))

\* (secs * 1000) as i32 plus the milliseconds of the rest, modulo 2^32: what is less than a
\* millisecond is cut off, and what is more than 31 bits wraps.
millis(d) ==
  LET low == (d.secs % 65536) * 1000 + d.nanos \div 1000000 IN
  <<((d.secs \div 65536) * 1000 + low \div 65536) % 65536, low % 65536>>

\* Without a timeout in the policy nothing is written.
write_timeout ==
  /\ phase = "built"
  /\ phase' = "stamped"
  /\ data' = IF req.policy.timeout = << >> THEN data
             ELSE [data EXCEPT !.hdr.timeout = millis(req.policy.timeout[1])]
  /\ UNCHANGED <<req, got>>

flush ==
  /\ phase = "stamped"
  /\ phase' = "sent"
  /\ UNCHANGED <<data, req, got>>

\* The answer to a read, an operate or a udf is a record, to the others a status.  Operate
\* and udf are read commands of all bins.
ReadReply(reply) ==
  /\ phase = "sent"
  /\ reply = NoReply \/ req.cmd \in {"read", "operate", "udf"}
  /\ phase' = "answered"
  /\ data' = Overwritten
  /\ LET bins == IF req.cmd = "read" THEN req.bins.k ELSE "All" IN
     got' = [bins |-> bins, reply |-> reply, record |-> Decoded(bins, reply)]
  /\ req' = NoRequest

\* The connection goes back to the pool, and the next command takes it from there.
Release ==
  /\ phase \in {"answered", "refused"}
  /\ phase' = "idle"
  /\ req' = NoRequest
  /\ got' = NoAnswer
  /\ UNCHANGED data

\* An I/O error: the connection is closed, the next command has a new one.
Invalidate ==
  /\ phase \in {"stamped", "sent"}
  /\ phase' = "idle"
  /\ data' = Fresh
  /\ req' = NoRequest
  /\ UNCHANGED got

Next ==
  \/ \E r \in Requests :
       LET m == Message(r) IN
       \/ SetWrite(r, m) \/ SetDelete(r, m) \/ SetTouch(r, m) \/ SetExists(r, m) \/ SetRead(r, m)
       \/ SetBatchRead(r, m) \/ SetOperate(r, m) \/ SetUdf(r, m) \/ SetScan(r, m) \/ SetQuery(r, m)
  \/ write_timeout
  \/ flush
  \/ \E reply \in Replies : ReadReply(reply)
  \/ Release
  \/ Invalidate

Spec == Init /\ [][Next]_vars
-----------------------------------------------------------------------------
OperationsOf(r) ==
  IF r.cmd = "operate" THEN {r.operations[i] : i \in DOMAIN r.operations} ELSE {}

\* The request changes the record under its write policy.
Writes(r) ==
  \/ r.cmd \in {"write", "delete", "touch"}
  \/ \E o \in OperationsOf(r) : o.op \notin OperationReads

\* Every operation of the request is to be answered.
AnswersAll(r) ==
  \E o \in OperationsOf(r) : \/ r.policy.respond_per_each_op
                             \/ o.data.k \in {"CdtMapOp", "CdtBitOp", "HLLOp", "EXPOp"}

\* The conditions of a write policy are sent, also with an operate that only reads and
\* wants every answer.
Conditional(r) == Writes(r) \/ AnswersAll(r)

When(condition, flag) == IF condition THEN {flag} ELSE {}

\* What the request asks for, flag by flag: of the read, of the write, and the conditions.
ReadFlags(r) ==
  When(\/ r.cmd \in {"read", "exists", "batch_read", "scan", "query"}
       \/ (\E o \in OperationsOf(r) : o.op \in OperationReads), "READ")
  \cup When(\/ r.cmd = "exists"
            \/ r.cmd \in {"read", "scan", "query"} /\ r.bins.k = "None"
            \/ (\E o \in OperationsOf(r) : o.op = OperationType.Read /\ o.bin.k = "None"), "NOBINDATA")
  \cup When(\/ r.cmd = "read" /\ r.bins.k = "All"
            \/ (\E o \in OperationsOf(r) : o.op = OperationType.Read /\ o.bin.k = "All"), "GET_ALL")
  \cup When(r.cmd = "batch_read", "BATCH")

WriteFlags(r) ==
  When(Writes(r) \/ r.cmd = "udf" \/ (r.cmd = "query" /\ r.write), "WRITE")
  \cup When(r.cmd = "delete", "DELETE")
  \cup When(AnswersAll(r), "RESPOND_ALL_OPS")

WriteConditions(p) ==
  When(p.generation_policy = "ExpectGenEqual", "GENERATION")
  \cup When(p.generation_policy = "ExpectGenGreater", "GENERATION_GT")
  \cup When(p.record_exists_action = "CreateOnly", "CREATE_ONLY")
  \cup When(p.durable_delete, "DURABLE_DELETE")

RecordConditions(p) ==
  When(p.record_exists_action = "UpdateOnly", "UPDATE_ONLY")
  \cup When(p.record_exists_action = "Replace", "CREATE_OR_REPLACE")
  \cup When(p.record_exists_action = "ReplaceOnly", "REPLACE_ONLY")
  \cup When(p.commit_level = "CommitMaster", "COMMIT_MASTER")

\* h says exactly what the request r asks for: the flags of its command, the consistency
\* of its policy and, of a conditional request, the generation check, exists action,
\* commit level, durable delete and expiration of its policy; of any other, none of them.
Carries(h, r) ==
  LET p == r.policy IN
  /\ h.info1 = ReadFlags(r) \cup When(p.consistency_level = "ConsistencyAll", "CONSISTENCY_ALL")
  /\ Conditional(r) =>
       /\ h.info2 = WriteFlags(r) \cup WriteConditions(p)
       /\ h.info3 = RecordConditions(p)
       /\ p.generation_policy = "None" => h.generation = 0
       /\ p.generation_policy # "None" => h.generation = p.generation
       /\ p.expiration.k = "Seconds" => h.expiration = p.expiration.secs
       /\ p.expiration.k = "NamespaceDefault" => h.expiration = 0
       /\ p.expiration.k = "Never" => h.expiration = -1
       /\ p.expiration.k = "DontUpdate" => h.expiration = -2
  /\ ~Conditional(r) =>
       h.info2 = WriteFlags(r) /\ h.info3 = {} /\ h.generation = 0 /\ h.expiration = 0

\* The longest timeout, in seconds, that the i32 of the header holds: 24 days.
MaxTimeout == 2147482

\* The four bytes t are the whole milliseconds of the policy's timeout, and zero without one.
Times(t, policy) ==
  /\ policy.timeout = << >> => t = NoTimeout
  /\ \A i \in DOMAIN policy.timeout :
       LET d == policy.timeout[i] IN
       d.secs <= MaxTimeout => t[1] * 65536 + t[2] = d.secs * 1000 + d.nanos \div 1000000

\* Whatever used the connection before, the header that is sent says exactly what this
\* request asks for, and its timeout in milliseconds unless it is longer than 24 days
\* (write_header, write_header_with_policy, write_timeout).
HeaderExact == phase = "sent" => Times(data.hdr.timeout, req.policy) /\ Carries(data.hdr, req)
==============================================================================
