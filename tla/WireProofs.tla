----------------------------- MODULE WireProofs ------------------------------
(***************************************************************************)
(* Proofs about WireConnection, for any commands and replies, whatever     *)
(* follows the header of a message and however replies are decoded.        *)
(***************************************************************************)
EXTENDS WireConnection, TLAPS

-----------------------------------------------------------------------------
(* The inductive invariant. *)

HeaderFields == {"size", "info1", "info2", "info3", "generation", "expiration", "timeout",
                 "fields", "ops"}

\* From prepare_buffer on the header has the conditions of the request; its timeout is
\* zero until write_timeout has been called.
WireInv ==
  /\ DOMAIN data = {"len", "hdr", "body"}
  /\ DOMAIN data.hdr = HeaderFields
  /\ phase \in {"built", "stamped", "sent"} => Carries(data.hdr, req)
  /\ phase \in {"built", "stamped", "sent"} => req \in Requests
  /\ phase = "built" => data.hdr.timeout = NoTimeout
  /\ phase \in {"stamped", "sent"} => Times(data.hdr.timeout, req.policy)
-----------------------------------------------------------------------------
(* What the two functions write. *)

LEMMA PlainFields ==
  ASSUME NEW h, DOMAIN h = HeaderFields, NEW policy, NEW ra, NEW wa, NEW m
  PROVE  LET g == write_header(h, policy, ra, wa, m) IN
         /\ DOMAIN g = HeaderFields
         /\ g.info1 = ra \cup ConsistencyAttr(policy) /\ g.info2 = wa /\ g.info3 = {}
         /\ g.generation = 0 /\ g.expiration = 0 /\ g.timeout = NoTimeout
  BY DEF write_header, HeaderFields

LEMMA PolicyFields ==
  ASSUME NEW h, DOMAIN h = HeaderFields, NEW policy, NEW ra, NEW wa, NEW m
  PROVE  LET g == write_header_with_policy(h, policy, ra, wa, m) IN
         /\ DOMAIN g = HeaderFields
         /\ g.info1 = ra \cup ConsistencyAttr(policy)
         /\ g.info2 = wa \cup GenerationInfo2[policy.generation_policy]
                        \cup (IF policy.record_exists_action = "CreateOnly" THEN {"CREATE_ONLY"} ELSE {})
                        \cup (IF policy.durable_delete THEN {"DURABLE_DELETE"} ELSE {})
         /\ g.info3 = ExistsInfo3[policy.record_exists_action]
                        \cup (IF policy.commit_level = "CommitMaster" THEN {"COMMIT_MASTER"} ELSE {})
         /\ g.generation = IF policy.generation_policy = "None" THEN 0 ELSE policy.generation
         /\ g.expiration = expiration(policy.expiration)
         /\ g.timeout = NoTimeout
  BY DEF write_header_with_policy, HeaderFields

\* A request that is under no conditions.
LEMMA PlainCarries ==
  ASSUME NEW h, DOMAIN h = HeaderFields, NEW r, NEW m, ~Conditional(r)
  PROVE  Carries(write_header(h, r.policy, ReadFlags(r), WriteFlags(r), m), r)
  <1> DEFINE g == write_header(h, r.policy, ReadFlags(r), WriteFlags(r), m)
  <1>1. /\ g.info1 = ReadFlags(r) \cup ConsistencyAttr(r.policy)
        /\ g.info2 = WriteFlags(r) /\ g.info3 = {}
        /\ g.generation = 0 /\ g.expiration = 0
    BY PlainFields
  <1> HIDE DEF g
  <1>2. Carries(g, r)
    BY <1>1 DEF Carries, ConsistencyAttr, When
  <1> QED
    BY <1>2 DEF g

\* The tables of the code have the flags of the policy, each under its condition.
LEMMA PolicyFlags ==
  ASSUME NEW p, p.generation_policy \in DOMAIN GenerationInfo2,
         p.record_exists_action \in DOMAIN ExistsInfo3
  PROVE  /\ GenerationInfo2[p.generation_policy]
               = When(p.generation_policy = "ExpectGenEqual", "GENERATION")
                   \cup When(p.generation_policy = "ExpectGenGreater", "GENERATION_GT")
         /\ ExistsInfo3[p.record_exists_action]
               = When(p.record_exists_action = "UpdateOnly", "UPDATE_ONLY")
                   \cup When(p.record_exists_action = "Replace", "CREATE_OR_REPLACE")
                   \cup When(p.record_exists_action = "ReplaceOnly", "REPLACE_ONLY")
  BY DEF GenerationInfo2, ExistsInfo3, When

\* A request under the conditions of its write policy.
LEMMA PolicyCarries ==
  ASSUME NEW h, DOMAIN h = HeaderFields, NEW r \in Requests, NEW m,
         r.cmd \in {"write", "delete", "touch", "operate"}, Conditional(r)
  PROVE  Carries(write_header_with_policy(h, r.policy, ReadFlags(r), WriteFlags(r), m), r)
  <1> DEFINE g == write_header_with_policy(h, r.policy, ReadFlags(r), WriteFlags(r), m)
             p == r.policy
             gen == GenerationInfo2[p.generation_policy]
             exists == ExistsInfo3[p.record_exists_action]
  <1>1. /\ g.info1 = ReadFlags(r) \cup ConsistencyAttr(p)
        /\ g.info2 = WriteFlags(r) \cup gen
                       \cup (IF p.record_exists_action = "CreateOnly" THEN {"CREATE_ONLY"} ELSE {})
                       \cup (IF p.durable_delete THEN {"DURABLE_DELETE"} ELSE {})
        /\ g.info3 = exists
                       \cup (IF p.commit_level = "CommitMaster" THEN {"COMMIT_MASTER"} ELSE {})
        /\ g.generation = IF p.generation_policy = "None" THEN 0 ELSE p.generation
        /\ g.expiration = expiration(p.expiration)
    BY PolicyFields
  <1>2. p.generation_policy \in DOMAIN GenerationInfo2 /\ p.record_exists_action \in DOMAIN ExistsInfo3
    BY WireAssumption
  <1>3. /\ gen = When(p.generation_policy = "ExpectGenEqual", "GENERATION")
                  \cup When(p.generation_policy = "ExpectGenGreater", "GENERATION_GT")
        /\ exists = When(p.record_exists_action = "UpdateOnly", "UPDATE_ONLY")
                     \cup When(p.record_exists_action = "Replace", "CREATE_OR_REPLACE")
                     \cup When(p.record_exists_action = "ReplaceOnly", "REPLACE_ONLY")
    BY <1>2, PolicyFlags
  <1> HIDE DEF g, gen, exists
  <1>4. g.info1 = ReadFlags(r) \cup When(p.consistency_level = "ConsistencyAll", "CONSISTENCY_ALL")
    BY <1>1 DEF ConsistencyAttr, When
  <1>5. g.info2 = WriteFlags(r) \cup WriteConditions(p)
    BY <1>1, <1>3 DEF WriteConditions, When
  <1>6. g.info3 = RecordConditions(p)
    BY <1>1, <1>3 DEF RecordConditions, When
  <1>7. /\ p.expiration.k = "Seconds" => g.expiration = p.expiration.secs
        /\ p.expiration.k = "NamespaceDefault" => g.expiration = 0
        /\ p.expiration.k = "Never" => g.expiration = -1
        /\ p.expiration.k = "DontUpdate" => g.expiration = -2
    BY <1>1 DEF expiration
  <1>8. Carries(g, r)
    BY <1>1, <1>4, <1>5, <1>6, <1>7 DEF Carries
  <1> QED
    BY <1>8 DEF g
-----------------------------------------------------------------------------
(* The attributes of an operate. *)

LEMMA OperateAttrs ==
  ASSUME NEW r, r.cmd = "operate"
  PROVE  read_attrs(r) = ReadFlags(r) /\ write_attrs(r) = WriteFlags(r)
  <1> DEFINE ops == OperationsOf(r)
             Header1(o) == o.op = OperationType.Read /\ o.bin.k = "None"
             All1(o) == o.op = OperationType.Read /\ o.bin.k = "All"
             Each(o) == \/ r.policy.respond_per_each_op
                        \/ o.data.k \in {"CdtMapOp", "CdtBitOp", "HLLOp", "EXPOp"}
  <1>1. ASSUME NEW o
        PROVE  read_attr_of(o) = When(o.op \in OperationReads, "READ")
                                   \cup When(Header1(o), "NOBINDATA") \cup When(All1(o), "GET_ALL")
    <2>1. OperationType.Read \in OperationReads
      BY DEF OperationReads
    <2> QED
      BY <2>1 DEF read_attr_of, When
  <1>2. ASSUME NEW o
        PROVE  write_attr_of(o, r.policy) = When(o.op \notin OperationReads, "WRITE")
                                              \cup When(Each(o), "RESPOND_ALL_OPS")
    BY DEF write_attr_of, When
  <1>3. /\ ReadFlags(r) = When(\E o \in ops : o.op \in OperationReads, "READ")
                            \cup When(\E o \in ops : Header1(o), "NOBINDATA")
                            \cup When(\E o \in ops : All1(o), "GET_ALL")
        /\ WriteFlags(r) = When(\E o \in ops : o.op \notin OperationReads, "WRITE")
                             \cup When(\E o \in ops : Each(o), "RESPOND_ALL_OPS")
    BY DEF ReadFlags, WriteFlags, AnswersAll, Writes, When
  <1>6. ops = {r.operations[i] : i \in DOMAIN r.operations}
    BY DEF OperationsOf
  <1> HIDE DEF ops, Header1, All1, Each
  <1>4. read_attrs(r) = ReadFlags(r)
    BY <1>1, <1>3, <1>6 DEF read_attrs, When
  <1>5. write_attrs(r) = WriteFlags(r)
    BY <1>2, <1>3, <1>6 DEF write_attrs, When
  <1> QED
    BY <1>4, <1>5
-----------------------------------------------------------------------------
(* The timeout. *)

\* The two halves are the milliseconds, when these fit.
LEMMA MillisFit ==
  ASSUME NEW secs \in Nat, NEW nanos \in Nat, nanos < 1000000000, secs <= MaxTimeout
  PROVE  LET low == (secs % 65536) * 1000 + nanos \div 1000000
             high == ((secs \div 65536) * 1000 + low \div 65536) % 65536 IN
         high * 65536 + (low % 65536) = secs * 1000 + nanos \div 1000000
  <1> DEFINE ms == nanos \div 1000000
             s0 == secs % 65536
             s1 == secs \div 65536
             low == s0 * 1000 + ms
  <1>1. ms \in Nat /\ ms <= 999
    OBVIOUS
  <1>2. s0 \in Nat /\ s0 <= 65535 /\ s1 \in Nat /\ s1 <= 32 /\ secs = s1 * 65536 + s0
    BY DEF MaxTimeout
  <1> HIDE DEF ms, s0, s1
  <1>3. low \in Nat /\ low < 65536000
    BY <1>1, <1>2
  <1>4. low \div 65536 \in Nat /\ low \div 65536 <= 1000
        /\ low = (low \div 65536) * 65536 + (low % 65536)
    <2> HIDE DEF low
    <2> QED
      BY <1>3
  <1>5. (s1 * 1000 + low \div 65536) % 65536 = s1 * 1000 + low \div 65536
    <2> DEFINE c == low \div 65536
    <2>1. c \in Nat /\ c <= 1000
      BY <1>4
    <2> HIDE DEF c
    <2> DEFINE n == s1 * 1000 + c
    <2>2. n \in Nat /\ n < 65536
      BY <1>2, <2>1, SMT
    <2> HIDE DEF n
    <2>3. n % 65536 = n
      BY <2>2, SMT
    <2> QED
      BY <2>3 DEF n, c
  <1> QED
    BY <1>1, <1>2, <1>4, <1>5 DEF ms, s0, s1
-----------------------------------------------------------------------------
(* The steps. *)

LEMMA InitWireInv == Init => WireInv
  BY DEF Init, Fresh, Header, WireInv, HeaderFields

\* What a set_ function leaves in the buffer, if its header carries the conditions of r.
LEMMA PrepareStep ==
  ASSUME WireInv, NEW r \in Requests, NEW m, NEW hdr, Prepare(r, m, hdr),
         DOMAIN hdr = HeaderFields, hdr.timeout = NoTimeout, Carries(hdr, r)
  PROVE  WireInv'
  <1>1. CASE phase' = "refused" /\ UNCHANGED data
    BY <1>1 DEF WireInv
  <1>2. CASE /\ phase' = "built"
             /\ data' = [len |-> MSG_TOTAL_HEADER_SIZE + m.est, body |-> m.body,
                         hdr |-> [hdr EXCEPT !.size = MSG_TOTAL_HEADER_SIZE + Size(m.body) - 8]]
    <2> DEFINE n == MSG_TOTAL_HEADER_SIZE + Size(m.body) - 8
               g == [hdr EXCEPT !.size = n]
    <2>1. DOMAIN data' = {"len", "hdr", "body"} /\ data'.hdr = g
      BY <1>2
    <2> HIDE DEF n
    <2>2. /\ DOMAIN g = HeaderFields
          /\ g.info1 = hdr.info1 /\ g.info2 = hdr.info2 /\ g.info3 = hdr.info3
          /\ g.generation = hdr.generation /\ g.expiration = hdr.expiration /\ g.timeout = NoTimeout
      BY DEF HeaderFields
    <2> HIDE DEF g
    <2>3. Carries(g, r)
      BY <2>2 DEF Carries
    <2>4. req' = r
      BY DEF Prepare
    <2> QED
      BY <1>2, <2>1, <2>2, <2>3, <2>4 DEF WireInv
  <1> QED
    BY <1>1, <1>2 DEF Prepare

\* The commands under the conditions of their write policy.
LEMMA PolicyStep ==
  ASSUME WireInv, NEW r \in Requests, NEW m,
         r.cmd \in {"write", "delete", "touch", "operate"}, Conditional(r),
         Prepare(r, m, write_header_with_policy(data.hdr, r.policy, ReadFlags(r), WriteFlags(r), m))
  PROVE  WireInv'
  <1> DEFINE g == write_header_with_policy(data.hdr, r.policy, ReadFlags(r), WriteFlags(r), m)
  <1>1. DOMAIN data.hdr = HeaderFields
    BY DEF WireInv
  <1>2. DOMAIN g = HeaderFields /\ g.timeout = NoTimeout
    BY <1>1, PolicyFields
  <1>3. Carries(g, r)
    BY <1>1, PolicyCarries
  <1> QED
    BY <1>2, <1>3, PrepareStep

\* The others.
LEMMA PlainStep ==
  ASSUME WireInv, NEW r \in Requests, NEW m, ~Conditional(r),
         Prepare(r, m, write_header(data.hdr, r.policy, ReadFlags(r), WriteFlags(r), m))
  PROVE  WireInv'
  <1> DEFINE g == write_header(data.hdr, r.policy, ReadFlags(r), WriteFlags(r), m)
  <1>1. DOMAIN data.hdr = HeaderFields
    BY DEF WireInv
  <1>2. DOMAIN g = HeaderFields /\ g.timeout = NoTimeout
    BY <1>1, PlainFields
  <1>3. Carries(g, r)
    BY <1>1, PlainCarries
  <1> QED
    BY <1>2, <1>3, PrepareStep

LEMMA CommandStep ==
  ASSUME WireInv, NEW r \in Requests, NEW m,
         \/ SetWrite(r, m) \/ SetDelete(r, m) \/ SetTouch(r, m) \/ SetExists(r, m) \/ SetRead(r, m)
         \/ SetBatchRead(r, m) \/ SetOperate(r, m) \/ SetUdf(r, m) \/ SetScan(r, m) \/ SetQuery(r, m)
  PROVE  WireInv'
  <1>1. CASE SetWrite(r, m) \/ SetTouch(r, m) \/ SetDelete(r, m)
    <2> DEFINE wa == IF r.cmd = "delete" THEN {"WRITE", "DELETE"} ELSE {"WRITE"}
    <2>1. r.cmd \in {"write", "delete", "touch"} /\ Conditional(r)
      BY <1>1 DEF SetWrite, SetTouch, SetDelete, Conditional, Writes
    <2>2. Prepare(r, m, write_header_with_policy(data.hdr, r.policy, {}, wa, m))
      BY <1>1 DEF SetWrite, SetTouch, SetDelete
    <2>3. ReadFlags(r) = {} /\ WriteFlags(r) = wa
      BY <2>1 DEF ReadFlags, WriteFlags, OperationsOf, AnswersAll, Writes, When
    <2> HIDE DEF wa
    <2> QED
      BY <2>1, <2>2, <2>3, PolicyStep
  <1>2. CASE SetExists(r, m) \/ SetRead(r, m) \/ SetBatchRead(r, m) \/ SetScan(r, m) \/ SetQuery(r, m)
    <2> DEFINE ra == CASE r.cmd = "exists" -> {"READ", "NOBINDATA"}
                       [] r.cmd = "read" -> ReadAttr[r.bins.k]
                       [] r.cmd = "batch_read" -> {"READ", "BATCH"}
                       [] OTHER -> BinsAttr(r.bins)
               wa == IF r.cmd = "query" /\ r.write THEN {"WRITE"} ELSE {}
    <2>1. r.cmd \in {"exists", "read", "batch_read", "scan", "query"} /\ ~Conditional(r)
      BY <1>2 DEF SetExists, SetRead, SetBatchRead, SetScan, SetQuery, Conditional, Writes, AnswersAll,
         OperationsOf
    <2>2. Prepare(r, m, write_header(data.hdr, r.policy, ra, wa, m))
      BY <1>2 DEF SetExists, SetRead, SetBatchRead, SetScan, SetQuery
    <2>3. WriteFlags(r) = wa
      BY <2>1 DEF WriteFlags, OperationsOf, AnswersAll, Writes, When
    <2>4. ReadFlags(r) = ra
      <3>1. r.cmd = "read" => r.bins.k \in {"None", "All", "Some"}
        BY WireAssumption DEF ReadAttr
      <3> QED
        BY <2>1, <3>1 DEF ReadFlags, OperationsOf, When, ReadAttr, BinsAttr
    <2> HIDE DEF ra, wa
    <2> QED
      BY <2>1, <2>2, <2>3, <2>4, PlainStep
  <1>3. CASE SetOperate(r, m)
    <2>1. r.cmd = "operate" /\ read_attrs(r) = ReadFlags(r) /\ write_attrs(r) = WriteFlags(r)
      BY <1>3, OperateAttrs DEF SetOperate
    <2>2. write_attrs(r) = {} <=> ~Conditional(r)
      BY <2>1 DEF WriteFlags, Conditional, When
    <2>3. CASE write_attrs(r) = {}
      <3>1. Prepare(r, m, write_header(data.hdr, r.policy, read_attrs(r), write_attrs(r), m))
        BY <1>3, <2>3 DEF SetOperate
      <3> QED
        BY <2>1, <2>2, <2>3, <3>1, PlainStep
    <2>4. CASE write_attrs(r) # {}
      <3>1. Prepare(r, m,
                    write_header_with_policy(data.hdr, r.policy, read_attrs(r), write_attrs(r), m))
        BY <1>3, <2>4 DEF SetOperate
      <3> QED
        BY <2>1, <2>2, <2>4, <3>1, PolicyStep
    <2> QED
      BY <2>3, <2>4
  <1>4. CASE SetUdf(r, m)
    <2>1. r.cmd = "udf" /\ ~Conditional(r)
      BY <1>4 DEF SetUdf, Conditional, Writes, AnswersAll, OperationsOf
    <2>2. Prepare(r, m, write_header(data.hdr, r.policy, {}, {"WRITE"}, m))
      BY <1>4 DEF SetUdf
    <2>3. ReadFlags(r) = {} /\ WriteFlags(r) = {"WRITE"}
      BY <2>1 DEF ReadFlags, WriteFlags, OperationsOf, AnswersAll, When
    <2> QED
      BY <2>1, <2>2, <2>3, PlainStep
  <1> QED
    BY <1>1, <1>2, <1>3, <1>4

LEMMA TimeoutStep == WireInv /\ write_timeout => WireInv'
  <1> SUFFICES ASSUME WireInv, write_timeout PROVE WireInv'
    OBVIOUS
  <1>1. /\ phase = "built" /\ phase' = "stamped" /\ req' = req /\ req \in Requests
        /\ Carries(data.hdr, req) /\ data.hdr.timeout = NoTimeout
    BY DEF write_timeout, WireInv
  <1>2. CASE req.policy.timeout = << >>
    <2>1. data' = data
      BY <1>2 DEF write_timeout
    <2>2. Times(data.hdr.timeout, req.policy)
      BY <1>1, <1>2 DEF Times
    <2> QED
      BY <1>1, <2>1, <2>2 DEF WireInv
  <1>3. CASE req.policy.timeout # << >>
    <2> DEFINE x == millis(req.policy.timeout[1])
               g == [data.hdr EXCEPT !.timeout = x]
    <2>1. DOMAIN data' = {"len", "hdr", "body"} /\ data'.hdr = g
      BY <1>3 DEF write_timeout, WireInv
    <2>2. Times(x, req.policy)
      <3> SUFFICES ASSUME NEW i \in DOMAIN req.policy.timeout, req.policy.timeout[i].secs <= MaxTimeout
                   PROVE  x[1] * 65536 + x[2] = req.policy.timeout[i].secs * 1000
                                                  + req.policy.timeout[i].nanos \div 1000000
        BY <1>3 DEF Times
      <3> DEFINE d == req.policy.timeout[i]
      <3>1. i = 1
        BY <1>1, WireAssumption
      <3>2. d.secs \in Nat /\ d.nanos \in Nat /\ d.nanos < 1000000000
        BY <1>1, WireAssumption
      <3> QED
        BY <3>1, <3>2, MillisFit DEF millis
    <2> HIDE DEF x
    <2>3. /\ DOMAIN g = HeaderFields
          /\ g.info1 = data.hdr.info1 /\ g.info2 = data.hdr.info2 /\ g.info3 = data.hdr.info3
          /\ g.generation = data.hdr.generation /\ g.expiration = data.hdr.expiration
          /\ g.timeout = x
      BY DEF WireInv, HeaderFields
    <2> HIDE DEF g
    <2>4. Carries(g, req)
      BY <1>1, <2>3 DEF Carries
    <2> QED
      BY <1>1, <2>1, <2>2, <2>3, <2>4 DEF WireInv
  <1> QED
    BY <1>2, <1>3

LEMMA NextWireInv == WireInv /\ [Next]_vars => WireInv'
  <1> SUFFICES ASSUME WireInv, [Next]_vars PROVE WireInv'
    OBVIOUS
  <1>1. CASE \E r \in Requests :
               LET m == Message(r) IN
               \/ SetWrite(r, m) \/ SetDelete(r, m) \/ SetTouch(r, m) \/ SetExists(r, m) \/ SetRead(r, m)
               \/ SetBatchRead(r, m) \/ SetOperate(r, m) \/ SetUdf(r, m) \/ SetScan(r, m) \/ SetQuery(r, m)
    BY <1>1, CommandStep
  <1>2. CASE write_timeout
    BY <1>2, TimeoutStep
  <1>3. CASE flush
    BY <1>3 DEF flush, WireInv
  <1>4. ASSUME NEW reply \in Replies, ReadReply(reply) PROVE WireInv'
    BY <1>4 DEF ReadReply, Overwritten, Header, WireInv, HeaderFields
  <1>5. CASE Release
    BY <1>5 DEF Release, WireInv
  <1>6. CASE Invalidate
    BY <1>6 DEF Invalidate, Fresh, Header, WireInv, HeaderFields
  <1>7. CASE UNCHANGED vars
    BY <1>7 DEF vars, WireInv
  <1> QED
    BY <1>1, <1>2, <1>3, <1>4, <1>5, <1>6, <1>7 DEF Next

\* Whatever commands used the connection before, and whatever their replies left in the
\* buffer, the header that is sent says exactly what its own request asks for: the flags of
\* its command, the conditions of its policy or none, and its timeout.  The code relies on
\* write_header and write_header_with_policy overwriting every byte that the one before may
\* have set.
THEOREM WireHeaderExact == Spec => []HeaderExact
  <1>1. WireInv => HeaderExact
    BY DEF WireInv, HeaderExact
  <1> QED
    BY <1>1, InitWireInv, NextWireInv, PTL DEF Spec
==============================================================================
