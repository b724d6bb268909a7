----------------------------- MODULE WireServer -----------------------------
(***************************************************************************)
(* What a server makes of the bytes that a client sent, by the rules of    *)
(* the protocol alone: fields and operations are cut out of the message by *)
(* the counts in its header and by their own sizes, and a MessagePack item *)
(* by its marker.  The properties compare that with what the application   *)
(* asked for.  A reader returns what it read and the tokens behind it; at  *)
(* a size that does not end between two tokens it reads Bad.               *)
(***************************************************************************)
EXTENDS WireBuffer

Bad == [t |-> "Bad"]

\* n bytes from the front.
RECURSIVE Cut(_, _, _)
Cut(toks, n, front) ==
  IF n = 0 THEN Got(front, toks)
  ELSE IF toks = << >> \/ toks[1].n > n THEN Got(<<Bad>>, << >>)
  ELSE Cut(Tail(toks), n - toks[1].n, Append(front, toks[1]))

\* A field: its type and content.  An operation: its code, particle type, bin and content.
ReadField(toks) ==
  LET c == Cut(Drop(toks, 2), toks[1].s - 1, << >>) IN
  Got([type |-> toks[2].b, content |-> c.v], c.rest)

ReadOperation(toks) ==
  LET name == Cut(Drop(toks, 5), toks[5].b, << >>)
      c == Cut(name.rest, toks[1].s - 4 - toks[5].b, << >>) IN
  Got([op |-> toks[2].b, ptype |-> toks[3].b, bin |-> name.v, content |-> c.v], c.rest)

RECURSIVE ReadN(_, _, _, _)
ReadN(Read1(_), toks, n, sofar) ==
  IF n = 0 \/ toks = << >> THEN Got(sofar, toks)
  ELSE LET r == Read1(toks) IN ReadN(Read1, r.rest, n - 1, Append(sofar, r.v))

\* The message in the buffer: its fields, its operations and what is behind them.
Received ==
  LET f == ReadN(ReadField, data.body, data.hdr.fields, << >>)
      o == ReadN(ReadOperation, f.rest, data.hdr.ops, << >>) IN
  [fields |-> f.v, ops |-> o.v, rest |-> o.rest]

FieldsOf(type) == SelectSeq(Received.fields, LAMBDA f : f.type = FieldType[type])
-----------------------------------------------------------------------------
(* MessagePack items.  A text begins with its particle type, or is a name. *)

ReadText(toks, n) ==
  LET c == Cut(toks, n, << >>) IN
  Got(IF Len(c.v) = 1 /\ ~IsByte(c.v[1]) /\ c.v # <<Bad>> THEN [t |-> "Name", s |-> c.v[1].s]
      ELSE IF Len(c.v) = 2 /\ IsByte(c.v[1])
      THEN Text(CHOOSE ty \in {"String", "Blob", "GeoJSON"} : ParticleType[ty] = c.v[1].b,
                c.v[2].n, c.v[2].s)
      ELSE Bad, c.rest)

\* All of the items that were announced, each of them well formed.
Whole(vs, k) == Len(vs) = k /\ \A i \in DOMAIN vs : vs[i] # Bad

RECURSIVE ReadItem(_)
ReadItem(toks) ==
  LET m == toks[1].b
      s == Tail(toks)
      n(w) == Count(Read(s, w))
      Array(rest, k) == LET r == ReadN(ReadItem, rest, k, << >>) IN
                        Got(IF Whole(r.v, k) THEN List(r.v) ELSE Bad, r.rest)
      Map(rest, k) == LET r == ReadN(ReadItem, rest, 2 * k, << >>) IN
                      Got(IF Whole(r.v, 2 * k) THEN HashMap(Pairs(r.v)) ELSE Bad, r.rest) IN
  CASE m < \h80 -> Got(IntVal(m), s)
    [] m \in \h80 .. \h8f -> Map(s, m - \h80)
    [] m \in \h90 .. \h9f -> Array(s, m - \h90)
    [] m \in \ha0 .. \hbf -> ReadText(s, m - \ha0)
    [] m = \hc0 -> Got(Nil, s)
    [] m \in {\hc2, \hc3} -> Got(Bool(m = \hc3), s)
    [] m \in {\hca, \hcb} -> Got(Float(s[1].n, s[1].s), Tail(s))
    [] m \in \hcc .. \hce -> Got(LongInt(Unsigned(Read(s, 2 ^ (m - \hcc)))), Drop(s, 2 ^ (m - \hcc)))
    [] m = \hcf -> Got(UInt(Read(s, 8)), Drop(s, 8))
    [] m \in \hd0 .. \hd3 -> Got(LongInt(Signed(Read(s, 2 ^ (m - \hd0)))), Drop(s, 2 ^ (m - \hd0)))
    [] m = \hda -> ReadText(Drop(s, 2), n(2))
    [] m = \hdb -> ReadText(Drop(s, 4), n(4))
    [] m = \hdc -> Array(Drop(s, 2), n(2))
    [] m = \hdd -> Array(Drop(s, 4), n(4))
    [] m = \hde -> Map(Drop(s, 2), n(2))
    [] m = \hdf -> Map(Drop(s, 4), n(4))
    [] m >= \he0 -> Got(IntVal(m - 256), s)

\* The only item of a field or of an operation.
OnlyItem(toks) == LET r == ReadItem(toks) IN IF r.rest = << >> THEN r.v ELSE Bad
-----------------------------------------------------------------------------
(* The payload of an operation on a list, a map, a blob or an HLL, and the    *)
(* call of the same in an expression.                                         *)

CdtPayload(ctx, code, args) == [ctx |-> ctx, code |-> code, args |-> args]

\* An array of the code and the arguments, with a context inside another one after 0xff.
PayloadOf(item) ==
  LET l == item.l
      nested == Len(l) = 3 /\ l[1] = IntVal(\hff)
      call == IF nested THEN l[3].l ELSE l IN
  CdtPayload(IF nested THEN Pairs(l[2].l) ELSE << >>, call[1], Tail(call))

\* Without a context the code of a list or map operation is two plain bytes.
ReadPayload(kind, toks) ==
  IF kind \in {"CdtListOp", "CdtMapOp"} /\ toks[1].b = 0
  THEN CdtPayload(<< >>, IntVal(toks[2].b), IF Len(toks) = 2 THEN << >> ELSE OnlyItem(Drop(toks, 2)).l)
  ELSE PayloadOf(OnlyItem(toks))

\* What the application asked for.
Asked(operation) ==
  CdtPayload([i \in DOMAIN operation.ctx |->
                <<IntVal(operation.ctx[i].id + operation.ctx[i].flags), Canonical(operation.ctx[i].value)>>],
             IntVal(operation.data.op),
             [i \in DOMAIN operation.data.args |-> Canonical(operation.data.args[i])])

IsCdt(operation) == operation.data.k \in {"CdtListOp", "CdtMapOp", "CdtBitOp", "HLLOp"}
-----------------------------------------------------------------------------
(* The rows of a batch: a row that repeats has the header of the one before. *)

RECURSIVE ReadRows(_, _, _)
ReadRows(toks, n, rows) ==
  IF n = 0 \/ toks = << >> THEN Got(rows, toks)
  ELSE LET repeat == toks[3].b = 1
           f == ReadN(ReadField, Drop(toks, 6), toks[5].s, << >>)
           o == ReadN(ReadOperation, f.rest, toks[6].s, << >>)
           header == IF repeat THEN Last(rows).header
                     ELSE [attr |-> toks[4].s, fields |-> f.v, ops |-> o.v] IN
       ReadRows(IF repeat THEN Drop(toks, 3) ELSE o.rest, n - 1,
                Append(rows, [idx |-> toks[1].s, digest |-> toks[2].s, header |-> header]))

\* What the application asked for in a row.
AskedRow(row) ==
  [idx |-> row.idx, digest |-> row.key.digest,
   header |->
     [attr |-> CASE row.bins.k = "None" -> {"READ", "NOBINDATA"}
                 [] row.bins.k = "All" -> {"READ", "GET_ALL"}
                 [] row.bins.k = "Some" -> {"READ"},
      fields |-> <<[type |-> 0, content |-> write_str(row.key.namespace)]>>
                   \o IF req.policy.send_set_name
                      THEN <<[type |-> 1, content |-> write_str(row.key.set_name)]>> ELSE << >>,
      ops |-> [i \in DOMAIN NamesOf(row.bins) |->
                 [op |-> 1, ptype |-> 0, bin |-> write_str(NamesOf(row.bins)[i]), content |-> << >>]]]]
-----------------------------------------------------------------------------
(* Properties. *)

\* A bin name of more than 255 bytes, whose length is cut to one byte.
LongName ==
  \/ req.cmd = "write" /\ \E i \in DOMAIN req.bins : Len(req.bins[i].name) > 255
  \/ req.cmd = "read" /\ \E i \in DOMAIN NamesOf(req.bins) : Len(NamesOf(req.bins)[i]) > 255

\* The size of the batch field of a request with a filter counts the filter too, and a
\* query by an index that asks for an empty list of bins announces a field it does not write.
KnownMisfits ==
  \/ LongName
  \/ req.cmd = "batch_read" /\ req.policy.filter # << >>
  \/ req.cmd = "query" /\ ~is_scan(req) /\ req.bins.k = "Some" /\ req.bins.names = << >>

\* A message is exactly what its header and its sizes say: the estimate made before the
\* writes is the number of bytes written (else bytes of an earlier reply are sent), the
\* counts are those of the fields and operations, and every size ends where its content
\* ends (size_buffer, end and the estimates of Buffer).
Framed ==
  phase = "sent" /\ ~KnownMisfits =>
    /\ data.len = MSG_TOTAL_HEADER_SIZE + Size(data.body)
    /\ data.hdr.size = data.len - 8
    /\ Received.rest = << >>
    /\ Len(Received.fields) = data.hdr.fields
    /\ Len(Received.ops) = data.hdr.ops
    /\ \A i \in DOMAIN Received.fields : Received.fields[i].content # <<Bad>>
    /\ \A i \in DOMAIN Received.ops : Received.ops[i].content # <<Bad>>

\* A bin or a user key is stored as it was given, up to what MessagePack does not keep.
Stored(v) == IF v.t \in {"List", "HashMap"} THEN Canonical(v) ELSE v

BinArrives(op, name, v) ==
  op.bin = write_str(name) /\ bytes_to_particle(op.ptype, op.content) = Stored(v)

\* A context given to an operation on an HLL is not sent (pack_hll_op).
ContextDropped(asked) == asked.data.k = "HLLOp" /\ asked.ctx # << >>

OperationArrives(op, asked) ==
  /\ op.op = asked.op
  /\ op.bin = write_str(asked.bin.s)
  /\ IsCdt(asked) /\ ~ContextDropped(asked) => ReadPayload(asked.data.k, op.content) = Asked(asked)
  /\ asked.data.k = "Value" => BinArrives(op, asked.bin.s, asked.data.v)
  /\ asked.data.k = "EXPOp" => Len(OnlyItem(op.content).l) = 2

\* The server gets the values, operations, contexts and arguments that the application gave,
\* over the boundaries of the MessagePack formats, and every expression is one well formed
\* item (encoder.rs, value.rs, FilterExpression::pack, Operation::write_to).
Understood ==
  phase = "sent" /\ ~LongName =>
    /\ req.cmd = "write" =>
         \A i \in DOMAIN req.bins : BinArrives(Received.ops[i], req.bins[i].name, req.bins[i].value)
    /\ req.cmd = "operate" =>
         \A i \in DOMAIN req.operations : OperationArrives(Received.ops[i], req.operations[i])
    /\ \A i \in DOMAIN FieldsOf("FilterExp") : OnlyItem(FieldsOf("FilterExp")[i].content) # Bad
    /\ \A i \in DOMAIN FieldsOf("UdfArgList") :
         LET args == IF req.cmd = "udf" THEN req.args ELSE req.aggregation[1].args IN
         OnlyItem(FieldsOf("UdfArgList")[i].content)
           = List(IF args = << >> THEN << >> ELSE [j \in DOMAIN args[1] |-> Canonical(args[1][j])])
    /\ \A i \in DOMAIN FieldsOf("Key") :
         LET c == FieldsOf("Key")[i].content IN
         bytes_to_particle(c[1].b, Tail(c)) = req.key.user_key[1]

\* A batch request is read back as the rows that were asked for, although rows leave out
\* what they share with the one before (set_batch_read, match_header).
BatchRowsArrive ==
  phase = "sent" /\ req.cmd = "batch_read" /\ ~KnownMisfits =>
    LET content == Received.fields[1].content
        rows == ReadRows(Drop(content, 2), content[1].s, << >>) IN
    /\ rows.rest = << >>
    /\ rows.v = [i \in DOMAIN req.rows |-> AskedRow(req.rows[i])]

\* A quoted list is the list.
Unquoted(v) == IF v.t = "List" /\ Len(v.l) = 2 /\ v.l[1] = IntVal(ExpOp.Quoted) THEN v.l[2] ELSE v

ModuleOf == [CdtListOp |-> 0, CdtMapOp |-> 0, CdtBitOp |-> 1, HLLOp |-> 2]

\* Each collection operation exists twice, for operate() and as an expression, in code
\* written twice.  Both ask the server for the same: module, code, context, whether it
\* modifies, and the arguments that both give (operations and expressions: lists, maps, bitwise, hll).
TwinsAgree ==
  phase = "sent" /\ req.cmd = "operate" /\ req.twin =>
    LET asked == req.operations[1]
        op == ReadPayload(asked.data.k, Received.ops[1].content)
        call == OnlyItem(FieldsOf("FilterExp")[1].content).l
        exp == PayloadOf(call[4]) IN
    /\ call[1] = IntVal(ExpOp.Call)
    /\ call[3] = IntVal(ModuleOf[asked.data.k] + IF Writes(req) THEN MODIFY ELSE 0)
    /\ exp.code = op.code
    /\ exp.ctx = op.ctx
    /\ \A i \in DOMAIN op.args \cap DOMAIN exp.args : op.args[i] = Unquoted(exp.args[i])

\* The values answered for a bin, in the order of the operations.
Answered(bin) == SelectSeq(got.reply.answers, LAMBDA x : x.bin = bin /\ x.v # Nil)

\* The record read from a reply has the bins that were answered and their values, or none
\* if none were asked for: one value as it is, also of an ordered list or map, and several
\* as the list of them in their order.  A first value that is itself a list is continued by
\* the others, so that the items of it and they look the same.  A reply with fields in
\* front, which parse_record does not skip as it means to, is left out (parse_result,
\* parse_record, bytes_to_particle, unpack_list, unpack_map).
ReplyDecoded ==
  phase = "answered" /\ got.reply.fields = << >> =>
    \A bin \in {got.reply.answers[i].bin : i \in DOMAIN got.reply.answers} \cup DOMAIN got.record :
      LET vs == Answered(bin)
          values == [i \in DOMAIN vs |-> Stored(vs[i].v)] IN
      /\ bin \in DOMAIN got.record <=> vs # << >> /\ got.bins # "None"
      /\ bin \in DOMAIN got.record =>
           got.record[bin] = CASE Len(vs) = 1 -> values[1]
                               [] Len(vs) > 1 /\ vs[1].v.t # "List" -> List(values)
                               [] OTHER -> List(values[1].l \o Tail(values))

\* With the INVERTED flag an operation selects the items outside of its range: the flag
\* reaches the server (operations/lists.rs, ListReturnType::Inverted).
InvertedArrives ==
  phase = "sent" /\ req.cmd = "operate" /\ req.inverted =>
    ReadPayload("CdtListOp", Received.ops[1].content).args[1] = IntVal(\h10000)
=============================================================================
