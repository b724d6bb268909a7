----------------------------- MODULE WireBuffer -----------------------------
(***************************************************************************)
(* The messages of commands/buffer.rs behind their headers: what each      *)
(* set_ function estimates, counts and writes, and the decoding of a       *)
(* record.  These are the parameters of WireConnection.                    *)
(***************************************************************************)
EXTENDS WireConnection, Expressions

-----------------------------------------------------------------------------
(* Sizes and codes. *)

FIELD_HEADER_SIZE == 5
OPERATION_HEADER_SIZE == 8
DIGEST_SIZE == 20

FieldType ==
  [Namespace |-> 0, Table |-> 1, Key |-> 2, DigestRipe |-> 4, TranId |-> 7, ScanTimeout |-> 9,
   PIDArray |-> 11, IndexName |-> 21, IndexRange |-> 22, IndexType |-> 26, UdfPackageName |-> 30,
   UdfFunction |-> 31, UdfArgList |-> 32, UdfOp |-> 33, QueryBinList |-> 40, BatchIndex |-> 41,
   BatchIndexWithSet |-> 42, FilterExp |-> 43]

SumOver(s, Term(_)) == FoldLeft(LAMBDA n, x : n + Term(x), 0, s)
Concat(s, Toks(_)) == FoldLeft(LAMBDA toks, x : toks \o Toks(x), << >>, s)

\* write_u8 to write_u64, write_str and write_bytes.  No bytes, no token.  A length or a
\* count is cast to 8 or 16 bits where it is written.
U8(n) == <<B(n % 256)>>
U16(n) == <<Raw(2, u16(n))>>
U32(n) == <<Raw(4, n)>>
U64(n) == <<Raw(8, n)>>
write_str(s) == IF s = "" THEN << >> ELSE <<Raw(Len(s), s)>>
-----------------------------------------------------------------------------
(* Estimates: of a size in bytes, and of the fields it is for. *)

Est(size, fields) == [size |-> size, fields |-> fields]
NamedField(s) == IF s = "" THEN Est(0, 0) ELSE Est(Len(s) + FIELD_HEADER_SIZE, 1)
Plus(ests) == Est(SumOver(ests, LAMBDA e : e.size), SumOver(ests, LAMBDA e : e.fields))

estimate_filter_size(filter) ==
  IF filter = << >> THEN Est(0, 0) ELSE Est(pack(filter[1]).size + FIELD_HEADER_SIZE, 1)

estimate_key_size_NoType(key, send_key) ==
  Plus(<<NamedField(key.namespace), NamedField(key.set_name),
         Est(DIGEST_SIZE + FIELD_HEADER_SIZE, 1)>>
       \o IF send_key /\ key.user_key # << >>
          THEN <<Est(estimate_size(key.user_key[1]) + FIELD_HEADER_SIZE, 1)>> ELSE << >>)

estimate_key_size(key, send_key) ==
  Plus(<<NamedField(key.namespace), NamedField(key.set_name),
         Est(DIGEST_SIZE + FIELD_HEADER_SIZE, 1)>>
       \o IF send_key /\ key.user_key # << >>
          THEN <<Est(estimate_size(key.user_key[1]) + FIELD_HEADER_SIZE + 1, 1)>> ELSE << >>)

PackedArgs(args) == IF args = << >> THEN pack_empty_args_array ELSE pack_array(args[1])
estimate_args_size(args) == PackedArgs(args).size + FIELD_HEADER_SIZE

estimate_udf_size(package, function, args) ==
  Est(Len(package) + FIELD_HEADER_SIZE + Len(function) + FIELD_HEADER_SIZE + estimate_args_size(args),
      3)

estimate_operation_size == OPERATION_HEADER_SIZE
estimate_operation_size_for_bin_name(name) == Len(name) + OPERATION_HEADER_SIZE
estimate_operation_size_for_bin(bin) ==
  Len(bin.name) + OPERATION_HEADER_SIZE + estimate_size(bin.value)

\* Operation::estimate_size, of its bin and of its data.
DataOf(operation) ==
  LET d == operation.data IN
  CASE d.k = "None" -> Packed(0, << >>)
    [] d.k = "Value" -> Packed(estimate_size(d.v), write_to(d.v))
    [] d.k = "EXPOp" -> pack_exp_op(d)
    [] OTHER -> Encode(d, operation.ctx)
Operation_estimate_size(operation) == Len(operation.bin.s) + DataOf(operation).size

\* Filter::estimate_size and Filter::write; a filter has a bin name, a type and two values.
Filter_estimate_size(f) == Len(f.bin_name) + estimate_size(f.begin) + estimate_size(f.end) + 10
Filter_write(f) ==
  U8(Len(f.bin_name)) \o write_str(f.bin_name) \o U8(f.value_particle_type)
    \o U32(estimate_size(f.begin)) \o write_to(f.begin)
    \o U32(estimate_size(f.end)) \o write_to(f.end)
-----------------------------------------------------------------------------
(* Fields and operations. *)

write_field_header(size, ftype) == U32(size + 1) \o U8(FieldType[ftype])
write_field_string(s, ftype) == write_field_header(Len(s), ftype) \o write_str(s)
write_field_bytes(digest, ftype) == write_field_header(DIGEST_SIZE, ftype) \o <<Raw(DIGEST_SIZE, digest)>>
write_field_value(v, ftype) ==
  write_field_header(estimate_size(v) + 1, ftype) \o U8(particle_type(v)) \o write_to(v)
write_args(args, ftype) == write_field_header(PackedArgs(args).size, ftype) \o PackedArgs(args).toks
IfNamed(s, ftype) == IF s = "" THEN << >> ELSE write_field_string(s, ftype)

write_filter_expression(filter) ==
  Concat(filter, LAMBDA f : write_field_header(pack(f).size, "FilterExp") \o pack(f).toks)

write_key(key, send_key) ==
  IfNamed(key.namespace, "Namespace") \o IfNamed(key.set_name, "Table")
    \o write_field_bytes(key.digest, "DigestRipe")
    \o IF send_key THEN Concat(key.user_key, LAMBDA v : write_field_value(v, "Key")) ELSE << >>

OpHeader(size, op, ptype, name) == U32(size + 4) \o U8(op) \o U8(ptype) \o U8(0) \o U8(Len(name))

write_operation_for_bin(bin, op_type) ==
  OpHeader(Len(bin.name) + estimate_size(bin.value), op_type, particle_type(bin.value), bin.name)
    \o write_str(bin.name) \o write_to(bin.value)
write_operation_for_bin_name(name) ==
  OpHeader(Len(name), OperationType.Read, 0, name) \o write_str(name)
write_operation_for_operation_type(op_type) == OpHeader(0, op_type, 0, "")

\* Operation::write_to and write_op_header_to.
Operation_write_to(operation) ==
  LET d == operation.data
      ptype == CASE d.k = "None" -> ParticleType.Nil
                 [] d.k = "Value" -> particle_type(d.v)
                 [] OTHER -> ParticleType.Blob IN
  OpHeader(Operation_estimate_size(operation), operation.op, ptype, operation.bin.s)
    \o write_str(operation.bin.s) \o DataOf(operation).toks

\* Bins::None, Bins::All and Bins::Some: the names to read, if only some are.
NamesOf(bins) == IF bins.k = "Some" THEN bins.names ELSE << >>
BinNameOps(names) == Concat(names, write_operation_for_bin_name)
BinNamesSize(names) == SumOver(names, estimate_operation_size_for_bin_name)
-----------------------------------------------------------------------------
(* The messages: the size estimated before anything is written, the fields    *)
(* and operations announced in the header, and the tokens behind it.          *)

Body(est, nfields, nops, toks) == [est |-> est, fields |-> nfields, ops |-> nops, body |-> toks]

set_write(r) ==
  LET k == Plus(<<estimate_key_size(r.key, r.policy.send_key), estimate_filter_size(r.policy.filter)>>) IN
  Body(k.size + SumOver(r.bins, estimate_operation_size_for_bin),
       k.fields, Len(r.bins),
       write_key(r.key, r.policy.send_key) \o write_filter_expression(r.policy.filter)
         \o Concat(r.bins, LAMBDA bin : write_operation_for_bin(bin, r.op_type)))

set_delete(r) ==
  LET k == Plus(<<estimate_key_size(r.key, FALSE), estimate_filter_size(r.policy.filter)>>) IN
  Body(k.size, k.fields, 0,
       write_key(r.key, FALSE) \o write_filter_expression(r.policy.filter))

set_touch(r) ==
  LET k == Plus(<<estimate_key_size(r.key, r.policy.send_key), estimate_filter_size(r.policy.filter)>>) IN
  Body(k.size + estimate_operation_size, k.fields, 1,
       write_key(r.key, r.policy.send_key) \o write_filter_expression(r.policy.filter)
         \o write_operation_for_operation_type(OperationType.Touch))

\* set_exists, set_read_header, set_read_for_key_only and set_read of some bins differ in
\* the names they ask for.
ReadMessage(r, names) ==
  LET k == Plus(<<estimate_key_size(r.key, FALSE), estimate_filter_size(r.policy.filter)>>) IN
  Body(k.size + BinNamesSize(names), k.fields, Len(names),
       write_key(r.key, FALSE) \o write_filter_expression(r.policy.filter) \o BinNameOps(names))

set_exists(r) == ReadMessage(r, << >>)
set_read_header(r) == ReadMessage(r, <<"">>)
set_read_for_key_only(r) == ReadMessage(r, << >>)
set_read(r) ==
  CASE r.bins.k = "None" -> set_read_header(r)
    [] r.bins.k = "All" -> set_read_for_key_only(r)
    [] r.bins.k = "Some" -> ReadMessage(r, r.bins.names)

\* A row of a batch repeats the header of the one before it when nothing in it differs.
match_header_AnyBins(row, other, match_set) ==
  /\ row.key.namespace = other.key.namespace
  /\ match_set /\ row.key.set_name = other.key.set_name

match_header(row, other, match_set) ==
  /\ row.key.namespace = other.key.namespace
  /\ match_set /\ row.key.set_name = other.key.set_name
  /\ row.bins = other.bins

Repeats(r, i) == i > 1 /\ match_header(r.rows[i], r.rows[i - 1], r.policy.send_set_name)

RowSize(r, i) ==
  LET row == r.rows[i] IN
  DIGEST_SIZE + 4
    + IF Repeats(r, i) THEN 1
      ELSE Len(row.key.namespace) + FIELD_HEADER_SIZE + 6
             + (IF r.policy.send_set_name THEN Len(row.key.set_name) + FIELD_HEADER_SIZE ELSE 0)
             + BinNamesSize(NamesOf(row.bins))

Row(r, i) ==
  LET row == r.rows[i] IN
  U32(row.idx) \o <<Raw(DIGEST_SIZE, row.key.digest)>>
    \o IF Repeats(r, i) THEN U8(1)
       ELSE U8(0) \o <<Raw(1, ReadAttr[row.bins.k])>>
              \o U16(IF r.policy.send_set_name THEN 2 ELSE 1) \o U16(Len(NamesOf(row.bins)))
              \o write_field_string(row.key.namespace, "Namespace")
              \o (IF r.policy.send_set_name THEN write_field_string(row.key.set_name, "Table") ELSE << >>)
              \o BinNameOps(NamesOf(row.bins))

\* The size of the batch field is counted from the end of the header: a filter, which comes
\* first, is counted in it.
set_batch_read(r) ==
  LET filter == estimate_filter_size(r.policy.filter)
      is == [i \in DOMAIN r.rows |-> i]
      rows == U32(Len(r.rows)) \o U8(IF r.policy.allow_inline THEN 1 ELSE 0)
                \o Concat(is, LAMBDA i : Row(r, i))
      ftype == IF r.policy.send_set_name THEN "BatchIndexWithSet" ELSE "BatchIndex" IN
  Body(filter.size + FIELD_HEADER_SIZE + 5 + SumOver(is, LAMBDA i : RowSize(r, i)),
       1 + filter.fields, 0,
       write_filter_expression(r.policy.filter)
         \o U32(filter.size + 1 + Size(rows)) \o U8(FieldType[ftype]) \o rows)

set_operate(r) ==
  LET send_key == r.policy.send_key /\ write_attrs(r) # {}
      k == Plus(<<estimate_key_size(r.key, send_key), estimate_filter_size(r.policy.filter)>>) IN
  Body(k.size + SumOver(r.operations, LAMBDA o : Operation_estimate_size(o) + OPERATION_HEADER_SIZE),
       k.fields, Len(r.operations),
       write_key(r.key, send_key) \o write_filter_expression(r.policy.filter)
         \o Concat(r.operations, Operation_write_to))

set_udf(r) ==
  LET k == Plus(<<estimate_key_size(r.key, r.policy.send_key),
                  estimate_udf_size(r.package, r.function, r.args),
                  estimate_filter_size(r.policy.filter)>>) IN
  Body(k.size, k.fields, 0,
       write_key(r.key, r.policy.send_key) \o write_filter_expression(r.policy.filter)
         \o write_field_string(r.package, "UdfPackageName")
         \o write_field_string(r.function, "UdfFunction") \o write_args(r.args, "UdfArgList"))

FixedField(size) == Est(size + FIELD_HEADER_SIZE, 1)
PidField(pids) == write_field_header(2 * Len(pids), "PIDArray") \o Concat(pids, U16)

set_scan(r) ==
  LET k == Plus(<<estimate_filter_size(r.policy.filter), NamedField(r.namespace),
                  NamedField(r.set_name), FixedField(2 * Len(r.pids)), FixedField(4), FixedField(8)>>)
      names == NamesOf(r.bins) IN
  Body(k.size + BinNamesSize(names), k.fields, Len(names),
       IfNamed(r.namespace, "Namespace") \o IfNamed(r.set_name, "Table") \o PidField(r.pids)
         \o write_filter_expression(r.policy.filter)
         \o write_field_header(4, "ScanTimeout") \o U32(r.policy.socket_timeout)
         \o write_field_header(8, "TranId") \o U64(r.task_id) \o BinNameOps(names))

is_scan(r) == r.filters = << >>

BinListSize(names) == 1 + SumOver(names, LAMBDA name : Len(name) + 1)
BinList(names) == U8(Len(names)) \o Concat(names, LAMBDA name : U8(Len(name)) \o write_str(name))

\* A list of no bins is estimated but not written.
set_query(r) ==
  LET filter == r.filters[1]
      names == NamesOf(r.bins)
      typed == ~is_scan(r) /\ filter.index_type # 0
      k == Plus(<<NamedField(r.namespace), NamedField(r.set_name), FixedField(8)>>
                \o [i \in DOMAIN r.index_name |-> NamedField(r.index_name[i])]
                \o (IF is_scan(r) THEN <<FixedField(2 * Len(r.pids))>>
                    ELSE (IF typed THEN <<FixedField(1)>> ELSE << >>)
                           \o <<FixedField(1 + Filter_estimate_size(filter))>>
                           \o (IF r.bins.k = "Some" THEN <<FixedField(BinListSize(names))>> ELSE << >>))
                \o <<estimate_filter_size(r.policy.filter)>>
                \o [i \in DOMAIN r.aggregation |->
                      LET a == r.aggregation[i]
                          u == estimate_udf_size(a.package, a.function, a.args) IN
                      Plus(<<FixedField(1), u>>)])
      ops == IF is_scan(r) THEN names ELSE << >> IN
  Body(k.size + BinNamesSize(ops), k.fields, Len(ops),
       IfNamed(r.namespace, "Namespace") \o Concat(r.index_name, LAMBDA s : IfNamed(s, "IndexName"))
         \o IfNamed(r.set_name, "Table") \o write_field_header(8, "TranId") \o U64(r.task_id)
         \o (IF is_scan(r) THEN PidField(r.pids)
             ELSE (IF typed THEN write_field_header(1, "IndexType") \o U8(filter.index_type) ELSE << >>)
                    \o write_field_header(1 + Filter_estimate_size(filter), "IndexRange")
                    \o U8(1) \o Filter_write(filter)
                    \o IF names = << >> THEN << >>
                       ELSE write_field_header(BinListSize(names), "QueryBinList") \o BinList(names))
         \o write_filter_expression(r.policy.filter)
         \o Concat(r.aggregation,
                   LAMBDA a : write_field_header(1, "UdfOp") \o U8(IF r.bins.k = "None" THEN 2 ELSE 1)
                                \o write_field_string(a.package, "UdfPackageName")
                                \o write_field_string(a.function, "UdfFunction")
                                \o write_args(a.args, "UdfArgList"))
         \o BinNameOps(ops))
\* The message of a request, by its command.
MessageOf(r) ==
  CASE r.cmd = "write" -> set_write(r)
    [] r.cmd = "delete" -> set_delete(r)
    [] r.cmd = "touch" -> set_touch(r)
    [] r.cmd = "exists" -> set_exists(r)
    [] r.cmd = "read" -> set_read(r)
    [] r.cmd = "batch_read" -> set_batch_read(r)
    [] r.cmd = "operate" -> set_operate(r)
    [] r.cmd = "udf" -> set_udf(r)
    [] r.cmd = "scan" -> set_scan(r)
    [] r.cmd = "query" -> set_query(r)
-----------------------------------------------------------------------------
(* A reply: the sizes of its fields, and for each bin answered its name, the  *)
(* value the server holds, and whether the server keeps the list or map in    *)
(* order, when it marks it by a type extension in front (external).           *)

EXT == <<\hc7, 0, 1>>

ServerParticle(v, ordered) ==
  IF ~ordered THEN write_to(v)
  ELSE IF v.t = "List"
       THEN pack_array_begin(Len(v.l) + 1).toks \o Bytes(EXT) \o Concat(v.l, LAMBDA x : pack_value(x).toks)
       ELSE pack_map_begin(Len(v.m) + 1).toks \o Bytes(EXT) \o pack_nil.toks
              \o Concat(v.m, LAMBDA x : pack_value(x[1]).toks \o pack_value(x[2]).toks)

AddBin(record, bin, v) ==
  IF v = Nil THEN record
  ELSE IF bin \notin DOMAIN record THEN record @@ (bin :> v)
  ELSE IF record[bin].t = "List" THEN [record EXCEPT ![bin].l = Append(@, v)]
  ELSE [record EXCEPT ![bin] = List(<<@, v>>)]

\* Where the operations of a reply begin, behind its fields.
OpsOffset(reply) == SumOver(reply.fields, LAMBDA size : 4 + size)

\* Where parse_record looks for them: it reads the size of a field and skips 4 + size.
ParseOffset(reply) == SumOver(reply.fields, LAMBDA size : 4 + (4 + size))

\* What is made of the bytes in the middle of an operation.
Misread == [t |-> "Misread"]

parse_record(reply) ==
  IF reply.answers # << >> /\ ParseOffset(reply) # OpsOffset(reply) THEN Misread
  ELSE FoldLeft(LAMBDA record, x :
                  AddBin(record, x.bin,
                         bytes_to_particle(particle_type(x.v), ServerParticle(x.v, x.ordered))),
                << >>, reply.answers)

\* ReadCommand::parse_result: who asked for no bins gets none.
parse_result(bins, reply) == IF bins = "None" THEN << >> ELSE parse_record(reply)
=============================================================================
