----------------------------- MODULE Operations -----------------------------
(***************************************************************************)
(* Operations of operate() and how they are encoded (operations/mod.rs,    *)
(* operations/cdt.rs, operations/cdt_context.rs and the encoders           *)
(* pack_cdt_op, pack_cdt_bit_op and pack_hll_op of msgpack/encoder.rs).    *)
(***************************************************************************)
EXTENDS MsgPack

\* OperationBin: no bin, all bins or the name of one.
BinNone == [k |-> "None", s |-> ""]
BinAll == [k |-> "All", s |-> ""]
BinName(s) == [k |-> "Name", s |-> s]

Operation(op, bin, data) == [op |-> op, ctx |-> << >>, bin |-> bin, data |-> data]
set_context(operation, ctx) == [operation EXCEPT !.ctx = ctx]

\* OperationData.
NoData == [k |-> "None"]
ValueData(v) == [k |-> "Value", v |-> v]
CdtOperation(k, op, args) == [k |-> k, op |-> op, args |-> args]

\* CdtArgument::Byte, of something cast to u8.  The other arguments are values already.
Byte(b) == IntVal(b % 2 ^ 8)
-----------------------------------------------------------------------------
(* Contexts: where in a nested list or map the operation applies. *)

CtxType ==
  [ListIndex |-> \h10, ListRank |-> \h11, ListValue |-> \h13,
   MapIndex |-> \h20, MapRank |-> \h21, MapKey |-> \h22, MapValue |-> \h23]

CdtContext(id, flags, value) == [id |-> id, flags |-> flags, value |-> value]

ListOrderType == [Unordered |-> 0, Ordered |-> 1]
MapOrder == [Unordered |-> 0, KeyOrdered |-> 1, KeyValueOrdered |-> 3]

list_order_flag(order, pad) ==
  IF order = ListOrderType.Ordered THEN \hc0 ELSE IF pad THEN \h80 ELSE \h40

map_order_flag(order) ==
  CASE order = MapOrder.KeyOrdered -> \h80
    [] order = MapOrder.Unordered -> \h40
    [] order = MapOrder.KeyValueOrdered -> \hc0

ctx_list_index(index) == CdtContext(CtxType.ListIndex, 0, IntVal(index))
ctx_list_index_create(index, order, pad) ==
  CdtContext(CtxType.ListIndex, list_order_flag(order, pad), IntVal(index))
ctx_list_rank(rank) == CdtContext(CtxType.ListRank, 0, IntVal(rank))
ctx_list_value(key) == CdtContext(CtxType.ListValue, 0, key)
ctx_map_index(key) == CdtContext(CtxType.MapIndex, 0, key)
ctx_map_rank(rank) == CdtContext(CtxType.MapRank, 0, IntVal(rank))
ctx_map_key(key) == CdtContext(CtxType.MapKey, 0, key)
ctx_map_key_create(key, order) == CdtContext(CtxType.MapKey, map_order_flag(order), key)
ctx_map_value(key) == CdtContext(CtxType.MapValue, 0, key)
-----------------------------------------------------------------------------
(* The encoders. *)

pack_int(n) == pack_integer(I64(n))
PackAll(vs) == Cat([i \in DOMAIN vs |-> pack_value(vs[i])])

\* The steps of a context, each with the given id.
PackContext(ctx, ids) ==
  Cat(<<pack_array_begin(3), pack_int(\hff), pack_array_begin(2 * Len(ctx))>>
        \o [i \in DOMAIN ctx |-> Cat(<<pack_int(ids[i]), pack_value(ctx[i].value)>>)])

\* The bits of the flags are above those of the id: or is a sum.
IdsWithFlags(ctx) == [i \in DOMAIN ctx |-> ctx[i].id + ctx[i].flags]

CodeAndArgs(op, args) == Cat(<<pack_array_begin(Len(args) + 1), pack_int(op), PackAll(args)>>)

pack_cdt_op(cdt, ctx) ==
  IF ctx = << >>
  THEN Cat(<<pack_raw_u16(cdt.op)>>
             \o (IF cdt.args = << >> THEN << >> ELSE <<pack_array_begin(Len(cdt.args))>>)
             \o <<PackAll(cdt.args)>>)
  ELSE Cat(<<PackContext(ctx, IdsWithFlags(ctx)), CodeAndArgs(cdt.op, cdt.args)>>)

pack_hll_op(hll, ctx) == CodeAndArgs(hll.op, hll.args)

pack_cdt_bit_op(cdt, ctx) ==
  Cat((IF ctx = << >> THEN << >> ELSE <<PackContext(ctx, IdsWithFlags(ctx))>>)
        \o <<CodeAndArgs(cdt.op, cdt.args)>>)

Encode(cdt, ctx) ==
  CASE cdt.k \in {"CdtListOp", "CdtMapOp"} -> pack_cdt_op(cdt, ctx)
    [] cdt.k = "CdtBitOp" -> pack_cdt_bit_op(cdt, ctx)
    [] cdt.k = "HLLOp" -> pack_hll_op(cdt, ctx)
=============================================================================
