------------------------------- MODULE ExpMaps -------------------------------
(***************************************************************************)
(* expressions/maps.rs: the map operations as expressions.                 *)
(***************************************************************************)
EXTENDS Expressions

Op == INSTANCE OpMaps
LOCAL None == Op!MapReturnType.None

MODULE_MAP == 0

add_read(bin, type, ctx, op, args) == Call(bin, MODULE_MAP, type, ctx, Op!CdtMapOpType[op], args)

add_write(bin, ctx, op, args) ==
  LET type == IF ctx = << >> THEN "MAP"
              ELSE IF (ctx[1].id \div CtxType.ListIndex) % 2 = 0 THEN "MAP" ELSE "LIST" IN
  Call(bin, MODULE_MAP + MODIFY, type, ctx, Op!CdtMapOpType[op], args)

get_value_type(rt) ==
  LET t == rt % 2 ^ 8 IN
  IF t \in {Op!MapReturnType.Key, Op!MapReturnType.Value} THEN "LIST"
  ELSE IF t = Op!MapReturnType.KeyValue THEN "MAP" ELSE "INT"

\* Only the replace of a single item is known to take no order.
OrderFlag(policy, op) == IF op = "Replace" THEN << >> ELSE <<Flag(policy.order)>>

put(policy, key, value, bin, ctx) ==
  LET op == Op!map_write_op(policy, FALSE) IN
  add_write(bin, ctx, op, <<ArgExp(key), ArgExp(value)>> \o OrderFlag(policy, op))
put_items(policy, map, bin, ctx) ==
  LET op == Op!map_write_op(policy, TRUE) IN
  add_write(bin, ctx, op, <<ArgExp(map)>> \o OrderFlag(policy, op))
increment(policy, key, incr, bin, ctx) ==
  add_write(bin, ctx, "Increment", <<ArgExp(key), ArgExp(incr), Flag(policy.order)>>)
clear(bin, ctx) == add_write(bin, ctx, "Clear", << >>)
remove_by_key(key, bin, ctx) == add_write(bin, ctx, "RemoveByKey", <<Flag(None), ArgExp(key)>>)
remove_by_key_list(keys, bin, ctx) ==
  add_write(bin, ctx, "RemoveKeyList", <<Flag(None), ArgExp(keys)>>)
remove_by_key_range(begin, end, bin, ctx) ==
  add_write(bin, ctx, "RemoveByKeyInterval", <<Flag(None)>> \o BeginArg(begin) \o EndArg(end))
remove_by_key_relative_index_range(key, index, bin, ctx) ==
  add_write(bin, ctx, "RemoveByKeyRelIndexRange", <<Flag(None), ArgExp(key), ArgExp(index)>>)
remove_by_key_relative_index_range_count(key, index, count, bin, ctx) ==
  add_write(bin, ctx, "RemoveByKeyRelIndexRange",
            <<Flag(None), ArgExp(key), ArgExp(index), ArgExp(count)>>)
remove_by_value(value, bin, ctx) == add_write(bin, ctx, "RemoveByValue", <<Flag(None), ArgExp(value)>>)
remove_by_value_list(values, bin, ctx) ==
  add_write(bin, ctx, "RemoveValueList", <<Flag(None), ArgExp(values)>>)
remove_by_value_range(begin, end, bin, ctx) ==
  add_write(bin, ctx, "RemoveByValueInterval", <<Flag(None)>> \o BeginArg(begin) \o EndArg(end))
remove_by_value_relative_rank_range(value, rank, bin, ctx) ==
  add_write(bin, ctx, "RemoveByValueRelRankRange", <<Flag(None), ArgExp(value), ArgExp(rank)>>)
remove_by_value_relative_rank_range_count(value, rank, count, bin, ctx) ==
  add_write(bin, ctx, "RemoveByValueRelRankRange",
            <<Flag(None), ArgExp(value), ArgExp(rank), ArgExp(count)>>)
remove_by_index(index, bin, ctx) == add_write(bin, ctx, "RemoveByIndex", <<Flag(None), ArgExp(index)>>)
remove_by_index_range(index, bin, ctx) ==
  add_write(bin, ctx, "RemoveByIndexRange", <<Flag(None), ArgExp(index)>>)
remove_by_index_range_count(index, count, bin, ctx) ==
  add_write(bin, ctx, "RemoveByIndexRange", <<Flag(None), ArgExp(index), ArgExp(count)>>)
remove_by_rank(rank, bin, ctx) == add_write(bin, ctx, "RemoveByRank", <<Flag(None), ArgExp(rank)>>)
remove_by_rank_range(rank, bin, ctx) ==
  add_write(bin, ctx, "RemoveByRankRange", <<Flag(None), ArgExp(rank)>>)
remove_by_rank_range_count(rank, count, bin, ctx) ==
  add_write(bin, ctx, "RemoveByRankRange", <<Flag(None), ArgExp(rank), ArgExp(count)>>)
size(bin, ctx) == add_read(bin, "INT", ctx, "Size", << >>)
get_by_key(rt, type, key, bin, ctx) ==
  add_read(bin, type, ctx, "GetByKey", <<Flag(rt), ArgExp(key)>>)
get_by_key_range(rt, begin, end, bin, ctx) ==
  add_read(bin, get_value_type(rt), ctx, "GetByKeyInterval",
           <<Flag(rt)>> \o BeginArg(begin) \o EndArg(end))
get_by_key_list(rt, keys, bin, ctx) ==
  add_read(bin, get_value_type(rt), ctx, "GetByKeyList", <<Flag(rt), ArgExp(keys)>>)
get_by_key_relative_index_range(rt, key, index, bin, ctx) ==
  add_read(bin, get_value_type(rt), ctx, "GetByKeyRelIndexRange",
           <<Flag(rt), ArgExp(key), ArgExp(index)>>)
get_by_key_relative_index_range_count(rt, key, index, count, bin, ctx) ==
  add_read(bin, get_value_type(rt), ctx, "GetByKeyRelIndexRange",
           <<Flag(rt), ArgExp(key), ArgExp(index), ArgExp(count)>>)
get_by_value(rt, value, bin, ctx) ==
  add_read(bin, get_value_type(rt), ctx, "GetByValue", <<Flag(rt), ArgExp(value)>>)
get_by_value_range(rt, begin, end, bin, ctx) ==
  add_read(bin, get_value_type(rt), ctx, "GetByValueInterval",
           <<Flag(rt)>> \o BeginArg(begin) \o EndArg(end))
get_by_value_list(rt, values, bin, ctx) ==
  add_read(bin, get_value_type(rt), ctx, "GetByValueList", <<Flag(rt), ArgExp(values)>>)
get_by_value_relative_rank_range(rt, value, rank, bin, ctx) ==
  add_read(bin, get_value_type(rt), ctx, "GetByValueRelRankRange",
           <<Flag(rt), ArgExp(value), ArgExp(rank)>>)
get_by_value_relative_rank_range_count(rt, value, rank, count, bin, ctx) ==
  add_read(bin, get_value_type(rt), ctx, "GetByValueRelRankRange",
           <<Flag(rt), ArgExp(value), ArgExp(rank), ArgExp(count)>>)
get_by_index(rt, type, index, bin, ctx) ==
  add_read(bin, type, ctx, "GetByIndex", <<Flag(rt), ArgExp(index)>>)
get_by_index_range(rt, index, bin, ctx) ==
  add_read(bin, get_value_type(rt), ctx, "GetByIndexRange", <<Flag(rt), ArgExp(index)>>)
get_by_index_range_count(rt, index, count, bin, ctx) ==
  add_read(bin, get_value_type(rt), ctx, "GetByIndexRange", <<Flag(rt), ArgExp(index), ArgExp(count)>>)
get_by_rank(rt, type, rank, bin, ctx) ==
  add_read(bin, type, ctx, "GetByRank", <<Flag(rt), ArgExp(rank)>>)
get_by_rank_range(rt, rank, bin, ctx) ==
  add_read(bin, get_value_type(rt), ctx, "GetByRankRange", <<Flag(rt), ArgExp(rank)>>)
get_by_rank_range_count(rt, rank, count, bin, ctx) ==
  add_read(bin, get_value_type(rt), ctx, "GetByRankRange", <<Flag(rt), ArgExp(rank), ArgExp(count)>>)
==============================================================================
