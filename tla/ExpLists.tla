------------------------------ MODULE ExpLists -------------------------------
(***************************************************************************)
(* expressions/lists.rs: the list operations as expressions.               *)
(***************************************************************************)
EXTENDS Expressions

Op == INSTANCE OpLists
LOCAL None == Op!ListReturnType.None

MODULE_LIST == 0

add_read(bin, type, ctx, op, args) ==
  Call(bin, MODULE_LIST, type, ctx, Op!CdtListOpType[op], args)

\* A change of a nested list yields the outermost collection.
add_write(bin, ctx, op, args) ==
  LET type == IF ctx = << >> THEN "LIST"
              ELSE IF (ctx[1].id \div CtxType.ListIndex) % 2 = 0 THEN "MAP" ELSE "LIST" IN
  Call(bin, MODULE_LIST + MODIFY, type, ctx, Op!CdtListOpType[op], args)

get_value_type(rt) == IF rt % 2 ^ 8 = Op!ListReturnType.Values THEN "LIST" ELSE "INT"

append(policy, value, bin, ctx) ==
  add_write(bin, ctx, "Append", <<ArgExp(value), Flag(policy.attributes), Flag(policy.flags)>>)
append_items(policy, list, bin, ctx) ==
  add_write(bin, ctx, "AppendItems", <<ArgExp(list), Flag(policy.attributes), Flag(policy.flags)>>)
insert(policy, index, value, bin, ctx) ==
  add_write(bin, ctx, "Insert", <<ArgExp(index), ArgExp(value), Flag(policy.flags)>>)
insert_items(policy, index, list, bin, ctx) ==
  add_write(bin, ctx, "InsertItems", <<ArgExp(index), ArgExp(list), Flag(policy.flags)>>)
increment(policy, index, value, bin, ctx) ==
  add_write(bin, ctx, "Increment",
            <<ArgExp(index), ArgExp(value), Flag(policy.attributes), Flag(policy.flags)>>)
set(policy, index, value, bin, ctx) ==
  add_write(bin, ctx, "Set", <<ArgExp(index), ArgExp(value), Flag(policy.flags)>>)
clear(bin, ctx) == add_write(bin, ctx, "Clear", << >>)
sort(flags, bin, ctx) == add_write(bin, ctx, "Sort", <<Flag(flags)>>)
remove_by_value(value, bin, ctx) == add_write(bin, ctx, "RemoveByValue", <<Flag(None), ArgExp(value)>>)
remove_by_value_list(values, bin, ctx) ==
  add_write(bin, ctx, "RemoveByValueList", <<Flag(None), ArgExp(values)>>)
remove_by_value_range(begin, end, bin, ctx) ==
  add_write(bin, ctx, "RemoveByValueInterval", <<Flag(None)>> \o BeginArg(begin) \o EndArg(end))
remove_by_value_relative_rank_range(value, rank, bin, ctx) ==
  add_write(bin, ctx, "RemoveByValueRelRankRange", <<Flag(None), ArgExp(value), ArgExp(rank)>>)
remove_by_value_relative_rank_range_count(value, rank, count, bin, ctx) ==
  add_write(bin, ctx, "RemoveByValueRelRankRange",
            <<Flag(None), ArgExp(value), ArgExp(rank), ArgExp(count)>>)
remove_by_index(index, bin, ctx) == add_write(bin, ctx, "RemoveByIndex", <<Flag(None), ArgExp(index)>>)
remove_by_index_range(index, bin, ctx) ==
  add_write(bin, ctx, "RemoveByIndexRange", <<Flag(None), ArgExp(index)>>)
remove_by_index_range_count(index, count, bin, ctx) ==
  add_write(bin, ctx, "RemoveByIndexRange", <<Flag(None), ArgExp(index), ArgExp(count)>>)
remove_by_rank(rank, bin, ctx) == add_write(bin, ctx, "RemoveByRank", <<Flag(None), ArgExp(rank)>>)
remove_by_rank_range(rank, bin, ctx) ==
  add_write(bin, ctx, "RemoveByRankRange", <<Flag(None), ArgExp(rank)>>)
remove_by_rank_range_count(rank, count, bin, ctx) ==
  add_write(bin, ctx, "RemoveByRankRange", <<Flag(None), ArgExp(rank), ArgExp(count)>>)
size(bin, ctx) == add_read(bin, "INT", ctx, "Size", << >>)
get_by_value(rt, value, bin, ctx) ==
  add_read(bin, get_value_type(rt), ctx, "GetByValue", <<Flag(rt), ArgExp(value)>>)
get_by_value_range(rt, begin, end, bin, ctx) ==
  add_read(bin, get_value_type(rt), ctx, "GetByValueInterval",
           <<Flag(rt)>> \o BeginArg(begin) \o EndArg(end))
get_by_value_list(rt, values, bin, ctx) ==
  add_read(bin, get_value_type(rt), ctx, "GetByValueList", <<Flag(rt), ArgExp(values)>>)
get_by_value_relative_rank_range(rt, value, rank, bin, ctx) ==
  add_read(bin, get_value_type(rt), ctx, "GetByValueRelRankRange",
           <<Flag(rt), ArgExp(value), ArgExp(rank)>>)
get_by_value_relative_rank_range_count(rt, value, rank, count, bin, ctx) ==
  add_read(bin, get_value_type(rt), ctx, "GetByValueRelRankRange",
           <<Flag(rt), ArgExp(value), ArgExp(rank), ArgExp(count)>>)
get_by_index(rt, type, index, bin, ctx) ==
  add_read(bin, type, ctx, "GetByIndex", <<Flag(rt), ArgExp(index)>>)
get_by_index_range(rt, index, bin, ctx) ==
  add_read(bin, get_value_type(rt), ctx, "GetByIndexRange", <<Flag(rt), ArgExp(index)>>)
get_by_index_range_count(rt, index, count, bin, ctx) ==
  add_read(bin, get_value_type(rt), ctx, "GetByIndexRange", <<Flag(rt), ArgExp(index), ArgExp(count)>>)
get_by_rank(rt, type, rank, bin, ctx) ==
  add_read(bin, type, ctx, "GetByRank", <<Flag(rt), ArgExp(rank)>>)
get_by_rank_range(rt, rank, bin, ctx) ==
  add_read(bin, get_value_type(rt), ctx, "GetByRankRange", <<Flag(rt), ArgExp(rank)>>)
get_by_rank_range_count(rt, rank, count, bin, ctx) ==
  add_read(bin, get_value_type(rt), ctx, "GetByRankRange", <<Flag(rt), ArgExp(rank), ArgExp(count)>>)
==============================================================================
