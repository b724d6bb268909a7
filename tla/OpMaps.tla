------------------------------- MODULE OpMaps --------------------------------
(***************************************************************************)
(* operations/maps.rs: the map operations of operate().                    *)
(***************************************************************************)
EXTENDS Operations

CdtMapOpType ==
  [SetType |-> 64, Add |-> 65, AddItems |-> 66, Put |-> 67, PutItems |-> 68, Replace |-> 69,
   ReplaceItems |-> 70, Increment |-> 73, Decrement |-> 74, Clear |-> 75, RemoveByKey |-> 76,
   RemoveByIndex |-> 77, RemoveByRank |-> 79, RemoveKeyList |-> 81, RemoveByValue |-> 82,
   RemoveValueList |-> 83, RemoveByKeyInterval |-> 84, RemoveByIndexRange |-> 85,
   RemoveByValueInterval |-> 86, RemoveByRankRange |-> 87, RemoveByKeyRelIndexRange |-> 88,
   RemoveByValueRelRankRange |-> 89, Size |-> 96, GetByKey |-> 97, GetByIndex |-> 98,
   GetByRank |-> 100, GetByValue |-> 102, GetByKeyInterval |-> 103, GetByIndexRange |-> 104,
   GetByValueInterval |-> 105, GetByRankRange |-> 106, GetByKeyList |-> 107,
   GetByValueList |-> 108, GetByKeyRelIndexRange |-> 109, GetByValueRelRankRange |-> 110]

MapReturnType ==
  [None |-> 0, Index |-> 1, ReverseIndex |-> 2, Rank |-> 3, ReverseRank |-> 4, Count |-> 5,
   Key |-> 6, Value |-> 7, KeyValue |-> 8, Inverted |-> \h10000]

MapPolicy(order, mode) == [order |-> order, write_mode |-> mode]

\* The name of the operation that writes one item, or several.
map_write_op(policy, multi) ==
  CASE policy.write_mode = "Update" -> IF multi THEN "PutItems" ELSE "Put"
    [] policy.write_mode = "UpdateOnly" -> IF multi THEN "ReplaceItems" ELSE "Replace"
    [] policy.write_mode = "CreateOnly" -> IF multi THEN "AddItems" ELSE "Add"

\* The order of the map, which a replace does not take: no argument, or one.
map_order_arg(policy) ==
  IF policy.write_mode = "UpdateOnly" THEN << >> ELSE <<Byte(policy.order)>>

WriteOp(bin, op, args) ==
  Operation(OperationType.CdtWrite, BinName(bin), CdtOperation("CdtMapOp", CdtMapOpType[op], args))
ReadOp(bin, op, args) ==
  Operation(OperationType.CdtRead, BinName(bin), CdtOperation("CdtMapOp", CdtMapOpType[op], args))

\* A nil value is left out.
IfNotNil(v) == IF v = Nil THEN << >> ELSE <<v>>

set_order(bin, order) == WriteOp(bin, "SetType", <<Byte(order)>>)
put(policy, bin, key, val) ==
  WriteOp(bin, map_write_op(policy, FALSE), <<key>> \o IfNotNil(val) \o map_order_arg(policy))
put_items_OneItem(policy, bin, items) ==
  WriteOp(bin, map_write_op(policy, FALSE), <<HashMap(items)>> \o map_order_arg(policy))
put_items(policy, bin, items) ==
  WriteOp(bin, map_write_op(policy, TRUE), <<HashMap(items)>> \o map_order_arg(policy))
increment_value(policy, bin, key, incr) ==
  WriteOp(bin, "Increment", <<key>> \o IfNotNil(incr) \o map_order_arg(policy))
decrement_value(policy, bin, key, decr) ==
  WriteOp(bin, "Decrement", <<key>> \o IfNotNil(decr) \o map_order_arg(policy))
clear(bin) == WriteOp(bin, "Clear", << >>)
remove_by_key(bin, key, rt) == WriteOp(bin, "RemoveByKey", <<Byte(rt), key>>)
remove_by_key_list(bin, keys, rt) == WriteOp(bin, "RemoveKeyList", <<Byte(rt), List(keys)>>)
remove_by_key_range(bin, begin, end, rt) ==
  WriteOp(bin, "RemoveByKeyInterval", <<Byte(rt), begin>> \o IfNotNil(end))
remove_by_value(bin, value, rt) == WriteOp(bin, "RemoveByValue", <<Byte(rt), value>>)
remove_by_value_list(bin, values, rt) == WriteOp(bin, "RemoveValueList", <<Byte(rt), List(values)>>)
remove_by_value_range(bin, begin, end, rt) ==
  WriteOp(bin, "RemoveByValueInterval", <<Byte(rt), begin>> \o IfNotNil(end))
remove_by_index(bin, index, rt) == WriteOp(bin, "RemoveByIndex", <<Byte(rt), IntVal(index)>>)
remove_by_index_range(bin, index, count, rt) ==
  WriteOp(bin, "RemoveByIndexRange", <<Byte(rt), IntVal(index), IntVal(count)>>)
remove_by_index_range_from(bin, index, rt) ==
  WriteOp(bin, "RemoveByIndexRange", <<Byte(rt), IntVal(index)>>)
remove_by_rank(bin, rank, rt) == WriteOp(bin, "RemoveByRank", <<Byte(rt), IntVal(rank)>>)
remove_by_rank_range(bin, rank, count, rt) ==
  WriteOp(bin, "RemoveByRankRange", <<Byte(rt), IntVal(rank), IntVal(count)>>)
remove_by_rank_range_from(bin, rank, rt) ==
  WriteOp(bin, "RemoveByRankRange", <<Byte(rt), IntVal(rank)>>)
remove_by_key_relative_index_range(bin, key, index, rt) ==
  WriteOp(bin, "RemoveByKeyRelIndexRange", <<Byte(rt), key, IntVal(index)>>)
remove_by_key_relative_index_range_count(bin, key, index, count, rt) ==
  WriteOp(bin, "RemoveByKeyRelIndexRange", <<Byte(rt), key, IntVal(index), IntVal(count)>>)
remove_by_value_relative_rank_range(bin, value, rank, rt) ==
  WriteOp(bin, "RemoveByValueRelRankRange", <<Byte(rt), value, IntVal(rank)>>)
remove_by_value_relative_rank_range_count(bin, value, rank, count, rt) ==
  WriteOp(bin, "RemoveByValueRelRankRange", <<Byte(rt), value, IntVal(rank), IntVal(count)>>)
size(bin) == ReadOp(bin, "Size", << >>)
get_by_key(bin, key, rt) == ReadOp(bin, "GetByKey", <<Byte(rt), key>>)
get_by_key_range(bin, begin, end, rt) ==
  ReadOp(bin, "GetByKeyInterval", <<Byte(rt), begin>> \o IfNotNil(end))
get_by_key_list(bin, keys, rt) == ReadOp(bin, "GetByKeyList", <<Byte(rt), List(keys)>>)
get_by_value(bin, value, rt) == ReadOp(bin, "GetByValue", <<Byte(rt), value>>)
get_by_value_range(bin, begin, end, rt) ==
  ReadOp(bin, "GetByValueInterval", <<Byte(rt), begin>> \o IfNotNil(end))
get_by_value_list(bin, values, rt) == ReadOp(bin, "GetByValueList", <<Byte(rt), List(values)>>)
get_by_index(bin, index, rt) == ReadOp(bin, "GetByIndex", <<Byte(rt), IntVal(index)>>)
get_by_index_range(bin, index, count, rt) ==
  ReadOp(bin, "GetByIndexRange", <<Byte(rt), IntVal(index), IntVal(count)>>)
get_by_index_range_from(bin, index, rt) == ReadOp(bin, "GetByIndexRange", <<Byte(rt), IntVal(index)>>)
get_by_rank(bin, rank, rt) == ReadOp(bin, "GetByRank", <<Byte(rt), IntVal(rank)>>)
get_by_rank_range(bin, rank, count, rt) ==
  ReadOp(bin, "GetByRankRange", <<Byte(rt), IntVal(rank), IntVal(count)>>)
get_by_rank_range_from(bin, rank, rt) == ReadOp(bin, "GetByRankRange", <<Byte(rt), IntVal(rank)>>)
get_by_key_relative_index_range(bin, key, index, rt) ==
  ReadOp(bin, "GetByKeyRelIndexRange", <<Byte(rt), key, IntVal(index)>>)
get_by_key_relative_index_range_count(bin, key, index, count, rt) ==
  ReadOp(bin, "GetByKeyRelIndexRange", <<Byte(rt), key, IntVal(index), IntVal(count)>>)
get_by_value_relative_rank_range(bin, value, rank, rt) ==
  ReadOp(bin, "GetByValueRelRankRange", <<Byte(rt), value, IntVal(rank)>>)
get_by_value_relative_rank_range_count(bin, value, rank, count, rt) ==
  ReadOp(bin, "GetByValueRelRankRange", <<Byte(rt), value, IntVal(rank), IntVal(count)>>)
==============================================================================
