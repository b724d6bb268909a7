------------------------------- MODULE OpLists -------------------------------
(***************************************************************************)
(* operations/lists.rs: the list operations of operate().                  *)
(***************************************************************************)
EXTENDS Operations

CdtListOpType ==
  [SetType |-> 0, Append |-> 1, AppendItems |-> 2, Insert |-> 3, InsertItems |-> 4, Pop |-> 5,
   PopRange |-> 6, Remove |-> 7, RemoveRange |-> 8, Set |-> 9, Trim |-> 10, Clear |-> 11,
   Increment |-> 12, Sort |-> 13, Size |-> 16, Get |-> 17, GetRange |-> 18, GetByIndex |-> 19,
   GetByRank |-> 21, GetByValue |-> 22, GetByValueList |-> 23, GetByIndexRange |-> 24,
   GetByValueInterval |-> 25, GetByRankRange |-> 26, GetByValueRelRankRange |-> 27,
   RemoveByIndex |-> 32, RemoveByRank |-> 34, RemoveByValue |-> 35, RemoveByValueList |-> 36,
   RemoveByIndexRange |-> 37, RemoveByValueInterval |-> 38, RemoveByRankRange |-> 39,
   RemoveByValueRelRankRange |-> 40]

ListReturnType ==
  [None |-> 0, Index |-> 1, ReverseIndex |-> 2, Rank |-> 3, ReverseRank |-> 4, Count |-> 5,
   Values |-> 7, Inverted |-> \h10000]

ListSortFlags == [Default |-> 0, Descending |-> 1, DropDuplicates |-> 2]
ListPolicy(order, flags) == [attributes |-> order, flags |-> flags]

\* The operation of the code named op of CdtListOpType.
WriteOp(bin, op, args) ==
  Operation(OperationType.CdtWrite, BinName(bin), CdtOperation("CdtListOp", CdtListOpType[op], args))
ReadOp(bin, op, args) ==
  Operation(OperationType.CdtRead, BinName(bin), CdtOperation("CdtListOp", CdtListOpType[op], args))

create(bin, order, pad) == WriteOp(bin, "SetType", <<Byte(list_order_flag(order, pad)), Byte(order)>>)
set_order(bin, order, ctx) == set_context(WriteOp(bin, "SetType", <<Byte(order)>>), ctx)
append(policy, bin, value) ==
  WriteOp(bin, "Append", <<value, Byte(policy.attributes), Byte(policy.flags)>>)
append_items(policy, bin, values) ==
  WriteOp(bin, "AppendItems", <<List(values), Byte(policy.attributes), Byte(policy.flags)>>)
insert(policy, bin, index, value) ==
  WriteOp(bin, "Insert", <<IntVal(index), value, Byte(policy.flags)>>)
insert_items(policy, bin, index, values) ==
  WriteOp(bin, "InsertItems", <<IntVal(index), List(values), Byte(policy.flags)>>)
pop(bin, index) == WriteOp(bin, "Pop", <<IntVal(index)>>)
pop_range(bin, index, count) == WriteOp(bin, "PopRange", <<IntVal(index), IntVal(count)>>)
pop_range_from(bin, index) == WriteOp(bin, "PopRange", <<IntVal(index)>>)
remove(bin, index) == WriteOp(bin, "Remove", <<IntVal(index)>>)
remove_range(bin, index, count) == WriteOp(bin, "RemoveRange", <<IntVal(index), IntVal(count)>>)
remove_range_from(bin, index) == WriteOp(bin, "RemoveRange", <<IntVal(index)>>)
remove_by_value(bin, value, rt) == WriteOp(bin, "RemoveByValue", <<Byte(rt), value>>)
remove_by_value_list(bin, values, rt) == WriteOp(bin, "RemoveByValueList", <<Byte(rt), List(values)>>)
remove_by_value_range(bin, rt, begin, end) ==
  WriteOp(bin, "RemoveByValueInterval", <<Byte(rt), begin, end>>)
remove_by_value_relative_rank_range(bin, rt, value, rank) ==
  WriteOp(bin, "RemoveByValueRelRankRange", <<Byte(rt), value, IntVal(rank)>>)
remove_by_value_relative_rank_range_count(bin, rt, value, rank, count) ==
  WriteOp(bin, "RemoveByValueRelRankRange", <<Byte(rt), value, IntVal(rank), IntVal(count)>>)
remove_by_index(bin, index, rt) == WriteOp(bin, "RemoveByIndex", <<Byte(rt), IntVal(index)>>)
remove_by_index_range(bin, index, rt) == WriteOp(bin, "RemoveByIndexRange", <<Byte(rt), IntVal(index)>>)
remove_by_index_range_count(bin, index, count, rt) ==
  WriteOp(bin, "RemoveByIndexRange", <<Byte(rt), IntVal(index), IntVal(count)>>)
remove_by_rank(bin, rank, rt) == WriteOp(bin, "RemoveByRank", <<Byte(rt), IntVal(rank)>>)
remove_by_rank_range(bin, rank, rt) == WriteOp(bin, "RemoveByRankRange", <<Byte(rt), IntVal(rank)>>)
remove_by_rank_range_count(bin, rank, count, rt) ==
  WriteOp(bin, "RemoveByRankRange", <<Byte(rt), IntVal(rank), IntVal(count)>>)
set(bin, index, value) == WriteOp(bin, "Set", <<IntVal(index), value>>)
trim(bin, index, count) == WriteOp(bin, "Trim", <<IntVal(index), IntVal(count)>>)
clear(bin) == WriteOp(bin, "Clear", << >>)
increment(policy, bin, index, value) ==
  WriteOp(bin, "Increment", <<IntVal(index), IntVal(value), Byte(policy.flags)>>)
sort(bin, flags) == WriteOp(bin, "Sort", <<Byte(flags)>>)
size(bin) == ReadOp(bin, "Size", << >>)
get(bin, index) == ReadOp(bin, "Get", <<IntVal(index)>>)
get_range(bin, index, count) == ReadOp(bin, "GetRange", <<IntVal(index), IntVal(count)>>)
get_range_from(bin, index) == ReadOp(bin, "GetRange", <<IntVal(index)>>)
get_by_value(bin, value, rt) == ReadOp(bin, "GetByValue", <<Byte(rt), value>>)
get_by_value_list(bin, values, rt) == ReadOp(bin, "GetByValueList", <<Byte(rt), List(values)>>)
get_by_value_range(bin, begin, end, rt) == ReadOp(bin, "GetByValueInterval", <<Byte(rt), begin, end>>)
get_by_index(bin, index, rt) == ReadOp(bin, "GetByIndex", <<Byte(rt), IntVal(index)>>)
get_by_index_range(bin, index, rt) == ReadOp(bin, "GetByIndexRange", <<Byte(rt), IntVal(index)>>)
get_by_index_range_count(bin, index, count, rt) ==
  ReadOp(bin, "GetByIndexRange", <<Byte(rt), IntVal(index), IntVal(count)>>)
get_by_rank(bin, rank, rt) == ReadOp(bin, "GetByRank", <<Byte(rt), IntVal(rank)>>)
get_by_rank_range(bin, rank, rt) == ReadOp(bin, "GetByRankRange", <<Byte(rt), IntVal(rank)>>)
get_by_rank_range_count(bin, rank, count, rt) ==
  ReadOp(bin, "GetByRankRange", <<Byte(rt), IntVal(rank), IntVal(count)>>)
get_by_value_relative_rank_range(bin, value, rank, rt) ==
  ReadOp(bin, "GetByValueRelRankRange", <<Byte(rt), value, IntVal(rank)>>)
get_by_value_relative_rank_range_count(bin, value, rank, count, rt) ==
  ReadOp(bin, "GetByValueRelRankRange", <<Byte(rt), value, IntVal(rank), IntVal(count)>>)
==============================================================================
