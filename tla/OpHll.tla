-------------------------------- MODULE OpHll --------------------------------
(***************************************************************************)
(* operations/hll.rs: the HyperLogLog operations of operate().             *)
(***************************************************************************)
EXTENDS Operations

HLLOpType ==
  [Init |-> 0, Add |-> 1, SetUnion |-> 2, SetCount |-> 3, Fold |-> 4, Count |-> 50, Union |-> 51,
   UnionCount |-> 52, IntersectCount |-> 53, Similarity |-> 54, Describe |-> 55]

WriteOp(bin, op, args) ==
  Operation(OperationType.HllWrite, BinName(bin), CdtOperation("HLLOp", HLLOpType[op], args))
ReadOp(bin, op, args) ==
  Operation(OperationType.HllRead, BinName(bin), CdtOperation("HLLOp", HLLOpType[op], args))

init_with_min_hash(policy, bin, index_bits, min_hash_bits) ==
  WriteOp(bin, "Init", <<IntVal(index_bits), IntVal(min_hash_bits), Byte(policy.flags)>>)
init(policy, bin, index_bits) == init_with_min_hash(policy, bin, index_bits, -1)
add_with_index_and_min_hash(policy, bin, list, index_bits, min_hash_bits) ==
  WriteOp(bin, "Add", <<List(list), IntVal(index_bits), IntVal(min_hash_bits), Byte(policy.flags)>>)
add_with_index(policy, bin, list, index_bits) ==
  add_with_index_and_min_hash(policy, bin, list, index_bits, -1)
add(policy, bin, list) == add_with_index_and_min_hash(policy, bin, list, -1, -1)
set_union(policy, bin, list) == WriteOp(bin, "SetUnion", <<List(list), Byte(policy.flags)>>)
refresh_count(bin) == WriteOp(bin, "SetCount", << >>)
fold(bin, index_bits) == WriteOp(bin, "Fold", <<IntVal(index_bits)>>)
get_count(bin) == ReadOp(bin, "Count", << >>)
get_union(bin, list) == ReadOp(bin, "Union", <<List(list)>>)
get_union_count(bin, list) == ReadOp(bin, "UnionCount", <<List(list)>>)
get_intersect_count(bin, list) == ReadOp(bin, "IntersectCount", <<List(list)>>)
get_similarity(bin, list) == ReadOp(bin, "Similarity", <<List(list)>>)
describe(bin) == ReadOp(bin, "Describe", << >>)
==============================================================================
