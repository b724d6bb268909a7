------------------------------- MODULE ExpHll --------------------------------
(***************************************************************************)
(* expressions/hll.rs: the HyperLogLog operations as expressions.          *)
(***************************************************************************)
EXTENDS Expressions

MODULE_HLL == 2

HllExpOp ==
  [Init |-> 0, Add |-> 1, Count |-> 50, Union |-> 51, UnionCount |-> 52, IntersectCount |-> 53,
   Similarity |-> 54, Describe |-> 55, MayContain |-> 56]

add_write(bin, op, args) == Call(bin, MODULE_HLL + MODIFY, "HLL", << >>, HllExpOp[op], args)
add_read(bin, type, op, args) == Call(bin, MODULE_HLL, type, << >>, HllExpOp[op], args)

LOCAL Default == Literal(IntVal(-1))

init_with_min_hash(policy, index_bits, min_hash, bin) ==
  add_write(bin, "Init", <<ArgExp(index_bits), ArgExp(min_hash), ArgValue(IntVal(policy.flags))>>)
init(policy, index_bits, bin) == init_with_min_hash(policy, index_bits, Default, bin)
add_with_index_and_min_hash(policy, list, index_bits, min_hash, bin) ==
  add_write(bin, "Add", <<ArgExp(list), ArgExp(index_bits), ArgExp(min_hash),
                          ArgValue(IntVal(policy.flags))>>)
add_with_index(policy, list, index_bits, bin) ==
  add_with_index_and_min_hash(policy, list, index_bits, Default, bin)
add(policy, list, bin) == add_with_index_and_min_hash(policy, list, Default, Default, bin)
get_count(bin) == add_read(bin, "INT", "Count", << >>)
get_union(list, bin) == add_read(bin, "HLL", "Union", <<ArgExp(list)>>)
get_union_count(list, bin) == add_read(bin, "INT", "UnionCount", <<ArgExp(list)>>)
get_intersect_count(list, bin) == add_read(bin, "INT", "IntersectCount", <<ArgExp(list)>>)
get_similarity(list, bin) == add_read(bin, "FLOAT", "Similarity", <<ArgExp(list)>>)
describe(bin) == add_read(bin, "LIST", "Describe", << >>)
may_contain(list, bin) == add_read(bin, "INT", "MayContain", <<ArgExp(list)>>)
==============================================================================
