----------------------------- MODULE ExpBitwise ------------------------------
(***************************************************************************)
(* expressions/bitwise.rs: the bit operations as expressions.              *)
(***************************************************************************)
EXTENDS Expressions

MODULE_BIT == 1
INT_FLAGS_SIGNED == 1

BitExpOp ==
  [Resize |-> 0, Insert |-> 1, Remove |-> 2, Set |-> 3, Or |-> 4, Xor |-> 5, And |-> 6, Not |-> 7,
   LShift |-> 8, RShift |-> 9, Add |-> 10, Subtract |-> 11, SetInt |-> 12, Get |-> 50,
   Count |-> 51, LScan |-> 52, RScan |-> 53, GetInt |-> 54]

add_write(bin, op, args) == Call(bin, MODULE_BIT + MODIFY, "BLOB", << >>, BitExpOp[op], args)
add_read(bin, type, op, args) == Call(bin, MODULE_BIT, type, << >>, BitExpOp[op], args)

\* The arguments of an operation on a range of bits.
Bits(offset, bits, rest) == <<ArgExp(offset), ArgExp(bits)>> \o rest

resize(policy, byte_size, resize_flags, bin) ==
  add_write(bin, "Resize", <<ArgExp(byte_size), Flag(policy.flags), Flag(resize_flags)>>)
insert(policy, byte_offset, value, bin) ==
  add_write(bin, "Insert", <<ArgExp(byte_offset), ArgExp(value), Flag(policy.flags)>>)
remove(policy, byte_offset, byte_size, bin) ==
  add_write(bin, "Remove", <<ArgExp(byte_offset), ArgExp(byte_size), Flag(policy.flags)>>)
set(policy, offset, bits, value, bin) ==
  add_write(bin, "Set", Bits(offset, bits, <<ArgExp(value), Flag(policy.flags)>>))
or(policy, offset, bits, value, bin) ==
  add_write(bin, "Or", Bits(offset, bits, <<ArgExp(value), Flag(policy.flags)>>))
xor(policy, offset, bits, value, bin) ==
  add_write(bin, "Xor", Bits(offset, bits, <<ArgExp(value), Flag(policy.flags)>>))
and(policy, offset, bits, value, bin) ==
  add_write(bin, "And", Bits(offset, bits, <<ArgExp(value), Flag(policy.flags)>>))
not(policy, offset, bits, bin) == add_write(bin, "Not", Bits(offset, bits, <<Flag(policy.flags)>>))
lshift(policy, offset, bits, shift, bin) ==
  add_write(bin, "LShift", Bits(offset, bits, <<ArgExp(shift), Flag(policy.flags)>>))
rshift(policy, offset, bits, shift, bin) ==
  add_write(bin, "RShift", Bits(offset, bits, <<ArgExp(shift), Flag(policy.flags)>>))

\* The bit of a signed number is not one of the action's.
ActionFlags(signed, action) == action + IF signed THEN INT_FLAGS_SIGNED ELSE 0

add(policy, offset, bits, value, signed, action, bin) ==
  add_write(bin, "Add", Bits(offset, bits, <<ArgExp(value), Flag(policy.flags),
                                              Flag(ActionFlags(signed, action))>>))
subtract(policy, offset, bits, value, signed, action, bin) ==
  add_write(bin, "Subtract", Bits(offset, bits, <<ArgExp(value), Flag(policy.flags),
                                              Flag(ActionFlags(signed, action))>>))
set_int(policy, offset, bits, value, bin) ==
  add_write(bin, "SetInt", Bits(offset, bits, <<ArgExp(value), Flag(policy.flags)>>))
get(offset, bits, bin) == add_read(bin, "BLOB", "Get", Bits(offset, bits, << >>))
count(offset, bits, bin) == add_read(bin, "INT", "Count", Bits(offset, bits, << >>))
lscan(offset, bits, value, bin) == add_read(bin, "INT", "LScan", Bits(offset, bits, <<ArgExp(value)>>))
rscan(offset, bits, value, bin) == add_read(bin, "INT", "RScan", Bits(offset, bits, <<ArgExp(value)>>))
get_int(offset, bits, signed, bin) ==
  add_read(bin, "INT", "GetInt",
           Bits(offset, bits, IF signed THEN <<ArgValue(IntVal(INT_FLAGS_SIGNED))>> ELSE << >>))
==============================================================================
