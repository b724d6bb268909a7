------------------------------ MODULE OpBitwise ------------------------------
(***************************************************************************)
(* operations/bitwise.rs: the bit operations of operate() on a blob bin.   *)
(***************************************************************************)
EXTENDS Operations

CdtBitwiseOpType ==
  [Resize |-> 0, Insert |-> 1, Remove |-> 2, Set |-> 3, Or |-> 4, Xor |-> 5, And |-> 6, Not |-> 7,
   LShift |-> 8, RShift |-> 9, Add |-> 10, Subtract |-> 11, SetInt |-> 12, Get |-> 50,
   Count |-> 51, LScan |-> 52, RScan |-> 53, GetInt |-> 54]

BitwiseOverflowActions == [Fail |-> 0, Saturate |-> 2, Wrap |-> 4]

WriteOp(bin, op, args) ==
  Operation(OperationType.BitWrite, BinName(bin),
            CdtOperation("CdtBitOp", CdtBitwiseOpType[op], args))
ReadOp(bin, op, args) ==
  Operation(OperationType.BitRead, BinName(bin),
            CdtOperation("CdtBitOp", CdtBitwiseOpType[op], args))

\* The flag of a signed number beside the action; their bits are disjoint.
ActionFlags(signed, action) == action + IF signed THEN 1 ELSE 0

\* resize_flags is a sequence: an option.
resize(bin, byte_size, resize_flags, policy) ==
  WriteOp(bin, "Resize", <<IntVal(byte_size), Byte(policy.flags)>>
                           \o [i \in DOMAIN resize_flags |-> Byte(resize_flags[i])])
insert(bin, byte_offset, value, policy) ==
  WriteOp(bin, "Insert", <<IntVal(byte_offset), value, Byte(policy.flags)>>)
remove(bin, byte_offset, byte_size, policy) ==
  WriteOp(bin, "Remove", <<IntVal(byte_offset), IntVal(byte_size), Byte(policy.flags)>>)
set(bin, offset, bits, value, policy) ==
  WriteOp(bin, "Set", <<IntVal(offset), IntVal(bits), value, Byte(policy.flags)>>)
or(bin, offset, bits, value, policy) ==
  WriteOp(bin, "Or", <<IntVal(offset), IntVal(bits), value, Byte(policy.flags)>>)
xor(bin, offset, bits, value, policy) ==
  WriteOp(bin, "Xor", <<IntVal(offset), IntVal(bits), value, Byte(policy.flags)>>)
and(bin, offset, bits, value, policy) ==
  WriteOp(bin, "And", <<IntVal(offset), IntVal(bits), value, Byte(policy.flags)>>)
not(bin, offset, bits, policy) ==
  WriteOp(bin, "Not", <<IntVal(offset), IntVal(bits), Byte(policy.flags)>>)
lshift(bin, offset, bits, shift, policy) ==
  WriteOp(bin, "LShift", <<IntVal(offset), IntVal(bits), IntVal(shift), Byte(policy.flags)>>)
rshift(bin, offset, bits, shift, policy) ==
  WriteOp(bin, "RShift", <<IntVal(offset), IntVal(bits), IntVal(shift), Byte(policy.flags)>>)
add(bin, offset, bits, value, signed, action, policy) ==
  WriteOp(bin, "Add", <<IntVal(offset), IntVal(bits), IntVal(value), Byte(policy.flags),
                        Byte(ActionFlags(signed, action))>>)
subtract(bin, offset, bits, value, signed, action, policy) ==
  WriteOp(bin, "Subtract", <<IntVal(offset), IntVal(bits), IntVal(value), Byte(policy.flags),
                             Byte(ActionFlags(signed, action))>>)
set_int(bin, offset, bits, value, policy) ==
  WriteOp(bin, "SetInt", <<IntVal(offset), IntVal(bits), IntVal(value), Byte(policy.flags)>>)
get(bin, offset, bits) == ReadOp(bin, "Get", <<IntVal(offset), IntVal(bits)>>)
count(bin, offset, bits) == ReadOp(bin, "Count", <<IntVal(offset), IntVal(bits)>>)
lscan(bin, offset, bits, value) == ReadOp(bin, "LScan", <<IntVal(offset), IntVal(bits), Bool(value)>>)
rscan(bin, offset, bits, value) == ReadOp(bin, "RScan", <<IntVal(offset), IntVal(bits), Bool(value)>>)
get_int(bin, offset, bits, signed) ==
  ReadOp(bin, "GetInt", <<IntVal(offset), IntVal(bits)>> \o IF signed THEN <<Byte(1)>> ELSE << >>)
==============================================================================
