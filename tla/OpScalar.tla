------------------------------ MODULE OpScalar -------------------------------
(***************************************************************************)
(* operations/scalar.rs: operations on a whole record or a whole bin.      *)
(* A bin is a record of its name and its value.                            *)
(***************************************************************************)
EXTENDS Operations

LOCAL WholeBin(op, bin) == Operation(OperationType[op], BinName(bin.name), ValueData(bin.value))

get == Operation(OperationType.Read, BinAll, NoData)
get_header == Operation(OperationType.Read, BinNone, NoData)
get_bin(bin_name) == Operation(OperationType.Read, BinName(bin_name), NoData)
put(bin) == WholeBin("Write", bin)
append(bin) == WholeBin("Append", bin)
prepend(bin) == WholeBin("Prepend", bin)
add(bin) == WholeBin("Incr", bin)
touch == Operation(OperationType.Touch, BinNone, NoData)
delete == Operation(OperationType.Delete, BinNone, NoData)
==============================================================================
