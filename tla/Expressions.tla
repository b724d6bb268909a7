----------------------------- MODULE Expressions -----------------------------
(***************************************************************************)
(* Filter expressions and their encoding (expressions/mod.rs), and an      *)
(* expression as an operation of operate() (operations/exp.rs).            *)
(*                                                                         *)
(* A FilterExpression is the record of its fields that are not None.       *)
(***************************************************************************)
EXTENDS Operations

ExpType ==
  [NIL |-> 0, BOOL |-> 1, INT |-> 2, STRING |-> 3, LIST |-> 4, MAP |-> 5, BLOB |-> 6,
   FLOAT |-> 7, GEO |-> 8, HLL |-> 9]

ExpOp ==
  [Unknown |-> 0, EQ |-> 1, NE |-> 2, GT |-> 3, GE |-> 4, LT |-> 5, LE |-> 6, Regex |-> 7,
   Geo |-> 8, And |-> 16, Or |-> 17, Not |-> 18, Xor |-> 19, Add |-> 20, Sub |-> 21, Mul |-> 22,
   Div |-> 23, Pow |-> 24, Log |-> 25, Mod |-> 26, Abs |-> 27, Floor |-> 28, Ceil |-> 29,
   ToInt |-> 30, ToFloat |-> 31, IntAnd |-> 32, IntOr |-> 33, IntXor |-> 34, IntNot |-> 35,
   IntLshift |-> 36, IntRshift |-> 37, IntARshift |-> 38, IntCount |-> 39, IntLscan |-> 40,
   IntRscan |-> 41, Min |-> 50, Max |-> 51, DigestModulo |-> 64, DeviceSize |-> 65,
   LastUpdate |-> 66, SinceUpdate |-> 67, VoidTime |-> 68, TTL |-> 69, SetName |-> 70,
   KeyExists |-> 71, IsTombstone |-> 72, Key |-> 80, Bin |-> 81, BinType |-> 82, Cond |-> 123,
   Var |-> 124, Let |-> 125, Quoted |-> 126, Call |-> 127]

MODIFY == \h40

Has(e, field) == field \in DOMAIN e

\* ExpressionArgument.
ArgValue(v) == [k |-> "Value", v |-> v]
ArgExp(e) == [k |-> "FilterExpression", e |-> e]
ArgContext(ctx) == [k |-> "Context", ctx |-> ctx]
-----------------------------------------------------------------------------
RECURSIVE pack(_)

PackExps(exps) == Cat([i \in DOMAIN exps |-> pack(exps[i])])

pack_expression(e) ==
  IF Has(e, "val") THEN Cat(<<pack_raw_string(e.val.s), pack(e.exps[1])>>)
  ELSE LET count == IF e.cmd = "Let" THEN (Len(e.exps) - 1) * 2 + 2 ELSE Len(e.exps) + 1 IN
       Cat(<<pack_array_begin(count), pack_int(ExpOp[e.cmd]), PackExps(e.exps)>>)

\* The contexts of a call come before its arguments, wherever they are in the list, and
\* without their flags.
IdsOnly(ctx) == [i \in DOMAIN ctx |-> ctx[i].id]
PackArgs(args) ==
  LET ctxs == SelectSeq(args, LAMBDA a : a.k = "Context" /\ a.ctx # << >>)
      rest == SelectSeq(args, LAMBDA a : a.k # "Context") IN
  Cat([i \in DOMAIN ctxs |-> PackContext(ctxs[i].ctx, IdsOnly(ctxs[i].ctx))]
        \o <<pack_array_begin(Len(rest))>>
        \o [i \in DOMAIN rest |-> IF rest[i].k = "Value" THEN pack_value(rest[i].v)
                                  ELSE pack(rest[i].e)])

pack_command(e) ==
  LET code == pack_int(ExpOp[e.cmd]) IN
  CASE e.cmd = "Regex" ->
         Cat(<<pack_array_begin(4), code, pack_int(e.flags), pack_raw_string(e.val.s), pack(e.bin)>>)
    [] e.cmd = "Call" ->
         Cat(<<pack_array_begin(5), code, pack_int(ExpType[e.module]), pack_int(e.flags),
               PackArgs(e.arguments), pack(e.bin)>>)
    [] e.cmd = "Bin" ->
         Cat(<<pack_array_begin(3), code, pack_int(ExpType[e.module]), pack_raw_string(e.val.s)>>)
    [] e.cmd \in {"BinType", "Var"} -> Cat(<<pack_array_begin(2), code, pack_raw_string(e.val.s)>>)
    [] OTHER -> IF Has(e, "val") THEN Cat(<<pack_array_begin(2), code, pack_value(e.val)>>)
                ELSE Cat(<<pack_array_begin(1), code>>)

pack(e) ==
  IF Has(e, "exps") THEN pack_expression(e)
  ELSE IF Has(e, "cmd") THEN pack_command(e)
  ELSE pack_value(e.val)
-----------------------------------------------------------------------------
(* operations/exp.rs *)

ExpData(exp, flags) == [k |-> "EXPOp", exp |-> exp, policy |-> flags]

\* pack_write_exp and pack_read_exp are the same.
pack_exp_op(d) == Cat(<<pack_array_begin(2), pack(d.exp), pack_int(d.policy)>>)

write_exp(bin, exp, flags) ==
  Operation(OperationType.ExpWrite, BinName(bin), ExpData(exp, flags))
read_exp(name, exp, flags) ==
  Operation(OperationType.ExpRead, BinName(name), ExpData(exp, flags))
-----------------------------------------------------------------------------
(* The shapes of an expression. *)

Leaf(cmd) == [cmd |-> cmd]
OfValue(cmd, v) == [cmd |-> cmd, val |-> v]
BinOf(type, name) == [cmd |-> "Bin", val |-> Str(name), module |-> type]
Literal(v) == [val |-> v]
Of(cmd, exps) == [cmd |-> cmd, exps |-> exps]

\* A call of a module: its code, its arguments and, anywhere among them, the context.
Call(bin, flags, type, ctx, code, args) ==
  [cmd |-> "Call", bin |-> bin, flags |-> flags, module |-> type,
   arguments |-> <<ArgValue(IntVal(code))>> \o args \o <<ArgContext(ctx)>>]

\* An argument that is an enum or a policy's flags, cast to u8.
Flag(b) == ArgValue(Byte(b))

\* An optional bound of an interval: no beginning is nil, no end is left out.
BeginArg(begin) == IF begin = << >> THEN <<ArgExp(Literal(Nil))>> ELSE <<ArgExp(begin[1])>>
EndArg(end) == [i \in DOMAIN end |-> ArgExp(end[i])]
==============================================================================
