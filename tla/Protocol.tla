------------------------------ MODULE Protocol -------------------------------
(***************************************************************************)
(* What the modules of the wire protocol share: the tokens that a buffer   *)
(* is made of, and the codes of the operations on a record                 *)
(* (operations/mod.rs).                                                    *)
(*                                                                         *)
(* A buffer is a sequence of tokens: single bytes, and payloads (the text  *)
(* of a string, the bits of a float) that are moved but never looked at    *)
(* and so are one token that knows how many bytes it stands for.           *)
(***************************************************************************)
EXTENDS Integers, Sequences, SequencesExt

B(b) == [n |-> 1, b |-> b]
Raw(n, s) == [n |-> n, s |-> s]
IsByte(x) == "b" \in DOMAIN x
Bytes(bs) == [i \in DOMAIN bs |-> B(bs[i])]

\* The number of bytes in a sequence of tokens.
Size(toks) == FoldLeft(LAMBDA m, x : m + x.n, 0, toks)

OperationType ==
  [Read |-> 1, Write |-> 2, CdtRead |-> 3, CdtWrite |-> 4, Incr |-> 5, ExpRead |-> 7,
   ExpWrite |-> 8, Append |-> 9, Prepend |-> 10, Touch |-> 11, BitRead |-> 12,
   BitWrite |-> 13, Delete |-> 14, HllRead |-> 15, HllWrite |-> 16]
==============================================================================
