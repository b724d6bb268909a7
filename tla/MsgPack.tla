------------------------------- MODULE MsgPack -------------------------------
(***************************************************************************)
(* Values and their MessagePack encoding (value.rs, msgpack/encoder.rs,    *)
(* msgpack/decoder.rs), over the tokens of Protocol.  A 64 bit integer is  *)
(* the sequence of its eight bytes in network order.                       *)
(***************************************************************************)
EXTENDS Protocol

\* The eight bytes of i, for i of 32 bits.
I64(i) == [k \in 1 .. 8 |-> IF k <= 4 THEN (IF i < 0 THEN 255 ELSE 0)
                            ELSE (i \div 256 ^ (8 - k)) % 256]
\* Whether an i64 fits 32 bits, and its value then.
Narrow(b) == \A k \in 1 .. 4 : b[k] = IF b[5] >= 128 THEN 255 ELSE 0
Int32(b) == (IF b[5] >= 128 THEN b[5] - 256 ELSE b[5]) * 256 ^ 3
              + b[6] * 256 ^ 2 + b[7] * 256 + b[8]
Low(b, w) == SubSeq(b, 9 - w, 8)
Unsigned(bs) == [k \in 1 .. 8 |-> IF k <= 8 - Len(bs) THEN 0 ELSE bs[k - 8 + Len(bs)]]
Signed(bs) == [k \in 1 .. 8 |-> IF k > 8 - Len(bs) THEN bs[k - 8 + Len(bs)]
                                ELSE IF bs[1] >= 128 THEN 255 ELSE 0]
-----------------------------------------------------------------------------
(* Value *)

Nil == [t |-> "Nil"]
Bool(x) == [t |-> "Bool", bool |-> x]
LongInt(b) == [t |-> "Int", i |-> b]
IntVal(i) == LongInt(I64(i))
UInt(b) == [t |-> "UInt", i |-> b]
Float(w, x) == [t |-> "Float", w |-> w, f |-> x]
Text(ty, n, s) == [t |-> ty, n |-> n, s |-> s]
Str(s) == Text("String", Len(s), s)
List(vs) == [t |-> "List", l |-> vs]
HashMap(kvs) == [t |-> "HashMap", m |-> kvs]

\* Value::particle_type.  A UInt and an ordered map have none: the code panics.
ParticleType ==
  [Nil |-> 0, Int |-> 1, Float |-> 2, String |-> 3, Blob |-> 4, Bool |-> 17, HLL |-> 18,
   HashMap |-> 19, List |-> 20, GeoJSON |-> 23]

particle_type(v) == ParticleType[v.t]
-----------------------------------------------------------------------------
(* msgpack/encoder.rs.  A function appends to the buffer and returns the     *)
(* number of bytes it says it appended; called without a buffer it only      *)
(* returns the number.  Both are kept: size is the number, toks the bytes.   *)

Packed(size, toks) == [size |-> size, toks |-> toks]
Cat(ps) == Packed(FoldLeft(LAMBDA n, p : n + p.size, 0, ps),
                  FoldLeft(LAMBDA toks, p : toks \o p.toks, << >>, ps))

MARKER_NIL == \hc0
MARKER_TRUE == \hc3
MARKER_FALSE == \hc2

pack_raw_u16(n) == Packed(2, Bytes(Low(I64(n), 2)))
pack_half_byte(b) == Packed(1, Bytes(<<b>>))
pack_byte(marker, b) == Packed(2, Bytes(<<marker, b>>))
pack_i16(marker, b) == Packed(3, Bytes(<<marker>> \o Low(b, 2)))
pack_i32(marker, b) == Packed(5, Bytes(<<marker>> \o Low(b, 4)))
pack_i64(marker, b) == Packed(9, Bytes(<<marker>> \o b))

pack_nil == pack_half_byte(MARKER_NIL)
pack_bool(x) == pack_half_byte(IF x THEN MARKER_TRUE ELSE MARKER_FALSE)

Begin(short, limit, m16, m32, n) ==
  IF n < limit THEN pack_half_byte(short + n)
  ELSE IF n < 2 ^ 16 THEN pack_i16(m16, I64(n))
  ELSE pack_i32(m32, I64(n))

pack_map_begin(n) == Begin(\h80, 16, \hde, \hdf, n)
pack_array_begin(n) == Begin(\h90, 16, \hdc, \hdd, n)
pack_byte_array_begin(n) == Begin(\ha0, 32, \hda, \hdb, n)

pack_integer_NoSign(b) ==
  LET n == Int32(b) IN
  IF ~Narrow(b) THEN pack_i64(\hd3, b)
  ELSE CASE n \in 0 .. 127 -> pack_half_byte(n)
         [] n \in -128 .. -1 -> pack_byte(\hcc, b[8])
         [] OTHER -> pack_i32(\hd2, b)

\* The arm of the match for 8 bits (0xcc) asks for 128 <= n < 127: it is never taken.
pack_integer(b) ==
  LET n == Int32(b) IN
  IF ~Narrow(b) THEN pack_i64(\hd3, b)
  ELSE CASE n \in 0 .. 127 -> pack_half_byte(n)
         [] n \in 128 .. 32766 -> pack_i16(\hcd, b)
         [] n \in 32767 .. 2147483646 -> pack_i32(\hce, b)
         [] n = 2147483647 -> pack_i64(\hd3, b)
         [] n \in -32 .. -1 -> pack_half_byte(\he0 + ((b[8] + 32) % 256))
         [] n \in -128 .. -33 -> pack_byte(\hd0, b[8])
         [] n \in -32768 .. -129 -> pack_i16(\hd1, b)
         [] n < -32768 -> pack_i32(\hd2, b)

pack_u64(b) == IF b[1] < 128 THEN pack_integer(b) ELSE pack_i64(\hcf, b)
pack_f32(x) == Packed(5, Bytes(<<\hca>>) \o <<Raw(4, x)>>)
pack_f64(x) == Packed(9, Bytes(<<\hcb>>) \o <<Raw(8, x)>>)

\* pack_blob, pack_string and pack_geo_json write the particle type before the text.
pack_text(ptype, n, s) ==
  Cat(<<pack_byte_array_begin(n + 1), Packed(n + 1, Bytes(<<ptype>>) \o <<Raw(n, s)>>)>>)

pack_raw_string(s) == Cat(<<pack_byte_array_begin(Len(s)), Packed(Len(s), <<Raw(Len(s), s)>>)>>)

RECURSIVE pack_value(_)

pack_array(vs) ==
  Cat(<<pack_array_begin(Len(vs))>> \o [i \in DOMAIN vs |-> pack_value(vs[i])])

pack_empty_args_array == pack_array_begin(0)

pack_map(kvs) ==
  Cat(<<pack_map_begin(Len(kvs))>>
        \o [i \in DOMAIN kvs |-> Cat(<<pack_value(kvs[i][1]), pack_value(kvs[i][2])>>)])

\* An HLL value is packed as a blob; an ordered map panics.
pack_value(v) ==
  CASE v.t = "Nil" -> pack_nil
    [] v.t = "Int" -> pack_integer(v.i)
    [] v.t = "UInt" -> pack_u64(v.i)
    [] v.t = "Bool" -> pack_bool(v.bool)
    [] v.t = "Float" -> IF v.w = 4 THEN pack_f32(v.f) ELSE pack_f64(v.f)
    [] v.t \in {"String", "GeoJSON", "Blob"} -> pack_text(particle_type(v), v.n, v.s)
    [] v.t = "HLL" -> pack_text(ParticleType.Blob, v.n, v.s)
    [] v.t = "List" -> pack_array(v.l)
    [] v.t = "HashMap" -> pack_map(v.m)
-----------------------------------------------------------------------------
(* A value as the whole particle of a bin or a key (value.rs).               *)

estimate_size(v) ==
  CASE v.t = "Nil" -> 0
    [] v.t \in {"Int", "Float"} -> 8
    [] v.t \in {"String", "Blob", "HLL"} -> v.n
    [] v.t = "Bool" -> 1
    [] v.t \in {"List", "HashMap"} -> pack_value(v).size
    [] v.t = "GeoJSON" -> 1 + 2 + v.n

write_to(v) ==
  CASE v.t = "Nil" -> << >>
    [] v.t = "Int" -> Bytes(v.i)
    [] v.t = "Bool" -> Bytes(<<IF v.bool THEN 1 ELSE 0>>)
    [] v.t = "Float" -> <<Raw(8, v.f)>>
    [] v.t \in {"String", "Blob", "HLL"} -> <<Raw(v.n, v.s)>>
    [] v.t \in {"List", "HashMap"} -> pack_value(v).toks
    [] v.t = "GeoJSON" -> Bytes(<<0, 0, 0>>) \o <<Raw(v.n, v.s)>>
-----------------------------------------------------------------------------
(* msgpack/decoder.rs: each function returns the value and what is left.     *)

Got(v, rest) == [v |-> v, rest |-> rest]
Drop(toks, k) == SubSeq(toks, k + 1, Len(toks))
Read(toks, w) == [i \in 1 .. w |-> toks[i].b]
\* The value of an unsigned length.
Count(bs) == Int32(Unsigned(bs))

is_ext(b) == b \in {\hc7, \hc8, \hc9, \hd4, \hd5, \hd6, \hd7, \hd8}

\* The number of bytes that follow the marker of a type extension, its type included.
ExtLen(m, s) ==
  CASE m = \hc7 -> 1 + ((1 + Count(Read(s, 1))) % 2 ^ 8)
    [] m = \hc8 -> 2 + ((1 + Count(Read(s, 2))) % 2 ^ 16)
    [] m = \hc9 -> 4 + 1 + Count(Read(s, 4))
    [] m \in \hd4 .. \hd8 -> 1 + 2 ^ (m - \hd4)

unpack_blob(s, count) ==
  LET ty == s[1].b IN
  IF ty \in {3, 4, 23} /\ s[2].n = count - 1
  THEN Got(Text(CASE ty = 3 -> "String" [] ty = 4 -> "Blob" [] ty = 23 -> "GeoJSON",
                s[2].n, s[2].s),
           Drop(s, 2))
  ELSE Got([t |-> "Error"], s)

RECURSIVE unpack_value(_)
RECURSIVE UnpackN(_, _, _)

\* count values, one after the other.
UnpackN(s, count, vs) ==
  IF count = 0 THEN [vs |-> vs, rest |-> s]
  ELSE LET r == unpack_value(s) IN UnpackN(r.rest, count - 1, Append(vs, r.v))

unpack_list_KeepsExt(s, count) ==
  LET r == UnpackN(s, count, << >>) IN Got(List(r.vs), r.rest)

\* A list the server keeps ordered begins with a type extension, counted as an element.
unpack_list(s, count) ==
  LET ext == count > 0 /\ is_ext(s[1].b)
      r   == IF ext THEN UnpackN(unpack_value(s).rest, count - 1, << >>)
                    ELSE UnpackN(s, count, << >>) IN
  Got(List(r.vs), r.rest)

Pairs(vs) == [i \in 1 .. Len(vs) \div 2 |-> <<vs[2 * i - 1], vs[2 * i]>>]

unpack_map(s, count) ==
  LET ext == count > 0 /\ is_ext(s[1].b)
      r   == IF ext THEN UnpackN(UnpackN(s, 2, << >>).rest, 2 * (count - 1), << >>)
                    ELSE UnpackN(s, 2 * count, << >>) IN
  Got(HashMap(Pairs(r.vs)), r.rest)

unpack_value(toks) ==
  LET m == toks[1].b
      s == Tail(toks)
      n(w) == Count(Read(s, w)) IN
  CASE m \in 0 .. \h7f -> Got(IntVal(m), s)
    [] m \in \h80 .. \h8f -> unpack_map(s, m - \h80)
    [] m \in \h90 .. \h9f -> unpack_list(s, m - \h90)
    [] m \in \ha0 .. \hbf -> unpack_blob(s, m - \ha0)
    [] m = \hc0 -> Got(Nil, s)
    [] m \in {\hc2, \hc3} -> Got(Bool(m = \hc3), s)
    [] m \in {\hc4, \hd9} -> unpack_blob(Drop(s, 1), n(1))
    [] m \in {\hc5, \hda} -> unpack_blob(Drop(s, 2), n(2))
    [] m \in {\hc6, \hdb} -> unpack_blob(Drop(s, 4), n(4))
    [] is_ext(m) -> Got(Nil, Drop(s, ExtLen(m, s)))
    [] m \in {\hca, \hcb} -> Got(Float(s[1].n, s[1].s), Tail(s))
    [] m \in \hcc .. \hce -> LET w == 2 ^ (m - \hcc) IN Got(LongInt(Unsigned(Read(s, w))), Drop(s, w))
    [] m = \hcf -> Got(UInt(Read(s, 8)), Drop(s, 8))
    [] m \in \hd0 .. \hd3 -> LET w == 2 ^ (m - \hd0) IN Got(LongInt(Signed(Read(s, w))), Drop(s, w))
    [] m = \hdc -> unpack_list(Drop(s, 2), n(2))
    [] m = \hdd -> unpack_list(Drop(s, 4), n(4))
    [] m = \hde -> unpack_map(Drop(s, 2), n(2))
    [] m = \hdf -> unpack_map(Drop(s, 4), n(4))
    [] m \in \he0 .. \hff -> Got(IntVal(m - \he0 - 32), s)
    [] OTHER -> Got([t |-> "Error"], s)

\* The two entry points: the marker must be one of a list, or of a map.
unpack_value_list(toks) ==
  IF toks = << >> THEN Got(List(<< >>), toks)
  ELSE IF toks[1].b \in \h90 .. \h9f \cup {\hdc, \hdd} THEN unpack_value(toks)
  ELSE Got([t |-> "Error"], toks)

unpack_value_map(toks) ==
  IF toks = << >> THEN Got(HashMap(<< >>), toks)
  ELSE IF toks[1].b \in \h80 .. \h8f \cup {\hde, \hdf} THEN unpack_value(toks)
  ELSE Got([t |-> "Error"], toks)

\* The particle of a bin in a reply; DIGEST and LDT particles are not decoded.
bytes_to_particle(ptype, toks) ==
  CASE ptype = 0 -> Nil
    [] ptype = 1 -> LongInt(Read(toks, 8))
    [] ptype = 2 -> Float(8, toks[1].s)
    [] ptype = 3 -> Text("String", toks[1].n, toks[1].s)
    [] ptype = 4 -> Text("Blob", toks[1].n, toks[1].s)
    [] ptype = 17 -> Bool(toks[1].b # 0)
    [] ptype = 18 -> Text("HLL", toks[1].n, toks[1].s)
    [] ptype = 19 -> unpack_value_map(toks).v
    [] ptype = 20 -> unpack_value_list(toks).v
    [] ptype = 23 -> LET text == Drop(toks, 3 + 8 * Count(<<toks[2].b, toks[3].b>>))[1] IN
                     Text("GeoJSON", text.n, text.s)
-----------------------------------------------------------------------------
(* What a value is after a round trip: an unsigned number that an i64 can     *)
(* hold comes back as an Int, and an HLL as a blob.                           *)
RECURSIVE Canonical(_)

Canonical(v) ==
  CASE v.t = "UInt" /\ v.i[1] < 128 -> LongInt(v.i)
    [] v.t = "HLL" -> Text("Blob", v.n, v.s)
    [] v.t = "List" -> List([i \in DOMAIN v.l |-> Canonical(v.l[i])])
    [] v.t = "HashMap" ->
         HashMap([i \in DOMAIN v.m |-> <<Canonical(v.m[i][1]), Canonical(v.m[i][2])>>])
    [] OTHER -> v
==============================================================================
