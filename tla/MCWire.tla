------------------------------- MODULE MCWire --------------------------------
(***************************************************************************)
(* Requests and replies for WireBuffer: values at the boundaries of their  *)
(* encodings, every builder of an operation with the expression of the     *)
(* same name, every builder of expressions/mod.rs, and policies.           *)
(***************************************************************************)
EXTENDS WireServer

S == INSTANCE OpScalar
L == INSTANCE OpLists
M == INSTANCE OpMaps
Bit == INSTANCE OpBitwise
Hll == INSTANCE OpHll
E == INSTANCE ExpCommon
EL == INSTANCE ExpLists
EM == INSTANCE ExpMaps
EB == INSTANCE ExpBitwise
EH == INSTANCE ExpHll

\* Integers on both sides of the limits of the formats, and four that need 64 bits.
Ints ==
  {IntVal(i) : i \in {0, 1, 127, 128, 255, 256, 32766, 32767, 32768, 65535, 65536, 2147483646,
                      2147483647, -1, -32, -33, -127, -128, -129, -32768, -32769, -2147483647}}
    \cup {LongInt(<<0, 0, 0, 0, 128, 0, 0, 0>>), LongInt(<<255, 255, 255, 255, 127, 255, 255, 255>>),
          LongInt(<<127, 255, 255, 255, 255, 255, 255, 255>>), LongInt(<<128, 0, 0, 0, 0, 0, 0, 0>>)}

Texts == {Text(ty, n, "x") : ty \in {"String", "Blob", "GeoJSON"}, n \in {1, 30, 31, 32, 65534, 65535}}

\* Values that stand only inside a list or a map.
Inner == {Nil, Float(4, "f"), UInt(<<128, 0, 0, 0, 0, 0, 0, 1>>), UInt(I64(7)), Text("HLL", 5, "h")}

Items(n) == [i \in 1 .. n |-> IntVal(i)]
Entries(n) == [i \in 1 .. n |-> <<IntVal(i), Str("v")>>]

Values ==
  Ints \cup Texts \cup {Bool(TRUE), Bool(FALSE), Float(8, "f"), Text("HLL", 5, "h"), Nil}
    \cup {List(<<v>>) : v \in Ints \cup Texts \cup Inner}
    \cup {List(Items(n)) : n \in {0, 15, 16}}
    \cup {HashMap(Entries(n)) : n \in {0, 15, 16}}
    \cup {List(<<List(<<Nil>>), HashMap(<< <<Str("k"), List(<< >>)>> >>)>>)}

\* Inside a message that may be as long as the limit, and one byte longer.
Huge(n) == Text("Blob", MAX_BUFFER_SIZE - n, "huge")
-----------------------------------------------------------------------------
Plain ==
  [filter |-> << >>, send_key |-> FALSE, timeout |-> << >>, consistency_level |-> "ConsistencyOne",
   record_exists_action |-> "Update", generation_policy |-> "None", generation |-> 9,
   commit_level |-> "CommitAll", expiration |-> [k |-> "NamespaceDefault"], durable_delete |-> FALSE,
   respond_per_each_op |-> FALSE, send_set_name |-> TRUE, allow_inline |-> TRUE, socket_timeout |-> 10]

Duration(secs, nanos) == [secs |-> secs, nanos |-> nanos]

Guarded ==
  [Plain EXCEPT !.send_key = TRUE, !.timeout = <<Duration(2147482, 999999999)>>, !.generation_policy = "ExpectGenEqual",
                !.record_exists_action = "UpdateOnly", !.expiration = [k |-> "Seconds", secs |-> 100],
                !.filter = <<E!eq(E!int_bin("a"), E!int_val(1))>>]

Policies ==
  {Plain, Guarded,
   [Plain EXCEPT !.record_exists_action = "CreateOnly", !.durable_delete = TRUE,
                 !.commit_level = "CommitMaster", !.expiration = [k |-> "Never"],
                 !.consistency_level = "ConsistencyAll", !.send_set_name = FALSE,
                 !.timeout = <<Duration(0, 1999999)>>],
   [Plain EXCEPT !.generation_policy = "ExpectGenGreater", !.record_exists_action = "Replace",
                 !.expiration = [k |-> "DontUpdate"], !.respond_per_each_op = TRUE,
                 !.allow_inline = FALSE, !.timeout = <<Duration(65, 536000000)>>],
   [Guarded EXCEPT !.record_exists_action = "ReplaceOnly", !.filter = << >>,
                   !.timeout = <<Duration(4294968, 0)>>]}

Key(ns, set, user_key) == [namespace |-> ns, set_name |-> set, digest |-> "digest", user_key |-> user_key]
SomeKey == Key("ns", "set", <<IntVal(1)>>)
Keys == {SomeKey, Key("ns", "", <<Str("user")>>), Key("ns", "set", << >>)}

None == [k |-> "None"]
All == [k |-> "All"]
Some(names) == [k |-> "Some", names |-> names]
BinSets == {None, All, Some(<<"a">>), Some(<<"a", "bin">>)}

\* A name of 256 bytes.
Times4(s) == s \o s \o s \o s
Long == Times4(Times4(Times4("name")))
-----------------------------------------------------------------------------
(* Each pair is an operation and the expression that does the same. *)

Contexts ==
  {<< >>, <<ctx_list_index(1)>>, <<ctx_map_key(Str("k")), ctx_list_rank(-1)>>,
   <<ctx_map_index(IntVal(0)), ctx_map_rank(1), ctx_map_value(IntVal(2)), ctx_list_value(Str("v"))>>}

In(ctx, op) == set_context(op, ctx)
One == IntVal(1)
Two == IntVal(2)
I1 == E!int_val(1)
I2 == E!int_val(2)
Ls == <<One, Two>>
ELs == E!list_val(Ls)
Mp == << <<One, Two>> >>
EMp == E!map_val(Mp)

ListTwins(ctx) ==
  LET b == "list"
      e == E!list_bin("list")
      V == L!ListReturnType.Values
      N == L!ListReturnType.None
      p == L!ListPolicy(ListOrderType.Ordered, 2)
      p0 == L!ListPolicy(0, 0) IN
  { <<L!append(p, b, One), EL!append(p, I1, e, ctx)>>,
    <<L!append_items(p, b, Ls), EL!append_items(p, ELs, e, ctx)>>,
    <<L!insert(p, b, 1, Two), EL!insert(p, I1, I2, e, ctx)>>,
    <<L!insert_items(p, b, 1, Ls), EL!insert_items(p, I1, ELs, e, ctx)>>,
    <<L!increment(p0, b, 1, 2), EL!increment(p0, I1, I2, e, ctx)>>,
    <<L!set(b, 1, Two), EL!set(p, I1, I2, e, ctx)>>,
    <<L!clear(b), EL!clear(e, ctx)>>,
    <<L!sort(b, 2), EL!sort(2, e, ctx)>>,
    <<L!remove_by_value(b, One, N), EL!remove_by_value(I1, e, ctx)>>,
    <<L!remove_by_value_list(b, Ls, N), EL!remove_by_value_list(ELs, e, ctx)>>,
    <<L!remove_by_value_range(b, N, One, Two), EL!remove_by_value_range(<<I1>>, <<I2>>, e, ctx)>>,
    <<L!remove_by_value_range(b, N, Nil, Nil), EL!remove_by_value_range(<< >>, << >>, e, ctx)>>,
    <<L!remove_by_value_relative_rank_range(b, N, One, 2),
      EL!remove_by_value_relative_rank_range(I1, I2, e, ctx)>>,
    <<L!remove_by_value_relative_rank_range_count(b, N, One, 2, 1),
      EL!remove_by_value_relative_rank_range_count(I1, I2, I1, e, ctx)>>,
    <<L!remove_by_index(b, 1, N), EL!remove_by_index(I1, e, ctx)>>,
    <<L!remove_by_index_range(b, 1, N), EL!remove_by_index_range(I1, e, ctx)>>,
    <<L!remove_by_index_range_count(b, 1, 2, N), EL!remove_by_index_range_count(I1, I2, e, ctx)>>,
    <<L!remove_by_rank(b, 1, N), EL!remove_by_rank(I1, e, ctx)>>,
    <<L!remove_by_rank_range(b, 1, N), EL!remove_by_rank_range(I1, e, ctx)>>,
    <<L!remove_by_rank_range_count(b, 1, 2, N), EL!remove_by_rank_range_count(I1, I2, e, ctx)>>,
    <<L!size(b), EL!size(e, ctx)>>,
    <<L!get_by_value(b, One, V), EL!get_by_value(V, I1, e, ctx)>>,
    <<L!get_by_value_range(b, One, Two, V), EL!get_by_value_range(V, <<I1>>, <<I2>>, e, ctx)>>,
    <<L!get_by_value_list(b, Ls, V), EL!get_by_value_list(V, ELs, e, ctx)>>,
    <<L!get_by_value_relative_rank_range(b, One, 2, V),
      EL!get_by_value_relative_rank_range(V, I1, I2, e, ctx)>>,
    <<L!get_by_value_relative_rank_range_count(b, One, 2, 1, V),
      EL!get_by_value_relative_rank_range_count(V, I1, I2, I1, e, ctx)>>,
    <<L!get_by_index(b, 1, V), EL!get_by_index(V, "INT", I1, e, ctx)>>,
    <<L!get_by_index_range(b, 1, V), EL!get_by_index_range(V, I1, e, ctx)>>,
    <<L!get_by_index_range_count(b, 1, 2, V), EL!get_by_index_range_count(V, I1, I2, e, ctx)>>,
    <<L!get_by_rank(b, 1, V), EL!get_by_rank(V, "INT", I1, e, ctx)>>,
    <<L!get_by_rank_range(b, 1, V), EL!get_by_rank_range(V, I1, e, ctx)>>,
    <<L!get_by_rank_range_count(b, 1, 2, V), EL!get_by_rank_range_count(V, I1, I2, e, ctx)>> }

\* List operations without an expression.
ListOnly ==
  {L!create("list", ListOrderType.Ordered, FALSE), L!create("list", ListOrderType.Unordered, TRUE),
   L!set_order("list", ListOrderType.Ordered, <<ctx_list_index_create(1, 0, TRUE)>>),
   L!pop("list", -1), L!pop_range("list", 1, 2), L!pop_range_from("list", 1), L!remove("list", 1),
   L!remove_range("list", 1, 2), L!remove_range_from("list", 1), L!trim("list", 1, 2),
   L!get("list", 300), L!get_range("list", 1, 2), L!get_range_from("list", 1)}

MapTwins(ctx) ==
  LET b == "map"
      e == E!map_bin("map")
      K == M!MapReturnType.Key
      KV == M!MapReturnType.KeyValue
      C == M!MapReturnType.Count
      N == M!MapReturnType.None
      P(mode) == M!MapPolicy(MapOrder.KeyOrdered, mode) IN
  UNION {{ <<M!put(P(mode), b, One, Two), EM!put(P(mode), I1, I2, e, ctx)>>,
           <<M!put_items(P(mode), b, Mp), EM!put_items(P(mode), EMp, e, ctx)>>,
           <<M!increment_value(P(mode), b, One, Two), EM!increment(P(mode), I1, I2, e, ctx)>>
         } : mode \in {"Update", "UpdateOnly", "CreateOnly"}}
  \cup
  { <<M!clear(b), EM!clear(e, ctx)>>,
    <<M!remove_by_key(b, One, N), EM!remove_by_key(I1, e, ctx)>>,
    <<M!remove_by_key_list(b, Ls, N), EM!remove_by_key_list(ELs, e, ctx)>>,
    <<M!remove_by_key_range(b, One, Two, N), EM!remove_by_key_range(<<I1>>, <<I2>>, e, ctx)>>,
    <<M!remove_by_key_range(b, Nil, Nil, N), EM!remove_by_key_range(<< >>, << >>, e, ctx)>>,
    <<M!remove_by_key_relative_index_range(b, One, 2, N),
      EM!remove_by_key_relative_index_range(I1, I2, e, ctx)>>,
    <<M!remove_by_key_relative_index_range_count(b, One, 2, 1, N),
      EM!remove_by_key_relative_index_range_count(I1, I2, I1, e, ctx)>>,
    <<M!remove_by_value(b, One, N), EM!remove_by_value(I1, e, ctx)>>,
    <<M!remove_by_value_list(b, Ls, N), EM!remove_by_value_list(ELs, e, ctx)>>,
    <<M!remove_by_value_range(b, One, Nil, N), EM!remove_by_value_range(<<I1>>, << >>, e, ctx)>>,
    <<M!remove_by_value_relative_rank_range(b, One, 2, N),
      EM!remove_by_value_relative_rank_range(I1, I2, e, ctx)>>,
    <<M!remove_by_value_relative_rank_range_count(b, One, 2, 1, N),
      EM!remove_by_value_relative_rank_range_count(I1, I2, I1, e, ctx)>>,
    <<M!remove_by_index(b, 1, N), EM!remove_by_index(I1, e, ctx)>>,
    <<M!remove_by_index_range_from(b, 1, N), EM!remove_by_index_range(I1, e, ctx)>>,
    <<M!remove_by_index_range(b, 1, 2, N), EM!remove_by_index_range_count(I1, I2, e, ctx)>>,
    <<M!remove_by_rank(b, 1, N), EM!remove_by_rank(I1, e, ctx)>>,
    <<M!remove_by_rank_range_from(b, 1, N), EM!remove_by_rank_range(I1, e, ctx)>>,
    <<M!remove_by_rank_range(b, 1, 2, N), EM!remove_by_rank_range_count(I1, I2, e, ctx)>>,
    <<M!size(b), EM!size(e, ctx)>>,
    <<M!get_by_key(b, One, K), EM!get_by_key(K, "INT", I1, e, ctx)>>,
    <<M!get_by_key_range(b, One, Two, KV), EM!get_by_key_range(KV, <<I1>>, <<I2>>, e, ctx)>>,
    <<M!get_by_key_list(b, Ls, C), EM!get_by_key_list(C, ELs, e, ctx)>>,
    <<M!get_by_key_relative_index_range(b, One, 2, K),
      EM!get_by_key_relative_index_range(K, I1, I2, e, ctx)>>,
    <<M!get_by_key_relative_index_range_count(b, One, 2, 1, K),
      EM!get_by_key_relative_index_range_count(K, I1, I2, I1, e, ctx)>>,
    <<M!get_by_value(b, One, K), EM!get_by_value(K, I1, e, ctx)>>,
    <<M!get_by_value_range(b, Nil, Two, K), EM!get_by_value_range(K, << >>, <<I2>>, e, ctx)>>,
    <<M!get_by_value_list(b, Ls, K), EM!get_by_value_list(K, ELs, e, ctx)>>,
    <<M!get_by_value_relative_rank_range(b, One, 2, K),
      EM!get_by_value_relative_rank_range(K, I1, I2, e, ctx)>>,
    <<M!get_by_value_relative_rank_range_count(b, One, 2, 1, K),
      EM!get_by_value_relative_rank_range_count(K, I1, I2, I1, e, ctx)>>,
    <<M!get_by_index(b, 1, K), EM!get_by_index(K, "INT", I1, e, ctx)>>,
    <<M!get_by_index_range_from(b, 1, K), EM!get_by_index_range(K, I1, e, ctx)>>,
    <<M!get_by_index_range(b, 1, 2, K), EM!get_by_index_range_count(K, I1, I2, e, ctx)>>,
    <<M!get_by_rank(b, 1, K), EM!get_by_rank(K, "INT", I1, e, ctx)>>,
    <<M!get_by_rank_range_from(b, 1, K), EM!get_by_rank_range(K, I1, e, ctx)>>,
    <<M!get_by_rank_range(b, 1, 2, K), EM!get_by_rank_range_count(K, I1, I2, e, ctx)>> }

MapOnly ==
  {M!set_order("map", MapOrder.KeyValueOrdered),
   set_context(M!set_order("map", MapOrder.Unordered),
               <<ctx_map_key_create(Str("k"), MapOrder.KeyOrdered), ctx_map_key_create(One, MapOrder.Unordered)>>),
   M!decrement_value(M!MapPolicy(MapOrder.KeyOrdered, "Update"), "map", One, Two)}

BitAndHllTwins ==
  LET b == "blob"
      e == E!blob_bin("blob")
      V == Text("Blob", 3, "xyz")
      EV == E!blob_val("xyz")
      W == Bit!BitwiseOverflowActions
      p == [flags |-> 4] IN
  { <<Bit!resize(b, 1, <<2>>, p), EB!resize(p, I1, 2, e)>>,
    <<Bit!resize(b, 1, << >>, p), EB!resize(p, I1, 0, e)>>,
    <<Bit!insert(b, 1, V, p), EB!insert(p, I1, EV, e)>>,
    <<Bit!remove(b, 1, 2, p), EB!remove(p, I1, I2, e)>>,
    <<Bit!set(b, 1, 2, V, p), EB!set(p, I1, I2, EV, e)>>,
    <<Bit!or(b, 1, 2, V, p), EB!or(p, I1, I2, EV, e)>>,
    <<Bit!xor(b, 1, 2, V, p), EB!xor(p, I1, I2, EV, e)>>,
    <<Bit!and(b, 1, 2, V, p), EB!and(p, I1, I2, EV, e)>>,
    <<Bit!not(b, 1, 2, p), EB!not(p, I1, I2, e)>>,
    <<Bit!lshift(b, 1, 2, 1, p), EB!lshift(p, I1, I2, I1, e)>>,
    <<Bit!rshift(b, 1, 2, 1, p), EB!rshift(p, I1, I2, I1, e)>>,
    <<Bit!add(b, 1, 2, 1, TRUE, W.Wrap, p), EB!add(p, I1, I2, I1, TRUE, W.Wrap, e)>>,
    <<Bit!subtract(b, 1, 2, 1, FALSE, W.Saturate, p), EB!subtract(p, I1, I2, I1, FALSE, W.Saturate, e)>>,
    <<Bit!set_int(b, 1, 2, 1, p), EB!set_int(p, I1, I2, I1, e)>>,
    <<Bit!get(b, 1, 2), EB!get(I1, I2, e)>>,
    <<Bit!count(b, 1, 2), EB!count(I1, I2, e)>>,
    <<Bit!lscan(b, 1, 2, TRUE), EB!lscan(I1, I2, E!bool_val(TRUE), e)>>,
    <<Bit!rscan(b, 1, 2, FALSE), EB!rscan(I1, I2, E!bool_val(FALSE), e)>>,
    <<Bit!get_int(b, 1, 2, TRUE), EB!get_int(I1, I2, TRUE, e)>>,
    <<Bit!get_int(b, 1, 2, FALSE), EB!get_int(I1, I2, FALSE, e)>>,
    <<Hll!init(p, b, 1), EH!init(p, I1, e)>>,
    <<Hll!init_with_min_hash(p, b, 1, 2), EH!init_with_min_hash(p, I1, I2, e)>>,
    <<Hll!add(p, b, Ls), EH!add(p, ELs, e)>>,
    <<Hll!add_with_index(p, b, Ls, 1), EH!add_with_index(p, ELs, I1, e)>>,
    <<Hll!add_with_index_and_min_hash(p, b, Ls, 1, 2), EH!add_with_index_and_min_hash(p, ELs, I1, I2, e)>>,
    <<Hll!get_count(b), EH!get_count(e)>>,
    <<Hll!get_union(b, Ls), EH!get_union(ELs, e)>>,
    <<Hll!get_union_count(b, Ls), EH!get_union_count(ELs, e)>>,
    <<Hll!get_intersect_count(b, Ls), EH!get_intersect_count(ELs, e)>>,
    <<Hll!get_similarity(b, Ls), EH!get_similarity(ELs, e)>>,
    <<Hll!describe(b), EH!describe(e)>> }

BitAndHllOnly ==
  {set_context(Bit!count("blob", 1, 2), <<ctx_list_index(1)>>),
   Hll!set_union([flags |-> 1], "hll", <<Text("HLL", 5, "h")>>), Hll!refresh_count("hll"),
   Hll!fold("hll", 4), set_context(Hll!describe("hll"), <<ctx_list_index(1)>>)}

Exps ==
  {E!key("INT"), E!key_exists, E!int_bin("a"), E!string_bin("a"), E!blob_bin("a"), E!float_bin("a"),
   E!geo_bin("a"), E!bin_type("a"), E!set_name, E!device_size, E!last_update, E!since_update,
   E!void_time, E!ttl, E!is_tombstone, E!digest_modulo(3), E!regex_compare("x*", 2, E!string_bin("a")),
   E!geo_compare(E!geo_bin("a"), E!geo_val("{}")), E!int_val(-5), E!bool_val(TRUE), E!string_val("s"),
   E!float_val("f"), E!blob_val("b"), E!list_val(Ls), E!map_val(Mp), E!nil, E!ne(I1, I2), E!gt(I1, I2),
   E!ge(I1, I2), E!lt(I1, I2), E!le(I1, I2), E!bin_exists("a"), E!not(E!bool_val(TRUE)),
   E!and(<<E!eq(I1, I2), E!key_exists>>), E!or(<<E!eq(I1, I2), E!key_exists>>), E!num_add(<<I1, I2, I1>>),
   E!num_sub(<<I1, I2>>), E!num_mul(<<I1, I2>>), E!num_div(<<I1, I2>>), E!int_and(<<I1, I2>>),
   E!int_xor(<<I1, I2>>), E!min(<<I1, I2>>), E!max(<<I1, I2>>),
   E!cond(<<E!eq(I1, I2), I1, E!unknown>>), E!num_pow(I1, I2), E!num_log(I1, I2), E!num_mod(I1, I2),
   E!int_lshift(I1, I2), E!int_rshift(I1, I2), E!int_arshift(I1, I2), E!int_lscan(I1, E!bool_val(TRUE)),
   E!int_rscan(I1, E!bool_val(TRUE)), E!num_abs(I1), E!num_floor(I1), E!num_ceil(I1), E!to_int(I1),
   E!to_float(I1), E!int_not(I1), E!int_count(I1),
   E!exp_let(<<E!def("x", E!int_bin("a")), E!def("y", I1), E!gt(E!var("x"), E!var("y"))>>),
   E!exp_let([i \in 1 .. 8 |-> IF i < 8 THEN E!def("x", I1) ELSE E!var("x")]),
   EH!may_contain(ELs, E!hll_bin("a"))}
-----------------------------------------------------------------------------
Bin(name, value) == [name |-> name, value |-> value]

WriteRequests ==
  {[cmd |-> "write", op_type |-> OperationType.Write, key |-> SomeKey, policy |-> Plain,
    bins |-> <<Bin("a", v)>>] : v \in Values \cup {Huge(n) : n \in 70 .. 90}}
  \cup
  {[cmd |-> "write", op_type |-> OperationType.Write, key |-> SomeKey, policy |-> Plain,
    bins |-> <<Bin(Long, One)>>]}
  \cup
  {[cmd |-> "write", op_type |-> OperationType.Append, key |-> key, policy |-> policy,
    bins |-> <<Bin("a", Str("s")), Bin("bin", One)>>] : key \in Keys, policy \in Policies}

KeyRequests ==
  {[cmd |-> cmd, key |-> key, policy |-> policy] :
     cmd \in {"delete", "touch", "exists"}, key \in Keys, policy \in Policies}
  \cup {[cmd |-> "read", key |-> SomeKey, policy |-> policy, bins |-> bins] :
          policy \in Policies, bins \in BinSets}
  \cup {[cmd |-> "read", key |-> SomeKey, policy |-> [Plain EXCEPT !.filter = <<exp>>], bins |-> All] :
          exp \in Exps}
  \cup {[cmd |-> "udf", key |-> key, policy |-> policy, package |-> "pkg", function |-> "fn",
         args |-> args] : key \in Keys, policy \in Policies, args \in {<< >>, <<Ls>>, <<Items(16)>>}}

Operate(policy, operations) ==
  [cmd |-> "operate", key |-> SomeKey, policy |-> policy, operations |-> operations,
   twin |-> FALSE, inverted |-> FALSE]

TwinRequests ==
  UNION {{[Operate([Plain EXCEPT !.filter = <<pair[2]>>], <<In(ctx, pair[1])>>) EXCEPT !.twin = TRUE] :
            pair \in ListTwins(ctx) \cup MapTwins(ctx)} : ctx \in Contexts}
  \cup {[Operate([Plain EXCEPT !.filter = <<pair[2]>>], <<pair[1]>>) EXCEPT !.twin = TRUE] :
          pair \in BitAndHllTwins}

ScalarOps ==
  {S!get, S!get_header, S!get_bin("a"), S!put(Bin("a", One)), S!append(Bin("a", Str("s"))),
   S!prepend(Bin("a", Str("s"))), S!add(Bin("a", One)), S!touch, S!delete}

OperateRequests ==
  {Operate(Guarded, <<op>>) : op \in ListOnly \cup MapOnly \cup BitAndHllOnly \cup ScalarOps}
  \cup {Operate(policy, <<S!get_bin("a"), op, write_exp("a", I1, 1), read_exp("x", E!ttl, 0)>>) :
          policy \in Policies, op \in ScalarOps}
  \cup {Operate(policy, <<S!get_bin("a"), op>>) : policy \in Policies, op \in ScalarOps \cup ListOnly}

Rows(keysAndBins) ==
  [i \in DOMAIN keysAndBins |-> [idx |-> 2 * i, key |-> keysAndBins[i][1], bins |-> keysAndBins[i][2]]]

BatchRequests ==
  {[cmd |-> "batch_read", policy |-> policy, rows |-> Rows(<< <<k1, b1>>, <<k2, b2>>, <<SomeKey, All>> >>)] :
     policy \in Policies, k1 \in Keys, k2 \in {SomeKey, Key("other", "set", << >>)},
     b1 \in BinSets, b2 \in BinSets}

IntFilter(type) ==
  [bin_name |-> "age", index_type |-> type, value_particle_type |-> 1, begin |-> One, end |-> Two]

ScanRequests ==
  {[cmd |-> "scan", policy |-> policy, namespace |-> "ns", set_name |-> set, bins |-> bins, task_id |-> 5,
    pids |-> pids] : policy \in Policies, set \in {"", "set"}, bins \in BinSets, pids \in {<< >>, <<0, 4095>>}}
  \cup
  {[cmd |-> "query", policy |-> policy, namespace |-> "ns", set_name |-> set, index_name |-> index,
    bins |-> bins, filters |-> filters, aggregation |-> agg, write |-> write, task_id |-> 5,
    pids |-> <<1, 2>>] :
     policy \in {Plain, Guarded}, set \in {"", "set"}, index \in {<< >>, <<"">>, <<"idx">>},
     bins \in BinSets \cup {Some(<< >>)}, filters \in {<< >>, <<IntFilter(0)>>, <<IntFilter(1)>>},
     agg \in {<< >>, <<[package |-> "pkg", function |-> "fn", args |-> <<Ls>>]>>,
              <<[package |-> "pkg", function |-> "", args |-> << >>]>>},
     write \in BOOLEAN}

MCRequests ==
  WriteRequests \cup KeyRequests \cup TwinRequests \cup OperateRequests \cup BatchRequests \cup ScanRequests

\* Lists and maps the server keeps in order, several answers for a bin, nil ones, and the
\* name of a set in front.
Answer(bin, v, ordered) == [bin |-> bin, v |-> v, ordered |-> ordered]
Reply(answers) == [fields |-> << >>, answers |-> answers]

MCReplies ==
  {Reply(<< >>), Reply(<<Answer("a", One, FALSE), Answer("a", Two, FALSE), Answer("a", Str("s"), FALSE)>>),
   Reply(<<Answer("a", Nil, FALSE), Answer("b", List(Ls), TRUE), Answer("b", One, FALSE)>>),
   Reply(<<Answer("a", One, FALSE), Answer("b", Nil, FALSE), Answer("a", List(Ls), TRUE)>>),
   [fields |-> <<4>>, answers |-> <<Answer("a", One, FALSE)>>], [fields |-> <<4>>, answers |-> << >>]}
  \cup {Reply(<<Answer("a", v, FALSE)>>) : v \in Values}
  \cup {Reply(<<Answer("a", v, TRUE)>>) : v \in {List(Items(n)) : n \in {0, 14, 15, 16}}
                                             \cup {HashMap(Entries(n)) : n \in {0, 14, 15, 16}}}

\* An operation that asks for the items outside of a range.
InvertedRequests ==
  {[Operate(Plain, <<L!get_by_index_range("list", 1, L!ListReturnType.Inverted)>>)
      EXCEPT !.inverted = TRUE]}
==============================================================================
