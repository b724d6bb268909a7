------------------------------ MODULE ExpCommon ------------------------------
(***************************************************************************)
(* The builders of expressions/mod.rs: bins, metadata, literals,           *)
(* comparisons, logic, arithmetic and variables.                           *)
(***************************************************************************)
EXTENDS Expressions

key(exp_type) == OfValue("Key", IntVal(ExpType[exp_type]))
key_exists == Leaf("KeyExists")
int_bin(name) == BinOf("INT", name)
string_bin(name) == BinOf("STRING", name)
blob_bin(name) == BinOf("BLOB", name)
float_bin(name) == BinOf("FLOAT", name)
geo_bin(name) == BinOf("GEO", name)
list_bin(name) == BinOf("LIST", name)
map_bin(name) == BinOf("MAP", name)
hll_bin(name) == BinOf("HLL", name)
bin_type(name) == OfValue("BinType", Str(name))
set_name == Leaf("SetName")
device_size == Leaf("DeviceSize")
last_update == Leaf("LastUpdate")
since_update == Leaf("SinceUpdate")
void_time == Leaf("VoidTime")
ttl == Leaf("TTL")
is_tombstone == Leaf("IsTombstone")
digest_modulo(modulo) == OfValue("DigestModulo", IntVal(modulo))
regex_compare(regex, flags, bin) == [cmd |-> "Regex", val |-> Str(regex), bin |-> bin, flags |-> flags]
geo_compare(left, right) == Of("Geo", <<left, right>>)
int_val(val) == Literal(IntVal(val))
bool_val(val) == Literal(Bool(val))
string_val(val) == Literal(Str(val))
float_val(val) == Literal(Float(8, val))
blob_val(val) == Literal(Text("Blob", Len(val), val))
list_val(val) == OfValue("Quoted", List(val))
map_val(val) == Literal(HashMap(val))
\* A geo literal is a String value, not a GeoJSON one.
geo_val(val) == Literal(Str(val))
nil == Literal(Nil)
eq(left, right) == Of("EQ", <<left, right>>)
ne(left, right) == Of("NE", <<left, right>>)
gt(left, right) == Of("GT", <<left, right>>)
ge(left, right) == Of("GE", <<left, right>>)
lt(left, right) == Of("LT", <<left, right>>)
le(left, right) == Of("LE", <<left, right>>)
bin_exists(name) == ne(bin_type(name), int_val(ParticleType.Nil))
not(exp) == Of("Not", <<exp>>)
and(exps) == Of("And", exps)
or(exps) == Of("Or", exps)
num_add(exps) == Of("Add", exps)
num_sub(exps) == Of("Sub", exps)
num_mul(exps) == Of("Mul", exps)
num_div(exps) == Of("Div", exps)
int_and(exps) == Of("IntAnd", exps)
int_xor(exps) == Of("IntXor", exps)
min(exps) == Of("Min", exps)
max(exps) == Of("Max", exps)
cond(exps) == Of("Cond", exps)
exp_let(exps) == Of("Let", exps)
num_pow(a, b) == Of("Pow", <<a, b>>)
num_log(a, b) == Of("Log", <<a, b>>)
num_mod(a, b) == Of("Mod", <<a, b>>)
int_lshift(a, b) == Of("IntLshift", <<a, b>>)
int_rshift(a, b) == Of("IntRshift", <<a, b>>)
int_arshift(a, b) == Of("IntARshift", <<a, b>>)
int_lscan(a, b) == Of("IntLscan", <<a, b>>)
int_rscan(a, b) == Of("IntRscan", <<a, b>>)
num_abs(a) == Of("Abs", <<a>>)
num_floor(a) == Of("Floor", <<a>>)
num_ceil(a) == Of("Ceil", <<a>>)
to_int(a) == Of("ToInt", <<a>>)
to_float(a) == Of("ToFloat", <<a>>)
int_not(a) == Of("IntNot", <<a>>)
int_count(a) == Of("IntCount", <<a>>)
def(name, value) == [val |-> Str(name), exps |-> <<value>>]
var(name) == OfValue("Var", Str(name))
unknown == Leaf("Unknown")
==============================================================================
