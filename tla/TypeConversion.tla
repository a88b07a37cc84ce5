--------------------------- MODULE TypeConversion ---------------------------
(***************************************************************************)
(* Conversion of a raw value read from an SSTable into its Python value,   *)
(* driven by the column's CQL type string (types.py, convert_cql_value and *)
(* the helpers that take a type string apart, lines 158-349).              *)
(*                                                                         *)
(* A type string is a sequence of tokens: type names, "<", ">" and ",".    *)
(* The helpers only ever look at the three brackets and separators and     *)
(* strip blanks, so names can be atoms and blanks are left out.            *)
(* Values are records of one shape: k is the kind ("null", "raw" for a     *)
(* scalar as the core hands it over, "str"/"int" once converted, "list",   *)
(* "tuple", "set", "dict", "pair" for one dict entry), a the scalar, xs    *)
(* the items of a list, tuple or pair, es the members of a set or dict.    *)
(* Scalar coercions (str(), int(), ...) are abstracted to the tag of the   *)
(* type they produce.                                                      *)
(***************************************************************************)
EXTENDS Naturals, Sequences, SequencesExt, FiniteSets

CONSTANTS
    Types,          \* the column types called with, as type trees
    Atoms,          \* raw scalars the core may hand over
    RowCounts,      \* row counts passed to estimate_memory_usage
    None

VARIABLES
    type,           \* the column's type (a tree [b |-> name, ps |-> params])
    raw,            \* the raw value passed in
    out,            \* what convert_cql_value returned
    info,           \* what get_cql_type_info returned: [python_type, type_hint]
    est,            \* what estimate_memory_usage returned for a column of the type
    pc              \* "call", "returned", "described", "estimated"

vars == <<type, raw, out, info, est, pc>>

-----------------------------------------------------------------------------
V(k, a, xs, es) == [k |-> k, a |-> a, xs |-> xs, es |-> es]
Null == V("null", "", <<>>, {})
Raw(a) == V("raw", a, <<>>, {})
PyList(xs) == V("list", "", xs, {})
PyTuple(xs) == V("tuple", "", xs, {})
PySet(es) == V("set", "", <<>>, es)
Pair(x, y) == V("pair", "", <<x, y>>, {})
PyDict(ps) == V("dict", "", <<>>, ps)

(* The CQLType enumeration's values that occur as names here.             *)
KnownBases == {"text", "int", "list", "set", "map", "tuple", "udt"}

(* A type tree written as the schema writes it: name<p1,p2,...>.          *)
RECURSIVE Render(_)
Render(t) ==
    IF t.ps = <<>> THEN <<t.b>>
    ELSE <<t.b, "<">>
         \o FoldLeft(LAMBDA acc, p : IF acc = <<>> THEN Render(p) ELSE acc \o <<",">> \o Render(p),
                     <<>>, t.ps)
         \o <<">">>

-----------------------------------------------------------------------------
(* cql_type_string.split('<')[0].lower().strip(): the tokens before the    *)
(* first "<"; one name is that name, anything else no known type.         *)
BaseType(ts) ==
    LET lt  == SelectInSeq(ts, LAMBDA x : x = "<")
        pre == IF lt = 0 THEN ts ELSE SubSeq(ts, 1, lt - 1)
    IN  IF Len(pre) = 1 THEN pre[1] ELSE "?"

HasBrackets(ts) == SelectInSeq(ts, LAMBDA x : x = "<") # 0 /\ SelectInSeq(ts, LAMBDA x : x = ">") # 0

(* Mutant: the closing bracket is found with find instead of rfind.       *)
InnerFirstClose(ts) ==
    SubSeq(ts, SelectInSeq(ts, LAMBDA x : x = "<") + 1,
               SelectInSeq(ts, LAMBDA x : x = ">") - 1)

(* What lies between the first "<" and the last ">" (find and rfind).     *)
Inner(ts) ==
    SubSeq(ts, SelectInSeq(ts, LAMBDA x : x = "<") + 1,
               SelectLastInSeq(ts, LAMBDA x : x = ">") - 1)

(* _split_type_params, lines 327-349: split at the commas outside any     *)
(* brackets; a part is added at each such comma, and the last one only    *)
(* when it is not blank.                                                   *)
SplitStep(acc, tok) ==
    CASE tok = "<" -> [acc EXCEPT !.depth = @ + 1, !.cur = Append(@, tok)]
      [] tok = ">" -> [acc EXCEPT !.depth = @ - 1, !.cur = Append(@, tok)]
      [] tok = "," /\ acc.depth = 0 -> [acc EXCEPT !.parts = Append(@, acc.cur), !.cur = <<>>]
      [] OTHER -> [acc EXCEPT !.cur = Append(@, tok)]

(* Mutant: commas split whatever the depth.                               *)
SplitTypeParamsNaive(ts) ==
    LET end == FoldLeft(LAMBDA acc, tok :
                          IF tok = "," THEN [acc EXCEPT !.parts = Append(@, acc.cur), !.cur = <<>>]
                          ELSE SplitStep(acc, tok),
                        [parts |-> <<>>, cur |-> <<>>, depth |-> 0], ts)
    IN  IF end.cur # <<>> THEN Append(end.parts, end.cur) ELSE end.parts

SplitTypeParams(ts) ==
    LET end == FoldLeft(SplitStep, [parts |-> <<>>, cur |-> <<>>, depth |-> 0], ts)
    IN  IF end.cur # <<>> THEN Append(end.parts, end.cur) ELSE end.parts

(* _extract_element_type, lines 291-297.                                  *)
ExtractElementType(ts) == IF HasBrackets(ts) THEN Inner(ts) ELSE <<"text">>

(* _extract_map_types, lines 300-312: the first two parts, else text.     *)
ExtractMapTypes(ts) ==
    LET parts == SplitTypeParams(Inner(ts)) IN
    IF HasBrackets(ts) /\ Len(parts) >= 2 THEN <<parts[1], parts[2]>>
    ELSE <<<<"text">>, <<"text">>>>

(* _extract_tuple_types, lines 315-324.                                   *)
ExtractTupleTypes(ts) ==
    IF HasBrackets(ts) THEN SplitTypeParams(Inner(ts)) ELSE <<<<"text">>>>

(* The members of a list, tuple or set input.                              *)
Items(v) == IF v.k = "set" THEN v.es ELSE ToSet(v.xs)

(* convert_cql_value, lines 158-288. None is returned first; an unknown    *)
(* base type returns the value as it is; a collection whose input is not  *)
(* of an accepted kind is rebuilt from it unconverted (list(value), ...).  *)
RECURSIVE Convert(_, _)
Convert(v, ts) ==
    LET base == BaseType(ts) IN
    IF v.k = "null" THEN Null
    ELSE IF base \notin KnownBases THEN v
    ELSE CASE base = "text" -> [v EXCEPT !.k = "str"]
           [] base = "int"  -> [v EXCEPT !.k = "int"]
           [] base = "list" ->
                IF v.k \in {"list", "tuple"}
                THEN LET et == ExtractElementType(ts) IN
                     PyList([i \in 1..Len(v.xs) |-> Convert(v.xs[i], et)])
                ELSE [v EXCEPT !.k = "list"]
           [] base = "set" ->
                IF v.k \in {"list", "tuple", "set"}
                THEN LET et == ExtractElementType(ts) IN
                     PySet({Convert(x, et) : x \in Items(v)})
                ELSE [v EXCEPT !.k = "set"]
           [] base = "map" ->
                IF v.k = "dict"
                THEN LET kv == ExtractMapTypes(ts) IN
                     PyDict({Pair(Convert(p.xs[1], kv[1]), Convert(p.xs[2], kv[2])) : p \in v.es})
                ELSE [v EXCEPT !.k = "dict"]
           [] base = "tuple" ->
                IF v.k \in {"list", "tuple"}
                THEN LET tt == ExtractTupleTypes(ts) IN
                     PyTuple([i \in 1..Len(v.xs) |->
                                Convert(v.xs[i], IF i <= Len(tt) THEN tt[i] ELSE <<"text">>)])
                ELSE [v EXCEPT !.k = "tuple"]
           [] OTHER -> [v EXCEPT !.k = "dict"]       \* udt: dict(value)

-----------------------------------------------------------------------------
(* PYTHON_TYPE_MAPPING (lines 60-95) for the known bases, by class name.   *)
PyClass == [text |-> "str", int |-> "int", list |-> "list", set |-> "set",
            map |-> "dict", tuple |-> "tuple", udt |-> "dict"]

(* infer_python_type (117-156): the mapped class, str for an unknown base. *)
InferPythonType(ts) ==
    LET base == BaseType(ts) IN IF base \in KnownBases THEN PyClass[base] ELSE "str"

(* A type hint as a tree: its constructor and its parameter hints.        *)
Hint(c, ps) == [c |-> c, ps |-> ps]

(* simple_mappings (371-392) for the scalar names of this model.           *)
SimpleHints == [text |-> "str", int |-> "int"]

(* Mutant: a set's hint is written List[...].                               *)
RECURSIVE TypeHintSetAsList(_)
TypeHintSetAsList(ts) ==
    LET base == BaseType(ts) IN
    CASE base \in DOMAIN SimpleHints -> Hint(SimpleHints[base], <<>>)
      [] base \in {"list", "set"} -> Hint("List", <<TypeHintSetAsList(ExtractElementType(ts))>>)
      [] base = "map" ->
           LET kv == ExtractMapTypes(ts) IN
           Hint("Dict", <<TypeHintSetAsList(kv[1]), TypeHintSetAsList(kv[2])>>)
      [] base = "tuple" ->
           LET tt == ExtractTupleTypes(ts) IN
           Hint("Tuple", [i \in DOMAIN tt |-> TypeHintSetAsList(tt[i])])
      [] base = "udt" -> Hint("Dict[str, Any]", <<>>)
      [] OTHER -> Hint("Any", <<>>)

(* create_type_hint_string (350-418): recursive over the parameter types   *)
(* the _extract_* helpers find.                                            *)
RECURSIVE TypeHint(_)
TypeHint(ts) ==
    LET base == BaseType(ts) IN
    CASE base \in DOMAIN SimpleHints -> Hint(SimpleHints[base], <<>>)
      [] base = "list" -> Hint("List", <<TypeHint(ExtractElementType(ts))>>)
      [] base = "set"  -> Hint("Set", <<TypeHint(ExtractElementType(ts))>>)
      [] base = "map" ->
           LET kv == ExtractMapTypes(ts) IN Hint("Dict", <<TypeHint(kv[1]), TypeHint(kv[2])>>)
      [] base = "tuple" ->
           LET tt == ExtractTupleTypes(ts) IN Hint("Tuple", [i \in DOMAIN tt |-> TypeHint(tt[i])])
      [] base = "udt" -> Hint("Dict[str, Any]", <<>>)
      [] OTHER -> Hint("Any", <<>>)

(* get_cql_type_info (421-453); the is_* flags and nullable are left out.  *)
TypeInfo(ts) == [python_type |-> InferPythonType(ts), type_hint |-> TypeHint(ts)]

-----------------------------------------------------------------------------
(* The conversion of spec.md 4.3, read off the type tree: null stays null; *)
(* scalars are coerced; list, set and map elements convert with their      *)
(* parameter types; tuple items positionally, extra items as text; a UDT   *)
(* is a flat key-value structure.                                          *)
Text == [b |-> "text", ps |-> <<>>]

RECURSIVE Expected(_, _)
Expected(v, t) ==
    IF v.k = "null" THEN Null
    ELSE CASE t.b = "text" -> [v EXCEPT !.k = "str"]
           [] t.b = "int"  -> [v EXCEPT !.k = "int"]
           [] t.b = "list" -> PyList([i \in 1..Len(v.xs) |-> Expected(v.xs[i], t.ps[1])])
           [] t.b = "set"  -> PySet({Expected(x, t.ps[1]) : x \in Items(v)})
           [] t.b = "map"  -> PyDict({Pair(Expected(p.xs[1], t.ps[1]), Expected(p.xs[2], t.ps[2])) : p \in v.es})
           [] t.b = "tuple" ->
                PyTuple([i \in 1..Len(v.xs) |->
                           Expected(v.xs[i], IF i <= Len(t.ps) THEN t.ps[i] ELSE Text)])
           [] OTHER -> [v EXCEPT !.k = "dict"]

(* Raw values of a type as the core hands them over: a scalar, a Python    *)
(* list or tuple for a list, also a set for a set, a dict for a map, a     *)
(* list or tuple of the tuple's arity (or one item more) for a tuple;      *)
(* collections of up to two items; null at every level.                    *)
Upto2(S) == {<<>>} \cup {<<x>> : x \in S} \cup {<<x, y>> : x, y \in S}

(* The sequences whose i-th item is drawn from the i-th set.              *)
RECURSIVE Product(_)
Product(Ss) ==
    IF Ss = <<>> THEN {<<>>} ELSE {<<x>> \o r : x \in Head(Ss), r \in Product(Tail(Ss))}

RECURSIVE RawValues(_)
RawValues(t) ==
    {Null} \cup
    CASE t.b \in {"text", "int"} -> {Raw(a) : a \in Atoms}
      [] t.b = "list" -> {PyList(s) : s \in Upto2(RawValues(t.ps[1]))}
                         \cup {PyTuple(s) : s \in Upto2(RawValues(t.ps[1]))}
      [] t.b = "set"  -> {PyList(s) : s \in Upto2(RawValues(t.ps[1]))}
                         \cup {PySet(ToSet(s)) : s \in Upto2(RawValues(t.ps[1]))}
      [] t.b = "map"  -> {PyDict({Pair(Raw(a), f[a]) : a \in DOMAIN f}) :
                            f \in UNION {[K -> RawValues(t.ps[2])] : K \in SUBSET Atoms}}
      [] t.b = "tuple" ->
           LET rs == [i \in 1..Len(t.ps) |-> RawValues(t.ps[i])]
               ss == Product(rs) \cup Product(Append(rs, {Raw(a) : a \in Atoms}))
           IN  {PyTuple(x) : x \in ss} \cup {PyList(x) : x \in ss}
      [] OTHER -> {PyDict({Pair(Raw(a), Raw(a)) : a \in K}) : K \in SUBSET Atoms}

-----------------------------------------------------------------------------
(* estimate_memory_usage (utils.py 126-194): type_sizes, bytes per value. *)
TypeSizes ==
    [text |-> 50, varchar |-> 50, ascii |-> 30, int |-> 4, smallint |-> 2,
     tinyint |-> 1, bigint |-> 8, varint |-> 8, float |-> 4, double |-> 8,
     decimal |-> 16, boolean |-> 1, blob |-> 100, uuid |-> 16, timeuuid |-> 16,
     timestamp |-> 8, date |-> 4, time |-> 8, inet |-> 16, list |-> 200,
     set |-> 200, map |-> 300, tuple |-> 100, udt |-> 200, counter |-> 8]

(* type_sizes.get(col_type, 50) of the name before the first "<".         *)
ColSize(ts) == IF BaseType(ts) \in DOMAIN TypeSizes THEN TypeSizes[BaseType(ts)] ELSE 50

MiB == 1024 * 1024

(* _get_memory_tips (197-217): how many tips, by size_bytes / 2^20.       *)
MemoryTips(size) ==
    CASE size > 1000 * MiB -> 4
      [] size > 100 * MiB  -> 3
      [] OTHER             -> 0

(* int(raw * 0.3), which is (raw * 3) // 10 exactly for every integer    *)
(* below 2^53, taken apart so that it stays within TLC's integers.         *)
Compressed(size) == (size \div 10) * 3 + ((size % 10) * 3) \div 10

(* Row size plus twice that for Python's objects, times the rows, and the *)
(* compressed size and tips of that total.                                 *)
EstimateMemoryUsage(n, cols) ==
    LET row == FoldSeq(LAMBDA c, s : s + ColSize(c.cql_type), 0, cols)
        size == n * (row + row * 2)
    IN  [row_size |-> row + row * 2, raw |-> size, compressed |-> Compressed(size),
         tips |-> MemoryTips(size)]

-----------------------------------------------------------------------------
Init ==
    /\ type \in Types
    /\ raw \in RawValues(type)
    /\ out = Null
    /\ info = None
    /\ est = None
    /\ pc = "call"

(* One call of convert_cql_value(raw, <type string>).                      *)
ConvertCall ==
    /\ pc = "call"
    /\ out' = Convert(raw, Render(type))
    /\ pc' = "returned"
    /\ UNCHANGED <<type, raw, info, est>>

(* The __main__ block (456-477): get_cql_type_info(cql_type) after the     *)
(* conversion.                                                             *)
TypeInfoCall ==
    /\ pc = "returned"
    /\ info' = TypeInfo(Render(type))
    /\ pc' = "described"
    /\ UNCHANGED <<type, raw, out, est>>

(* A caller estimates the memory of n rows of one column of the type      *)
(* (utils.estimate_memory_usage, exported by the package).               *)
EstimateCall ==
    /\ pc = "described"
    /\ \E n \in RowCounts : est' = EstimateMemoryUsage(n, <<[cql_type |-> Render(type)]>>)
    /\ pc' = "estimated"
    /\ UNCHANGED <<type, raw, out, info>>

Next == ConvertCall \/ TypeInfoCall \/ EstimateCall

Spec == Init /\ [][Next]_vars

-----------------------------------------------------------------------------
(* Conversion follows the type (spec.md 4.3): for every column type,       *)
(* nested ones included, the value convert_cql_value builds from the flat  *)
(* type string is the one the type tree prescribes; parameter types are    *)
(* found by depth-aware splitting, so a comma or a ">" inside a nested     *)
(* parameter never cuts a type apart.                                      *)
ConversionFollowsType == pc # "call" => out = Expected(raw, type)

(* Collection normalization (spec.md 4.3 and 8; tests/test_types.py:270):  *)
(* a null list, set or map converts to the empty collection, not to null. *)
NullCollectionIsEmpty ==
    pc # "call" /\ raw = Null /\ type.b \in {"list", "set", "map"} =>
        out \in {PyList(<<>>), PySet({}), PyDict({})}

(* A raw value of the column's shape: every tuple in it has its type's     *)
(* arity (the core hands over what the schema declares).                   *)
RECURSIVE Shaped(_, _)
Shaped(v, t) ==
    \/ v.k = "null"
    \/ CASE t.b = "tuple" -> Len(v.xs) = Len(t.ps) /\ \A i \in DOMAIN v.xs : Shaped(v.xs[i], t.ps[i])
         [] t.b = "list"  -> \A i \in DOMAIN v.xs : Shaped(v.xs[i], t.ps[1])
         [] t.b = "set"   -> \A x \in Items(v) : Shaped(x, t.ps[1])
         [] t.b = "map"   -> \A p \in v.es : Shaped(p.xs[2], t.ps[2])
         [] OTHER         -> TRUE

(* A Python value fits a type hint: None fits every hint (get_cql_type_info *)
(* reports every type nullable); containers fit item by item.              *)
RECURSIVE Fits(_, _)
Fits(v, h) ==
    \/ v.k = "null"
    \/ h.c = "Any"
    \/ h.c \in {"str", "int"} /\ v.k = h.c
    \/ h.c = "Dict[str, Any]" /\ v.k = "dict"
    \/ h.c = "List" /\ v.k = "list" /\ \A i \in DOMAIN v.xs : Fits(v.xs[i], h.ps[1])
    \/ h.c = "Set" /\ v.k = "set" /\ \A x \in v.es : Fits(x, h.ps[1])
    \/ h.c = "Dict" /\ v.k = "dict" /\ \A p \in v.es : Fits(p.xs[1], h.ps[1]) /\ Fits(p.xs[2], h.ps[2])
    \/ h.c = "Tuple" /\ v.k = "tuple" /\ Len(v.xs) = Len(h.ps)
          /\ \A i \in DOMAIN v.xs : Fits(v.xs[i], h.ps[i])

(* What get_cql_type_info says of a column type describes the values        *)
(* convert_cql_value builds for it: python_type is the class of a non-null *)
(* result, and the type hint, built by a second recursion over the same    *)
(* type string, fits the result at every level of nesting.                 *)
TypeInfoDescribesValue ==
    pc \in {"described", "estimated"} /\ Shaped(raw, type) =>
        /\ out.k # "null" => info.python_type = out.k
        /\ Fits(out, info.type_hint)

=============================================================================
