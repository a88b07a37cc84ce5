---------------------------- MODULE ReaderCache -----------------------------
(***************************************************************************)
(* The lazily filled schema and stats caches of the Python SSTableReader   *)
(* (reader.py 58-87) and the calls that read them (describe 226-239, the   *)
(* schema lookups 290-322), used by several caller threads at once.        *)
(*                                                                         *)
(* A property read is three steps of its thread, as in the bytecode: the   *)
(* `is None` test, the call into the core (get_schema / get_stats, which   *)
(* may raise), and the store followed by the return of the attribute. A    *)
(* thread switch can happen between any two of them. The core returns a    *)
(* new dict on every call; a dict is modelled as [kind, id], its content   *)
(* as the constant SchemaDoc or StatsDoc.                                  *)
(***************************************************************************)
EXTENDS Naturals, Sequences, SequencesExt

CONSTANTS
    Threads,        \* caller threads sharing one reader
    MaxOps,         \* calls each thread makes
    SchemaDoc,      \* what get_schema() returns: columns, partition/clustering keys
    StatsDoc,       \* what get_stats() returns
    ColumnArgs,     \* column names passed to get_column_type
    None            \* Python's None

Caches == {"schema", "stats"}

(* The cache reads each wrapper call makes, in order.                      *)
Reads == [schema |-> <<"schema">>, stats |-> <<"stats">>,
          describe |-> <<"schema", "stats">>,
          column_names |-> <<"schema">>, partition_keys |-> <<"schema">>,
          clustering_keys |-> <<"schema">>, column_type |-> <<"schema">>]
Ops == DOMAIN Reads

VARIABLES
    cache,      \* cache[c]: self._schema_cache / self._stats_cache
    fills,      \* fills[c]: stores into cache c so far
    nextId,     \* dicts the core has created so far
    pc,         \* pc[t]: "idle", "check", "call", "store"
    op,         \* op[t]: [name, arg] of the call in progress
    todo,       \* todo[t]: cache reads the call still has to make
    got,        \* got[t]: values the call has read so far
    fresh,      \* fresh[t]: the dict the core just returned to thread t
    ret,        \* ret[t]: [op, raised, value] of the last call that returned, or None
    calls       \* calls[t]: calls thread t has started

vars == <<cache, fills, nextId, pc, op, todo, got, fresh, ret, calls>>

Doc(o) == IF o.kind = "schema" THEN SchemaDoc ELSE StatsDoc

-----------------------------------------------------------------------------
(* get_column_names, get_partition_keys, get_clustering_keys (290-305).    *)
GetColumnNames(s) ==
    IF "columns" \in DOMAIN s
    THEN [i \in DOMAIN s.columns |-> s.columns[i].name] ELSE <<>>
GetKeys(s, k) == IF k \in DOMAIN s THEN s[k] ELSE <<>>

(* Mutant: the loop returns None as soon as one column does not match.     *)
GetColumnTypeFirstOnly(s, name) ==
    IF "columns" \in DOMAIN s /\ s.columns # <<>> /\ s.columns[1].name = name
    THEN s.columns[1].cql_type ELSE None

(* get_column_type (307-322): the first column of that name, else None.    *)
GetColumnType(s, name) ==
    IF "columns" \notin DOMAIN s THEN None
    ELSE LET i == SelectInSeq(s.columns, LAMBDA col : col.name = name)
         IN  IF i = 0 THEN None ELSE s.columns[i].cql_type

(* The value a call returns, from the dicts its property reads gave it.    *)
Result(o, v) ==
    CASE o.name \in Caches        -> v[1]
      [] o.name = "describe"      -> [schema |-> v[1], stats |-> v[2]]
      [] o.name = "column_names"  -> GetColumnNames(Doc(v[1]))
      [] o.name = "column_type"   -> GetColumnType(Doc(v[1]), o.arg)
      [] OTHER                    -> GetKeys(Doc(v[1]), o.name)

-----------------------------------------------------------------------------
(* __init__ lines 58-63: the core reader is built, both caches are None.   *)
Init ==
    /\ cache = [c \in Caches |-> None]
    /\ fills = [c \in Caches |-> 0]
    /\ nextId = 0
    /\ pc = [t \in Threads |-> "idle"]
    /\ op = [t \in Threads |-> None]
    /\ todo = [t \in Threads |-> <<>>]
    /\ got = [t \in Threads |-> <<>>]
    /\ fresh = [t \in Threads |-> None]
    /\ ret = [t \in Threads |-> None]
    /\ calls = [t \in Threads |-> 0]

(* A thread calls one of the wrapper's methods.                            *)
Call(t) ==
    /\ pc[t] = "idle" /\ calls[t] < MaxOps
    /\ \E name \in Ops, arg \in ColumnArgs :
          /\ op' = [op EXCEPT ![t] = [name |-> name, arg |-> arg]]
          /\ todo' = [todo EXCEPT ![t] = Reads[name]]
    /\ pc' = [pc EXCEPT ![t] = "check"]
    /\ got' = [got EXCEPT ![t] = <<>>]
    /\ calls' = [calls EXCEPT ![t] = @ + 1]
    /\ UNCHANGED <<cache, fills, nextId, fresh, ret>>

(* The call has made all its reads and returns its value.                  *)
Finish(t, g) ==
    /\ pc' = [pc EXCEPT ![t] = "idle"]
    /\ ret' = [ret EXCEPT ![t] = [op |-> op[t], raised |-> FALSE, value |-> Result(op[t], g)]]

(* One property read has produced the value v.                             *)
ReadDone(t, v) ==
    LET g == Append(got[t], v) IN
    /\ got' = [got EXCEPT ![t] = g]
    /\ todo' = [todo EXCEPT ![t] = Tail(@)]
    /\ IF Tail(todo[t]) = <<>> THEN Finish(t, g)
       ELSE pc' = [pc EXCEPT ![t] = "check"] /\ UNCHANGED ret

(* Lines 78/85: `if self._x_cache is None`; a filled cache is returned.    *)
Check(t) ==
    /\ pc[t] = "check"
    /\ LET c == Head(todo[t]) IN
       IF cache[c] = None
       THEN pc' = [pc EXCEPT ![t] = "call"]
            /\ UNCHANGED <<got, todo, ret>>
       ELSE ReadDone(t, cache[c])
    /\ UNCHANGED <<cache, fills, nextId, op, fresh, calls>>

(* Lines 79/86: the core's get_schema()/get_stats() returns a new dict, or *)
(* raises (SchemaError, unreadable Statistics.db); the exception leaves    *)
(* the cache unset and propagates out of the call.                         *)
CoreGet(t) ==
    /\ pc[t] = "call"
    /\ \/ /\ fresh' = [fresh EXCEPT ![t] = [kind |-> Head(todo[t]), id |-> nextId + 1]]
          /\ nextId' = nextId + 1
          /\ pc' = [pc EXCEPT ![t] = "store"]
          /\ UNCHANGED ret
       \/ /\ pc' = [pc EXCEPT ![t] = "idle"]
          /\ ret' = [ret EXCEPT ![t] = [op |-> op[t], raised |-> TRUE, value |-> None]]
          /\ UNCHANGED <<fresh, nextId>>
    /\ UNCHANGED <<cache, fills, op, todo, got, calls>>

(* Mutant: stats copied from schema, storing into self._schema_cache.      *)
StoreSchemaCache(t) ==
    /\ pc[t] = "store"
    /\ cache' = [cache EXCEPT !["schema"] = fresh[t]]
    /\ fills' = [fills EXCEPT !["schema"] = @ + 1]
    /\ ReadDone(t, fresh[t])
    /\ UNCHANGED <<nextId, op, fresh, calls>>

(* Lines 79-80/86-87: the dict is stored and the attribute returned. The  *)
(* store and the re-read of the attribute are one step here, so a thread   *)
(* returns the dict it stored even when another thread stores between      *)
(* the two lines; CacheFilledOnce already fails at that second store.      *)
Store(t) ==
    /\ pc[t] = "store"
    /\ LET c == Head(todo[t]) IN
       /\ cache' = [cache EXCEPT ![c] = fresh[t]]
       /\ fills' = [fills EXCEPT ![c] = @ + 1]
       /\ ReadDone(t, fresh[t])
    /\ UNCHANGED <<nextId, op, fresh, calls>>

Next == \E t \in Threads : Call(t) \/ Check(t) \/ CoreGet(t) \/ Store(t)

Spec == Init /\ [][Next]_vars

-----------------------------------------------------------------------------
TypeOK ==
    /\ pc \in [Threads -> {"idle", "check", "call", "store"}]
    /\ fills \in [Caches -> Nat]
    /\ \A c \in Caches : cache[c] = None \/ cache[c].kind = c
    /\ \A t \in Threads : Len(got[t]) + Len(todo[t]) <= 2

(* Memoised read (spec.md 5, "populated at most once per reader"): each    *)
(* cache is stored at most once over the reader's life, however the       *)
(* callers' reads, the core's failures and retries interleave.            *)
CacheFilledOnce == \A c \in Caches : fills[c] <= 1

(* Every schema lookup a thread completes (get_column_names, the key       *)
(* lists, get_column_type) returns what the core's schema says, whether   *)
(* its read hit the cache, filled it, or followed a failed fill.          *)
RefColumnType(a) ==
    IF \E i \in DOMAIN SchemaDoc.columns : SchemaDoc.columns[i].name = a
    THEN (CHOOSE col \in ToSet(SchemaDoc.columns) : col.name = a).cql_type
    ELSE None
Reference(o) ==
    CASE o.name = "column_names" ->
              [i \in DOMAIN SchemaDoc.columns |-> SchemaDoc.columns[i].name]
      [] o.name = "column_type"  -> RefColumnType(o.arg)
      [] OTHER                   -> SchemaDoc[o.name]
LookupsFollowSchema ==
    \A t \in Threads :
        /\ ret[t] # None
        /\ ~ret[t].raised
        /\ ret[t].op.name \in {"column_names", "column_type",
                               "partition_keys", "clustering_keys"}
        => ret[t].value = Reference(ret[t].op)
=============================================================================
