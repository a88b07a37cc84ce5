--------------------------- MODULE ReaderQueries ----------------------------
(***************************************************************************)
(* The query helpers of the Python readers and the SQL they hand to the    *)
(* core: SSTableReader.query_one, query_count, query_exists, query_columns *)
(* (with _build_column_query), sample/head and validate_query (reader.py), *)
(* and AsyncSSTableReader.count, exists and sample (async_support.py).     *)
(*                                                                         *)
(* A statement is a sequence of tokens, joined by single spaces as the     *)
(* f-strings join them; a WHERE condition is one opaque token with the set *)
(* of rows it accepts. The core's parser and executor (spec.md 4.5, 4.6, 6;*)
(* Rust code not under src/) are modelled from the spec: the grammar       *)
(* SELECT cols FROM t [WHERE c] [LIMIT n] [OFFSET n], case-insensitive,    *)
(* read-only keywords rejected, unknown columns rejected before any row,   *)
(* OFFSET then LIMIT applied to the matched rows in file order.            *)
(***************************************************************************)
EXTENDS Naturals, Sequences, SequencesExt

Fmt == INSTANCE ResultFormat

CONSTANTS
    NRows,          \* rows in the file
    SchemaColumns,  \* column names of the table's schema
    TableName,      \* what get_table_name() returns
    WhereRows,      \* WhereRows[w]: rows the condition token w accepts
    Upcase,         \* lower-case spelling of a keyword -> the keyword
    SubWords,       \* token -> upper-case words it contains as substrings
    NumVal,         \* decimal token -> its value
    NameLen,        \* column -> len(column name)
    ValLen,         \* ValLen[c][i]: len(str(value)) of column c in row i
    Requests,       \* the calls made: [fn, sql, cols, where, limit, n,
                    \*                   fmts, fmt, path]
    DataNamed,      \* the paths whose name ends with "-Data.db"
    CompanionFiles, \* the companion files validate_sstable_path looks for
    FsStates,       \* [kind, size, present]: the path on disk at the call
    None

VARIABLES req, res, pc,
    fs,     \* the path on disk: kind, size, the companion files present
    fs0,    \* fs when the call started (history)
    scan    \* validate_sstable_path's locals: errors, warnings, missing, todo

vars == <<req, res, pc, fs, fs0, scan>>

Kw(t) == IF t \in DOMAIN Upcase THEN Upcase[t] ELSE t
Digits == DOMAIN NumVal
(* str(n) for an int n.                                                    *)
Str(n) == CHOOSE s \in Digits : NumVal[s] = n

Raised == [raised |-> TRUE, value |-> None]
Ok(v) == [raised |-> FALSE, value |-> v]

-----------------------------------------------------------------------------
(* The core (spec_modelled). A column list is *, the aggregate COUNT of *  *)
(* (tests/test_queries.py parses it; the e2e suite expects its one         *)
(* column "count"), or names separated by ,.                               *)
ColList(cs) ==
    \/ cs \in {<<"*">>, <<"COUNT(*)">>}
    \/ /\ Len(cs) % 2 = 1
       /\ \A i \in DOMAIN cs : (i % 2 = 0) = (cs[i] = ",")
Named(cs) == {cs[i] : i \in {j \in DOMAIN cs : cs[j] \notin {"*", "COUNT(*)", ","}}}
Forbidden == {"INSERT", "UPDATE", "DELETE", "CREATE", "DROP"}
(* The index after an optional clause "k v" starting at i (v in vals).    *)
Skip(sql, i, k, vals) ==
    IF i + 1 <= Len(sql) /\ Kw(sql[i]) = k /\ sql[i + 1] \in vals THEN i + 2 ELSE i

(* parse(sql) (spec.md 4.5, 6): the clauses in order, nothing left over.  *)
Parse(sql) ==
    LET f    == SelectInSeq(sql, LAMBDA t : Kw(t) = "FROM")
        w    == f + 2
        l    == Skip(sql, w, "WHERE", DOMAIN WhereRows)
        o    == Skip(sql, l, "LIMIT", Digits)
        e    == Skip(sql, o, "OFFSET", Digits)
    IN  [ok     |-> /\ Len(sql) > 0 /\ Kw(sql[1]) = "SELECT"
                    /\ f > 2 /\ f < Len(sql) /\ ColList(SubSeq(sql, 2, f - 1))
                    /\ e = Len(sql) + 1
                    /\ \A i \in DOMAIN sql : Kw(sql[i]) \notin Forbidden,
         cols   |-> Named(SubSeq(sql, 2, f - 1)),
         count  |-> SubSeq(sql, 2, f - 1) = <<"COUNT(*)">>,
         where  |-> IF l > w THEN sql[w + 1] ELSE None,
         limit  |-> IF o > l THEN NumVal[sql[l + 1]] ELSE None,
         offset |-> IF e > o THEN NumVal[sql[o + 1]] ELSE 0]

(* OFFSET skipped, at most `limit` kept.                                   *)
Page(m, offset, limit) ==
    SubSeq(m, offset + 1, IF limit = None \/ offset + limit > Len(m) THEN Len(m)
                          ELSE offset + limit)
(* Matched rows in file order, paged.                                      *)
Rows(where, offset, limit) ==
    Page(SelectSeq([i \in 1..NRows |-> i],
                   LAMBDA i : where = None \/ i \in WhereRows[where]), offset, limit)

(* handle.query(sql, limit): a QueryError for bad SQL or an unknown       *)
(* column, else the rows; a `limit` argument is applied to the parsed     *)
(* query (apply_limit_offset) in place of its own LIMIT. A COUNT yields   *)
(* one row {count: matched rows}, which OFFSET and LIMIT then page as any  *)
(* result (spec.md defines no aggregate; this is SQL's order).             *)
Query(sql, limit) ==
    LET p   == Parse(sql)
        lim == IF limit = None THEN p.limit ELSE limit
    IN  IF ~p.ok \/ ~(p.cols \subseteq SchemaColumns) THEN Raised
        ELSE IF p.count THEN Ok(Page(<<[count |-> Len(Rows(p.where, 0, None))]>>, p.offset, lim))
        ELSE Ok(Rows(p.where, p.offset, lim))

-----------------------------------------------------------------------------
(* The SQL the helpers build.                                              *)
JoinComma(cs) == [i \in 1..(2 * Len(cs) - 1) |->
                     IF i % 2 = 1 THEN cs[(i + 1) \div 2] ELSE ","]

(* Mutant: the LIMIT clause is left off the statement.                    *)
BuildColumnQueryNoLimit(cols, where, limit) ==
    LET cs == IF cols = <<>> THEN <<"*">> ELSE cols IN
    <<"SELECT">> \o JoinComma(cs) \o <<"FROM", TableName>>
      \o (IF where # None THEN <<"WHERE", where>> ELSE <<>>)

(* query_columns / _build_column_query (reader.py 163-176, 361-375).       *)
(* `if where:` and `if limit:` skip a clause whose value is falsy.         *)
BuildColumnQuery(cols, where, limit) ==
    LET cs == IF cols = <<>> THEN <<"*">> ELSE cols IN
    <<"SELECT">> \o JoinComma(cs) \o <<"FROM", TableName>>
      \o (IF where # None THEN <<"WHERE", where>> ELSE <<>>)
      \o (IF limit \notin {None, 0} THEN <<"LIMIT", Str(limit)>> ELSE <<>>)

SampleQuery(table, n) == <<"SELECT", "*", "FROM", table, "LIMIT", Str(n)>>

(* query_count / count (reader.py 113-124, async_support.py 144-154):     *)
(* `sql.split(" FROM ", 1)` finds the first token spelled FROM exactly.    *)
FromAt(sql) == SelectInSeq(sql, LAMBDA t : t = "FROM")
CountQuery(sql) == <<"SELECT", "COUNT(*)", "FROM">> \o SubSeq(sql, FromAt(sql) + 1, Len(sql))
StartsSelect(sql) == Len(sql) > 0 /\ Kw(sql[1]) = "SELECT"

(* A QueryError of the COUNT statement propagates; its first row's         *)
(* 'count' is the answer; no row (an OFFSET skipped it) or no SELECT ...   *)
(* FROM falls back to counting the original statement's rows.             *)
Count(sql, limit) ==
    LET r == Query(CountQuery(sql), limit)
        f == Query(sql, None)
    IN  CASE ~(StartsSelect(sql) /\ FromAt(sql) > 0) \/ (~r.raised /\ r.value = <<>>)
               -> IF f.raised THEN f ELSE Ok(Len(f.value))
          [] r.raised -> Raised
          [] OTHER    -> Ok(r.value[1].count)

(* validate_query (reader.py 337-352): substring screen of the upper-cased *)
(* text.                                                                   *)
Words(t) == IF t \in DOMAIN SubWords THEN SubWords[t] ELSE {Kw(t)}
Validate(sql) ==
    LET errs == (IF StartsSelect(sql) THEN {} ELSE {"select_only"})
                \cup (IF \E i \in DOMAIN sql :
                           Words(sql[i]) \cap {"DELETE", "INSERT", "UPDATE"} # {}
                      THEN {"read_only"} ELSE {})
    IN  Ok([valid |-> errs = {}, errors |-> errs])

(* _extract_columns_from_query (utils.py 264-296): the text between       *)
(* SELECT and the first " FROM ", split at commas, each item's first word  *)
(* ("" for an empty item). Names are compared lower-cased (line 239); the  *)
(* model's column names are lower case already.                            *)
ItemAt(cs, i) == IF i <= Len(cs) /\ cs[i] # "," THEN cs[i] ELSE ""
ExtractColumns(sql) ==
    LET f  == SelectInSeq(sql, LAMBDA t : Kw(t) = "FROM")
        cs == SubSeq(sql, 2, f - 1)
    IN  IF ~StartsSelect(sql) \/ f = 0 THEN {}
        ELSE IF cs = <<"*">> THEN {"*"}
        ELSE {ItemAt(cs, i) : i \in {1} \cup {j + 1 : j \in {k \in DOMAIN cs : cs[k] = ","}}}

(* Mutant: `col != "*"` is dropped from the existence test.                *)
OptimizeStarIsColumn(sql, available) ==
    LET issues == {c \in ExtractColumns(sql) : c \notin available} IN
    Ok([optimized |-> issues = {}, issues |-> issues])

(* optimize_query (utils.py 220-261): the suggestions are fixed wording    *)
(* and left out; an issue is an extracted column not available.            *)
Optimize(sql, available) ==
    LET issues == {c \in ExtractColumns(sql) : c # "*" /\ c \notin available} IN
    Ok([optimized |-> issues = {}, issues |-> issues])

(* A result row of the statement: its selected columns, as value lengths. *)
RowOf(cols, i) == [c \in cols |-> ValLen[c][i]]
Shown(sql, rows) ==
    LET cs == Parse(sql).cols
        cols == IF cs = {} THEN SchemaColumns ELSE cs
    IN  [k \in DOMAIN rows |-> RowOf(cols, rows[k])]

(* pprint_results(results, max_rows=20) (utils.py 500-513) prints the       *)
(* table of format_query_results with its default max_width of 80.         *)
PprintMaxRows == 20
PprintWidth == 80
Pprint(rs) == Fmt!FormatQueryResults(rs, PprintMaxRows, NameLen, PprintWidth)

(* The core's export_csv, export_json and export_parquet (spec_modelled;  *)
(* spec.md 1 names the writers, their format is out of scope): the        *)
(* statement's rows are written, or the call raises for a rejected        *)
(* statement or a failed write (`wrote` FALSE).                           *)
Writers == {"csv", "json", "parquet"}
CoreExport(sql, fmt, wrote) ==
    LET q == Query(sql, None) IN
    IF fmt \notin Writers \/ q.raised \/ ~wrote THEN Raised ELSE Ok(Len(q.value))

(* One format of export_all_formats (reader.py 263-287): the try around    *)
(* the writer call turns any exception, the ValueError for an unknown     *)
(* format included, into {success: False}; the output path and the error  *)
(* text are left out.                                                      *)
ExportEntry(sql, fmt, wrote) ==
    LET e == CoreExport(sql, fmt, wrote) IN
    IF e.raised THEN [success |-> FALSE, rows |-> 0]
    ELSE [success |-> TRUE, rows |-> e.value]

(* Mutant: the try is missing, so the first failing format aborts the loop.*)
ExportResultsNoTry(sql, formats, wrote) ==
    IF \E i \in DOMAIN formats : CoreExport(sql, formats[i], wrote[i]).raised THEN Raised
    ELSE Ok(FoldLeftDomain(LAMBDA acc, i : (formats[i] :> ExportEntry(sql, formats[i], wrote[i])) @@ acc,
                           [f \in {} |-> None], formats))

(* The loop of export_all_formats (reader.py 261-288): results[fmt] = ...  *)
(* in list order, so a repeated format keeps its last outcome.             *)
ExportResults(sql, formats, wrote) ==
    Ok(FoldLeftDomain(LAMBDA acc, i : (formats[i] :> ExportEntry(sql, formats[i], wrote[i])) @@ acc,
                      [f \in {} |-> None], formats))
DefaultFormats == <<"csv", "json", "parquet">>

(* export_async (async_support.py 181-209) with _export_csv_async and      *)
(* _export_json_async (211-255): `import aiofiles` first, then the whole   *)
(* query, then the format check; csv returns early for no rows, without a *)
(* "format" key; the aiofiles write may fail. The stats are the format    *)
(* and rows_written.                                                       *)
AsyncWriters == {"csv", "json"}
AsyncExport(sql, fmt, aiofiles, wrote) ==
    LET q == Query(sql, None) IN
    CASE ~aiofiles \/ q.raised           -> Raised
      [] fmt \notin AsyncWriters        -> Raised
      [] fmt = "csv" /\ q.value = <<>>  -> Ok([format |-> None, rows |-> 0])
      [] ~wrote                         -> Raised
      [] OTHER                          -> Ok([format |-> fmt, rows |-> Len(q.value)])

-----------------------------------------------------------------------------
(* The file system matters to validate_sstable_path only.                 *)
FsFor(r) == IF r.fn = "validate_path" THEN FsStates ELSE {CHOOSE f \in FsStates : TRUE}

Init ==
    /\ req \in Requests
    /\ res = Raised
    /\ pc = "call"
    /\ fs \in FsFor(req)
    /\ fs0 = fs
    /\ scan = [errors |-> {}, warnings |-> {}, missing |-> <<>>, todo |-> <<>>]

Return(r) == res' = r /\ pc' = "returned" /\ UNCHANGED <<req, fs, fs0, scan>>
Calling(fn) == pc = "call" /\ req.fn = fn

(* query_one (99-100): query(sql, limit=1), the first row or None.         *)
QueryOne ==
    /\ Calling("query_one")
    /\ LET r == Query(req.sql, 1) IN
       Return(IF r.raised THEN r
              ELSE Ok(IF r.value = <<>> THEN None ELSE r.value[1]))

(* query_count (113-124): a COUNT query through query_one, else len(query). *)
QueryCount == Calling("query_count") /\ Return(Count(req.sql, 1))

(* query_exists (136-137).                                                 *)
QueryExists ==
    /\ Calling("query_exists")
    /\ LET r == Query(req.sql, 1) IN
       Return(IF r.raised THEN r ELSE Ok(r.value # <<>>))

(* query_columns (163-176).                                                *)
QueryColumns ==
    /\ Calling("query_columns")
    /\ Return(Query(BuildColumnQuery(req.cols, req.where, req.limit), None))

(* sample (204) and its alias head (218-220).                             *)
Sample == Calling("sample") /\ Return(Query(SampleQuery(TableName, req.n), None))

(* The _df variants: the same statement through the core's query_df,      *)
(* spec_modelled as the rows of query(sql) materialized as a frame.        *)
QueryDf(sql) == Query(sql, None)

(* query_columns_df (177-191), sample_df (206-216) and its alias head_df   *)
(* (222-224).                                                              *)
QueryColumnsDf ==
    /\ Calling("query_columns_df")
    /\ Return(QueryDf(BuildColumnQuery(req.cols, req.where, req.limit)))
SampleDf == Calling("sample_df") /\ Return(QueryDf(SampleQuery(TableName, req.n)))

(* validate_query (324-359).                                               *)
ValidateQuery == Calling("validate") /\ Return(Validate(req.sql))

(* AsyncSSTableReader.count (144-154): as query_count, without limit=1.    *)
ACount == Calling("a_count") /\ Return(Count(req.sql, None))

(* AsyncSSTableReader.exists (166-167): " LIMIT 1" appended to the text.  *)
AExists ==
    /\ Calling("a_exists")
    /\ LET r == Query(req.sql \o <<"LIMIT", "1">>, None) IN
       Return(IF r.raised THEN r ELSE Ok(r.value # <<>>))

(* AsyncSSTableReader.sample (179): the table is named `table`.           *)
ASample == Calling("a_sample") /\ Return(Query(SampleQuery("table", req.n), None))

(* examples/basic_usage.py 197-216: optimize_query(sql,                    *)
(* reader.get_column_names()).                                             *)
OptimizeQuery == Calling("optimize") /\ Return(Optimize(req.sql, SchemaColumns))

(* results = reader.query(sql); pprint_results(results).                   *)
PprintQuery ==
    /\ Calling("pprint")
    /\ LET r == Query(req.sql, None) IN
       Return(IF r.raised THEN r ELSE Ok(Pprint(Shown(req.sql, r.value))))

(* query_sstable (reader.py 403-427) and quick_query (__init__.py         *)
(* 208-226): a reader opened on the file, reader.query(sql), the reader    *)
(* closed by the with block.                                               *)
QuerySstable == Calling("query_sstable") /\ Return(Query(req.sql, None))
QuickQuery == Calling("quick_query") /\ Return(Query(req.sql, None))

(* benchmark_query_performance(reader, sql, iterations) (utils.py        *)
(* 455-497): `iterations` runs of reader.query(sql), results_count the     *)
(* length of the first; the timings are left out. sum(times)/len(times)    *)
(* divides by zero when no iteration ran.                                  *)
Benchmark(sql, iterations) ==
    LET r == Query(sql, None) IN
    CASE iterations = 0 -> Raised
      [] r.raised       -> r
      [] OTHER          -> Ok(Len(r.value))
BenchmarkQuery == Calling("benchmark") /\ Return(Benchmark(req.sql, req.n))

(* query_sstable_df (reader.py 430-455) opens the reader and calls         *)
(* query_df; quick_query_df (__init__.py 228-249) first raises ImportError *)
(* when pandas was not importable (_PANDAS_AVAILABLE, 156-161).            *)
QuerySstableDf == Calling("query_sstable_df") /\ Return(QueryDf(req.sql))
QuickQueryDf ==
    /\ Calling("quick_query_df")
    /\ \E pandas \in BOOLEAN : Return(IF pandas THEN QueryDf(req.sql) ELSE Raised)

(* AsyncSSTableReader.query_with_progress (async_support.py 111-130): the  *)
(* default callback prints; the core's execute_with_progress returns the   *)
(* rows of the statement (spec_modelled).                                  *)
AProgress == Calling("a_progress") /\ Return(Query(req.sql, None))

(* export_all_formats (reader.py 241-288); formats=None means all three.  *)
(* Each writer call may fail on its own.                                   *)
ExportAll ==
    /\ Calling("export_all")
    /\ LET formats == IF req.fmts = None THEN DefaultFormats ELSE req.fmts IN
       \E wrote \in [DOMAIN formats -> BOOLEAN] : Return(ExportResults(req.sql, formats, wrote))

(* AsyncSSTableReader.export_async: aiofiles installed or not, the write   *)
(* succeeding or not.                                                      *)
AExport ==
    /\ Calling("a_export")
    /\ \E aiofiles, wrote \in BOOLEAN :
          Return(AsyncExport(req.sql, req.fmt, aiofiles, wrote))

(* validate_sstable_path (utils.py 366-431), one step per file-system      *)
(* call, so that files may disappear between them. Error and warning texts *)
(* are tags.                                                               *)
Step(from, to) == pc = from /\ req.fn = "validate_path" /\ pc' = to
NotFound == [valid |-> FALSE, errors |-> {"missing"}, warnings |-> {},
             size |-> None, missing |-> None]

(* 381-384: path.exists(), else an early return without the size keys.     *)
VExists ==
    /\ Calling("validate_path")
    /\ IF fs.kind = "missing" THEN Return(Ok(NotFound))
       ELSE pc' = "is_file" /\ UNCHANGED <<req, res, fs, fs0, scan>>

(* 386-392: is_file() and the name's suffix.                               *)
VIsFile ==
    /\ Step("is_file", "stat")
    /\ scan' = [scan EXCEPT !.errors =
                  (IF fs.kind = "file" THEN {} ELSE {"not_file"})
                  \cup (IF req.path \in DataNamed THEN {} ELSE {"extension"})]
    /\ UNCHANGED <<req, res, fs, fs0>>

(* Mutant: the `elif size < 1024` test comes first.                       *)
SizeWarningSmallFirst(f) ==
    CASE f.kind = "missing" -> {"stat_failed"}
      [] f.size < 1024      -> {"small"}
      [] f.size = 0         -> {"empty"}
      [] OTHER              -> {}

(* 394-402: stat().st_size inside try; an OSError becomes a warning.       *)
SizeWarning(f) ==
    CASE f.kind = "missing" -> {"stat_failed"}
      [] f.size = 0         -> {"empty"}
      [] f.size < 1024      -> {"small"}
      [] OTHER              -> {}
VStat ==
    /\ Step("stat", "companions")
    /\ scan' = [scan EXCEPT !.warnings = SizeWarning(fs), !.todo = CompanionFiles]
    /\ UNCHANGED <<req, res, fs, fs0>>

(* 404-420: companion_path.exists() for each companion, in dict order.     *)
VCompanion ==
    /\ Step("companions", "companions")
    /\ scan.todo # <<>>
    /\ LET c == Head(scan.todo) IN
       scan' = [scan EXCEPT !.todo = Tail(scan.todo),
                            !.missing = IF c \in fs.present THEN @ ELSE Append(@, c)]
    /\ UNCHANGED <<req, res, fs, fs0>>

(* 422-431: the companions warning and the result dict, whose            *)
(* "file_size_bytes" evaluates path.exists() and then path.stat(),         *)
(* outside any try.                                                        *)
Report(size) ==
    [valid    |-> scan.errors = {},
     errors   |-> scan.errors,
     warnings |-> scan.warnings \cup (IF scan.missing = <<>> THEN {} ELSE {"missing_companions"}),
     size     |-> size,
     missing  |-> scan.missing]
VFinalExists ==
    /\ Step("companions", "final_stat")
    /\ scan.todo = <<>>
    /\ fs.kind # "missing"
    /\ UNCHANGED <<req, res, fs, fs0, scan>>
VFinalStat ==
    /\ pc = "final_stat"
    /\ Return(IF fs.kind = "missing" THEN Raised ELSE Ok(Report(fs.size)))
VFinalGone ==
    /\ Step("companions", "returned")
    /\ scan.todo = <<>>
    /\ fs.kind = "missing"
    /\ res' = Ok(Report(0))
    /\ UNCHANGED <<req, fs, fs0, scan>>

(* Compaction deleting the SSTable's files while the call runs: the        *)
(* Data.db file or one companion, one unlink at a time.                    *)
Unlink ==
    /\ req.fn = "validate_path"
    /\ pc \notin {"call", "returned"}
    /\ \/ fs.kind = "file" /\ fs' = [fs EXCEPT !.kind = "missing"]
       \/ \E c \in fs.present : fs' = [fs EXCEPT !.present = @ \ {c}]
    /\ UNCHANGED <<req, res, pc, fs0, scan>>

Next ==
    \/ QueryOne \/ QueryCount \/ QueryExists \/ QueryColumns \/ Sample
    \/ ValidateQuery \/ ACount \/ AExists \/ ASample
    \/ OptimizeQuery \/ PprintQuery
    \/ QuerySstable \/ QuickQuery \/ BenchmarkQuery \/ ExportAll \/ AExport
    \/ QueryColumnsDf \/ SampleDf \/ QuerySstableDf \/ QuickQueryDf \/ AProgress
    \/ VExists \/ VIsFile \/ VStat \/ VCompanion \/ VFinalExists \/ VFinalStat
    \/ VFinalGone \/ Unlink

Spec == Init /\ [][Next]_vars

-----------------------------------------------------------------------------
(* What each call means (spec.md 4.5, 4.6 and the docstrings): the rows of *)
(* its statement, or a QueryError for a statement the parser rejects.      *)
Full(sql) == LET p == Parse(sql) IN
             IF ~p.ok \/ ~(p.cols \subseteq SchemaColumns) THEN Raised
             ELSE Ok(Rows(p.where, p.offset, p.limit))
Meaning(r) ==
    CASE r.fn \in {"query_one"} ->
              LET f == Full(r.sql) IN
              IF f.raised THEN f ELSE Ok(IF f.value = <<>> THEN None ELSE f.value[1])
      [] r.fn \in {"query_exists", "a_exists"} ->
              LET f == Full(r.sql) IN IF f.raised THEN f ELSE Ok(f.value # <<>>)
      [] r.fn \in {"query_count", "a_count"} ->
              LET f == Full(r.sql) IN IF f.raised THEN f ELSE Ok(Len(f.value))
      [] r.fn \in {"query_columns", "query_columns_df"} ->
              IF ToSet(r.cols) \subseteq SchemaColumns
              THEN Ok(Rows(r.where, 0, r.limit)) ELSE Raised
      [] r.fn \in {"sample", "a_sample", "sample_df"} -> Ok(Rows(None, 0, r.n))
      [] r.fn \in {"query_sstable", "quick_query", "query_sstable_df",
                   "quick_query_df", "a_progress"} -> Full(r.sql)
      [] r.fn = "benchmark" ->
              LET f == Full(r.sql) IN IF f.raised THEN f ELSE Ok(Len(f.value))
      [] OTHER -> LET p == Parse(r.sql) IN Ok([valid |-> p.ok])

(* A helper that returns, returns what its call means: the first row, the  *)
(* existence, the count, the selected rows with WHERE and LIMIT honoured,  *)
(* the first n rows, for every statement, spelling and clause mix.         *)
RowHelpers == {"query_one", "query_count", "query_exists", "query_columns",
               "sample", "a_count", "a_exists", "a_sample",
               "query_sstable", "quick_query", "benchmark", "query_columns_df",
               "sample_df", "query_sstable_df", "quick_query_df", "a_progress"}
(* A count of a statement with a LIMIT is left out: the COUNT statement   *)
(* keeps that LIMIT (or query_one's 1), which pages the aggregate's one    *)
(* row and so counts every match; neither the docstring nor spec.md says   *)
(* whether LIMIT bounds the count.                                         *)
CountOfLimited(r) == r.fn \in {"query_count", "a_count"} /\ Parse(r.sql).limit # None
HelpersNeverWrong ==
    pc = "returned" /\ req.fn \in RowHelpers /\ ~res.raised /\ ~CountOfLimited(req)
        => res = Meaning(req)

(* A helper answers exactly what its call means: it raises the core's      *)
(* QueryError when the statement is rejected (spec.md 4.6, 7: an unknown   *)
(* column is one), and otherwise returns without raising. The count        *)
(* helpers rewrite the statement to a COUNT of * over its FROM part, and   *)
(* the benchmark divides by its number of runs.                            *)
HelpersFollowMeaning ==
    pc = "returned" /\ req.fn \in RowHelpers /\ ~CountOfLimited(req)
        => res = Meaning(req)

(* validate_query reports a statement valid exactly when the core's query  *)
(* parser accepts it (spec.md 4.5: SELECT only, read-only keywords         *)
(* rejected).                                                              *)
ValidateMatchesParser ==
    pc = "returned" /\ req.fn = "validate"
        => res.value.valid = Meaning(req).value.valid

(* optimize_query, given the reader's column names, reports as issues      *)
(* exactly the selected columns the schema lacks, for every statement the  *)
(* core parses, so `optimized` is True exactly when the core would not     *)
(* reject the statement for an unknown column.                             *)
OptimizeFlagsUnknownColumns ==
    pc = "returned" /\ req.fn = "optimize" /\ Parse(req.sql).ok
        => res.value.issues = Parse(req.sql).cols \ SchemaColumns

(* The table pprint_results prints for a query's rows has a line for each  *)
(* of the first 20 rows, and every one of them, truncated or padded, is    *)
(* exactly as wide as the separator line, whether or not the widths were   *)
(* scaled down to 80 characters.                                           *)
PprintRowsAligned ==
    pc = "returned" /\ req.fn = "pprint" /\ ~res.raised =>
        LET f == Full(req.sql).value
            t == res.value
        IN  /\ Len(t) = IF f = <<>> THEN 0 ELSE 2 + Min({Len(f), PprintMaxRows})
            /\ \A i \in 3..Len(t) : t[i] = t[2]
(* export_all_formats answers every format it was asked for, once, and     *)
(* never raises: a format reported successful is one of the writers and    *)
(* wrote exactly the rows the statement means; a statement the core        *)
(* rejects succeeds in no format. export_async, when it returns stats     *)
(* for rows, reports the statement's rows in a supported format.           *)
ExportsAccountForEveryFormat ==
    pc = "returned" =>
        LET f == Full(req.sql) IN
        /\ req.fn = "export_all" =>
              /\ ~res.raised
              /\ DOMAIN res.value = ToSet(IF req.fmts = None THEN DefaultFormats ELSE req.fmts)
              /\ \A x \in DOMAIN res.value : res.value[x].success =>
                    /\ x \in Writers
                    /\ ~f.raised
                    /\ res.value[x].rows = Len(f.value)
        /\ req.fn = "a_export" /\ ~res.raised =>
              /\ ~f.raised
              /\ req.fmt \in AsyncWriters
              /\ res.value.rows = Len(f.value)

(* validate_sstable_path, racing compaction: a path reported valid was a   *)
(* regular file named *-Data.db when the call started; every companion it  *)
(* reports missing is missing when it returns; it raises only when the     *)
(* file was deleted during the call; and when nothing was deleted during   *)
(* the call, the report is coherent: the "empty" warning exactly when      *)
(* file_size_bytes is 0, the companions listed missing exactly the ones    *)
(* absent.                                                                 *)
PathReportConsistent ==
    pc = "returned" /\ req.fn = "validate_path" =>
        /\ res.raised => fs0.kind = "file" /\ fs.kind = "missing"
        /\ ~res.raised /\ res.value.valid => fs0.kind = "file" /\ req.path \in DataNamed
        /\ ~res.raised /\ res.value.missing # None =>
              ToSet(res.value.missing) \cap fs.present = {}
        /\ ~res.raised /\ fs = fs0 /\ fs.kind # "missing" =>
              /\ ("empty" \in res.value.warnings) = (res.value.size = 0)
              /\ ToSet(res.value.missing) = ToSet(CompanionFiles) \ fs.present
=============================================================================
