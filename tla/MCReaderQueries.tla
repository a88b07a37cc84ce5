--------------------------- MODULE MCReaderQueries ---------------------------
EXTENDS ReaderQueries

CONSTANTS NoneV

(* users(id, name, age, updated_at), three rows.                          *)
MCNRows == 3
MCSchemaColumns == {"id", "name", "age", "updated_at"}
MCTableName == "users"
(* len(str(v)): a uuid, a name up to 30 characters, a two- or three-digit  *)
(* age, a datetime.                                                        *)
MCNameLen == [id |-> 2, name |-> 4, age |-> 3, updated_at |-> 10]
MCValLen == [id |-> <<36, 36, 36>>, name |-> <<5, 30, 12>>,
             age |-> <<2, 2, 3>>, updated_at |-> <<26, 26, 26>>]
(* "age > 21" accepts rows 1 and 3; "role = 'admin'" row 2;               *)
(* "updated_at > 0" rows 1 and 2.                                         *)
MCWhereRows == [w_age |-> {1, 3}, w_admin |-> {2}, w_updated |-> {1, 2}]
MCUpcase == [select |-> "SELECT", from |-> "FROM", where |-> "WHERE",
             limit |-> "LIMIT", offset |-> "OFFSET"]
MCSubWords == [updated_at |-> {"UPDATE"}, w_updated |-> {"UPDATE"}]
MCNumVal == [n0 |-> 0, n1 |-> 1, n2 |-> 2, n3 |-> 3]

(* Statements as a caller writes them.                                    *)
SelAll      == <<"SELECT", "*", "FROM", "users">>
SelLower    == <<"select", "name", ",", "age", "from", "users", "where", "w_age">>
SelPaged    == <<"SELECT", "name", "FROM", "users", "WHERE", "w_admin",
                 "LIMIT", "n2", "OFFSET", "n1">>
SelLimited  == <<"SELECT", "*", "FROM", "users", "LIMIT", "n1">>
SelOffset   == <<"SELECT", "id", "FROM", "users", "OFFSET", "n2">>
SelUpdated  == <<"SELECT", "updated_at", "FROM", "users", "WHERE", "w_updated">>
SelUnknown  == <<"SELECT", "email", "FROM", "users">>
SelDrop     == <<"SELECT", "*", "FROM", "users", "DROP", "TABLE", "users">>
Delete      == <<"DELETE", "FROM", "users">>
Statements  == {SelAll, SelLower, SelPaged, SelLimited, SelOffset,
                SelUpdated, SelUnknown, SelDrop, Delete}

OnSql(fns, sqls) ==
    {[fn |-> f, sql |-> s, cols |-> <<>>, where |-> NoneV, limit |-> NoneV, n |-> 0,
      fmts |-> NoneV, fmt |-> NoneV, path |-> NoneV] : f \in fns, s \in sqls}
Columns(fns, colLists, wheres, limits) ==
    {[fn |-> f, sql |-> <<>>, cols |-> c, where |-> w, limit |-> l, n |-> 0,
      fmts |-> NoneV, fmt |-> NoneV, path |-> NoneV] : f \in fns, c \in colLists, w \in wheres, l \in limits}
Samples(fns, ns) ==
    {[fn |-> f, sql |-> <<>>, cols |-> <<>>, where |-> NoneV, limit |-> NoneV, n |-> k,
      fmts |-> NoneV, fmt |-> NoneV, path |-> NoneV] : f \in fns, k \in ns}

(* export_all_formats(sql, base, formats) and export_async(sql, path,     *)
(* format): the default list, one writer, an unknown format after a       *)
(* writer, a repeated format.                                              *)
Exports(sqls, fmtLists) ==
    {[fn |-> "export_all", sql |-> s, cols |-> <<>>, where |-> NoneV, limit |-> NoneV,
      n |-> 0, fmts |-> l, fmt |-> NoneV, path |-> NoneV] : s \in sqls, l \in fmtLists}
AExports(sqls, fmts) ==
    {[fn |-> "a_export", sql |-> s, cols |-> <<>>, where |-> NoneV, limit |-> NoneV,
      n |-> 0, fmts |-> NoneV, fmt |-> f, path |-> NoneV] : s \in sqls, f \in fmts}

(* benchmark_query_performance(reader, sql, iterations).                   *)
Benchmarks(sqls, ns) ==
    {[fn |-> "benchmark", sql |-> s, cols |-> <<>>, where |-> NoneV, limit |-> NoneV,
      n |-> k, fmts |-> NoneV, fmt |-> NoneV, path |-> NoneV] : s \in sqls, k \in ns}

(* validate_sstable_path(p) for a Data.db path and another name, against  *)
(* a missing path, a directory, and a file that is empty, small or large,  *)
(* with all companions or without Index.db and Filter.db.                  *)
PathChecks(paths) ==
    {[fn |-> "validate_path", sql |-> <<>>, cols |-> <<>>, where |-> NoneV, limit |-> NoneV,
      n |-> 0, fmts |-> NoneV, fmt |-> NoneV, path |-> p] : p \in paths}
MCDataNamed == {"users-Data.db"}
MCCompanionFiles == <<"Index.db", "Statistics.db", "CompressionInfo.db",
                      "Filter.db", "Summary.db">>
MCFsStates ==
    LET all == ToSet(MCCompanionFiles) IN
    {[kind |-> "missing", size |-> 0, present |-> {}],
     [kind |-> "dir", size |-> 4096, present |-> all]}
    \cup {[kind |-> "file", size |-> z, present |-> c]
           : z \in {0, 100, 4096}, c \in {all, all \ {"Index.db", "Filter.db"}}}

ColLists == {<<>>, <<"name">>, <<"name", "age">>, <<"email">>}

(* Every helper on every statement (the counts on those naming only       *)
(* columns of the schema); the exports; query_columns with no LIMIT and    *)
(* with LIMIT 1 and 2; samples of 0 to 3 rows.                             *)
MCRequests ==
    OnSql({"query_one", "query_exists", "validate", "a_exists", "optimize", "pprint",
           "query_sstable", "quick_query", "query_sstable_df", "quick_query_df",
           "a_progress"}, Statements)
    \cup OnSql({"query_count", "a_count"}, Statements \ {SelUnknown})
    \cup Columns({"query_columns", "query_columns_df"}, ColLists,
                  {NoneV, "w_age", "w_updated"}, {NoneV, 1, 2})
    \cup Samples({"sample", "a_sample", "sample_df"}, 0..3)
    \cup Benchmarks(Statements, 1..2)
    \cup PathChecks({"users-Data.db", "users.db"})
    \cup Exports({SelAll, SelPaged, SelUnknown},
               {NoneV, <<"csv">>, <<"csv", "xml">>, <<"json", "csv", "json">>})
    \cup AExports({SelAll, SelPaged, SelUnknown}, {"csv", "json", "parquet"})

(* query_columns(..., limit=0).                                            *)
MCLimitZeroRequests == Columns({"query_columns"}, ColLists, {NoneV, "w_age"}, {0})

(* The counts of a statement naming a column the schema lacks, and a     *)
(* benchmark of no iterations.                                             *)
MCCountRequests == OnSql({"query_count", "a_count"}, {SelUnknown})
                   \cup Benchmarks({SelAll}, {0})

(* validate_query on the statements.                                       *)
MCValidateRequests == OnSql({"validate"}, Statements)
=============================================================================
