---------------------------- MODULE MCReaderCache ----------------------------
EXTENDS ReaderCache

CONSTANTS t1, t2, NoneV

(* A users table as get_schema() describes it: a partition key, a         *)
(* clustering key and a regular column, the looked-up one last.           *)
MCSchemaDoc ==
    [keyspace |-> "ks", table |-> "users",
     columns |-> <<[name |-> "id", cql_type |-> "uuid"],
                   [name |-> "name", cql_type |-> "text"],
                   [name |-> "age", cql_type |-> "int"]>>,
     partition_keys |-> <<"id">>, clustering_keys |-> <<"name">>]
MCStatsDoc == [estimated_rows |-> 3, file_size |-> 4096, compression |-> "lz4"]

(* A column that exists (not the first) and one that does not.            *)
MCColumnArgs == {"age", "email"}

MCOneThread == {t1}
MCTwoThreads == {t1, t2}
MCMaxOps == 3
MCMaxOpsRace == 2
=============================================================================
