\* query_count and AsyncSSTableReader.count on a statement naming a column
\* the schema lacks, and benchmark_query_performance with iterations=0.
\* Expected to be violated.
CONSTANTS
    NoneV = NoneV
    None <- NoneV
    NRows <- MCNRows
    SchemaColumns <- MCSchemaColumns
    TableName <- MCTableName
    WhereRows <- MCWhereRows
    Upcase <- MCUpcase
    SubWords <- MCSubWords
    NumVal <- MCNumVal
    NameLen <- MCNameLen
    ValLen <- MCValLen
    DataNamed <- MCDataNamed
    CompanionFiles <- MCCompanionFiles
    FsStates <- MCFsStates
    Requests <- MCCountRequests

SPECIFICATION Spec

\* A call returns once.
CHECK_DEADLOCK FALSE

INVARIANT HelpersFollowMeaning
