\* Every helper of the sync and async readers on every statement, column
\* list, WHERE condition, LIMIT and sample size of MCReaderQueries.
CONSTANTS
    NoneV = NoneV
    None <- NoneV
    NRows <- MCNRows
    SchemaColumns <- MCSchemaColumns
    TableName <- MCTableName
    WhereRows <- MCWhereRows
    Upcase <- MCUpcase
    SubWords <- MCSubWords
    NumVal <- MCNumVal
    NameLen <- MCNameLen
    ValLen <- MCValLen
    DataNamed <- MCDataNamed
    CompanionFiles <- MCCompanionFiles
    FsStates <- MCFsStates
    Requests <- MCRequests

SPECIFICATION Spec

\* A call returns once.
CHECK_DEADLOCK FALSE

INVARIANT HelpersNeverWrong
INVARIANT OptimizeFlagsUnknownColumns
INVARIANT PprintRowsAligned
INVARIANT ExportsAccountForEveryFormat
INVARIANT PathReportConsistent
