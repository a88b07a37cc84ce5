\* query_columns(..., limit=0): spec.md 4.6 gives LIMIT 0 no rows; the
\* docstring calls limit an "Optional LIMIT". Expected to be violated.
CONSTANTS
    NoneV = NoneV
    None <- NoneV
    NRows <- MCNRows
    SchemaColumns <- MCSchemaColumns
    TableName <- MCTableName
    WhereRows <- MCWhereRows
    Upcase <- MCUpcase
    SubWords <- MCSubWords
    NumVal <- MCNumVal
    NameLen <- MCNameLen
    ValLen <- MCValLen
    DataNamed <- MCDataNamed
    CompanionFiles <- MCCompanionFiles
    FsStates <- MCFsStates
    Requests <- MCLimitZeroRequests

SPECIFICATION Spec

\* A call returns once.
CHECK_DEADLOCK FALSE

INVARIANT HelpersNeverWrong
