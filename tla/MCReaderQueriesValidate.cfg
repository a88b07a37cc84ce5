\* validate_query on every statement, against the read-only rule of
\* spec.md 4.5. Expected to be violated.
CONSTANTS
    NoneV = NoneV
    None <- NoneV
    NRows <- MCNRows
    SchemaColumns <- MCSchemaColumns
    TableName <- MCTableName
    WhereRows <- MCWhereRows
    Upcase <- MCUpcase
    SubWords <- MCSubWords
    NumVal <- MCNumVal
    NameLen <- MCNameLen
    ValLen <- MCValLen
    DataNamed <- MCDataNamed
    CompanionFiles <- MCCompanionFiles
    FsStates <- MCFsStates
    Requests <- MCValidateRequests

SPECIFICATION Spec

\* A call returns once.
CHECK_DEADLOCK FALSE

INVARIANT ValidateMatchesParser
