\* One caller thread making three calls of the reader's schema and stats
\* surface, with core getters that may raise.
CONSTANTS
    t1 = t1
    t2 = t2
    NoneV = NoneV
    None <- NoneV
    Threads <- MCOneThread
    MaxOps <- MCMaxOps
    SchemaDoc <- MCSchemaDoc
    StatsDoc <- MCStatsDoc
    ColumnArgs <- MCColumnArgs

SPECIFICATION Spec

\* The caller stops after its calls.
CHECK_DEADLOCK FALSE

INVARIANT TypeOK
INVARIANT LookupsFollowSchema
