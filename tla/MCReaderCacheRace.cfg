\* Two caller threads sharing one reader, two calls each, with core
\* getters that may raise.
CONSTANTS
    t1 = t1
    t2 = t2
    NoneV = NoneV
    None <- NoneV
    Threads <- MCTwoThreads
    MaxOps <- MCMaxOpsRace
    SchemaDoc <- MCSchemaDoc
    StatsDoc <- MCStatsDoc
    ColumnArgs <- MCColumnArgs

SPECIFICATION Spec

\* The caller stops after its calls.
CHECK_DEADLOCK FALSE


INVARIANT CacheFilledOnce

