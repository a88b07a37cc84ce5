\* process_multiple_sstables over three files with max_concurrent = 2:
\* is the number of queries in flight bounded by max_concurrent?
CONSTANTS
    p1 = p1
    p2 = p2
    p3 = p3
    Paths <- MCPaths
    MaxConcurrent <- MCMaxConcurrent
    MaxIterations <- MCMaxIterations

SPECIFICATION Spec

CHECK_DEADLOCK FALSE

INVARIANT BoundedConcurrency
