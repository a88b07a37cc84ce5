CONSTANTS
    NRows <- MCNRows
    MaxOffset <- MCMaxOffset
    MaxLimit <- MCMaxLimit
    MaxChunk <- MCMaxChunk
    DefaultChunk <- MCDefaultChunk
    NoLimit = NoLimit

SPECIFICATION Spec

\* A query ends: the generator returns or is closed, and nothing runs after.
CHECK_DEADLOCK FALSE

INVARIANT TypeOK
INVARIANT ChunkShape

PROPERTY StreamImplementsRowStream
