--------------------------- MODULE MCChunkedQuery ---------------------------
(* Model-checking instance of ChunkedQuery: a four-row file, every WHERE   *)
(* outcome, OFFSET 0..2, LIMIT none or 1..3, chunk_size None or 1..3 with  *)
(* a default of 2, in both streaming modes.                                *)
EXTENDS ChunkedQuery

MCNRows == 4
MCMaxOffset == 2
MCMaxLimit == 3
MCMaxChunk == 3
MCDefaultChunk == 2
=============================================================================
