--------------------------- MODULE MCBatchQueries ---------------------------
EXTENDS BatchQueries

CONSTANTS p1, p2, p3

(* Three files against two slots: one more than the bound allows.         *)
MCPaths == {p1, p2, p3}
MCMaxConcurrent == 2

(* Benchmarks of none, one and two iterations: two make the sequential     *)
(* loop wait, none reaches the empty average.                              *)
MCMaxIterations == 2
=============================================================================
