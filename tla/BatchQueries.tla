---------------------------- MODULE BatchQueries ----------------------------
(***************************************************************************)
(* The module-level async helpers of async_support.py that run several     *)
(* queries at once, each through a reader's query with its timeout.        *)
(*                                                                         *)
(*  - process_multiple_sstables (289-319), aggregate=False: for each path  *)
(*    an AsyncSSTableReader(max_concurrent = 1) is entered, a task for     *)
(*    reader.query(sql) is created and the reader is exited (a no-op,      *)
(*    lines 260-263). No await in the loop suspends, so every task exists  *)
(*    before any of them runs. The tasks are then awaited with             *)
(*    asyncio.gather, which raises the first exception of a task as soon   *)
(*    as it happens and does not cancel the others.                        *)
(*  - process_multiple_sstables, aggregate=True, and                       *)
(*    parallel_query_execution (322-339): the core's AsyncBatchProcessor / *)
(*    AsyncQueryExecutor runs the items under its counting semaphore of    *)
(*    max_concurrent (spec.md 5; the core is not under src/).              *)
(*  - benchmark_async_performance (342-396): `iterations` single queries   *)
(*    on one file, each through its own reader, all at once under gather   *)
(*    (concurrent=True) or one after the other (concurrent=False); the     *)
(*    average divides by the number of timings.                           *)
(*                                                                         *)
(* Each reader.query runs with a timeout (lines 45-60): the caller's, or   *)
(* 300 s when it passes none or 0. A query ends with rows, with an error   *)
(* (unreadable file), or with a timeout error.                             *)
(***************************************************************************)
EXTENDS Naturals, FiniteSets

CONSTANTS
    Paths,          \* the sstable_paths (the queries, for parallel_query_execution)
    MaxConcurrent,  \* the max_concurrent argument
    MaxIterations   \* largest `iterations` passed to the benchmark

VARIABLES
    mode,           \* which helper was called, with which flag; fixed by the call
    iterations,     \* the benchmark's iterations argument
    caller,         \* "idle", "awaiting", "returned", "raised"
    task            \* task[i]: the query of item i (a path, a query, an iteration)

vars == <<mode, iterations, caller, task>>

Modes == {"separate", "aggregate", "parallel", "bench_concurrent", "bench_sequential"}
Ids == Paths \cup (1..MaxIterations)

TaskStates == {"none", "created", "running", "ok", "failed", "timedout"}
Settled == {"ok", "failed", "timedout"}
Errors == {"failed", "timedout"}

(* The items the call runs a query for.                                    *)
Items == IF mode \in {"bench_concurrent", "bench_sequential"} THEN 1..iterations ELSE Paths

(* The core's semaphore bounds these calls; the others use a reader (and   *)
(* an executor) per query.                                                 *)
Semaphored == mode \in {"aggregate", "parallel"}

Running == {i \in Ids : task[i] = "running"}

-----------------------------------------------------------------------------
Init ==
    /\ mode \in Modes
    /\ iterations \in 0..MaxIterations
    /\ caller = "idle"
    /\ task = [i \in Ids |-> "none"]

Launch(items) ==
    /\ task' = [i \in Ids |-> IF i \in items THEN "created" ELSE "none"]
    /\ caller' = "awaiting"
    /\ UNCHANGED <<mode, iterations>>

(* Lines 312-317: one task per path, all created before the first runs.    *)
SpawnAll == caller = "idle" /\ mode = "separate" /\ Launch(Paths)

(* Lines 307-310: the paths are handed to the processor's process_all.    *)
ProcessAll == caller = "idle" /\ mode = "aggregate" /\ Launch(Paths)

(* Lines 338-339: the queries are handed to the executor's                 *)
(* execute_concurrent.                                                     *)
ParallelQueries == caller = "idle" /\ mode = "parallel" /\ Launch(Paths)

(* Lines 369-372: one single_query coroutine per iteration, gathered.      *)
BenchConcurrent == caller = "idle" /\ mode = "bench_concurrent" /\ Launch(1..iterations)

(* Lines 376-379: the sequential loop begins.                              *)
BenchSequential == caller = "idle" /\ mode = "bench_sequential" /\ Launch({})

(* Lines 379-382: iteration k starts once single_query of k - 1 returned. *)
BenchNext(k) ==
    /\ mode = "bench_sequential" /\ caller = "awaiting"
    /\ k \in 1..iterations /\ task[k] = "none"
    /\ \A j \in 1..(k - 1) : task[j] = "ok"
    /\ task' = [task EXCEPT ![k] = "created"]
    /\ UNCHANGED <<mode, iterations, caller>>

(* A query starts. With a reader of its own, it runs in that reader's     *)
(* executor, which is free; under the core's batch calls it waits for a   *)
(* slot of the semaphore.                                                  *)
Start(p) ==
    /\ task[p] = "created"
    /\ Semaphored => Cardinality(Running) < MaxConcurrent
    /\ task' = [task EXCEPT ![p] = "running"]
    /\ UNCHANGED <<mode, iterations, caller>>

(* The core returns the rows, or raises (unreadable or malformed file).   *)
Finish(p) ==
    /\ task[p] = "running"
    /\ \E r \in {"ok", "failed"} : task' = [task EXCEPT ![p] = r]
    /\ UNCHANGED <<mode, iterations, caller>>

TimeOut(p) ==
    /\ ~Semaphored
    /\ task[p] = "running"
    /\ task' = [task EXCEPT ![p] = "timedout"]
    /\ UNCHANGED <<mode, iterations, caller>>

Benchmark == mode \in {"bench_concurrent", "bench_sequential"}

(* Lines 319, 310, 339: every query returned rows; the list is returned.  *)
GatherReturn ==
    /\ caller = "awaiting" /\ ~Benchmark
    /\ \A i \in Items : task[i] = "ok"
    /\ caller' = "returned"
    /\ UNCHANGED <<mode, iterations, task>>

(* Lines 373-396: every iteration has been timed; the metrics divide by   *)
(* len(times), which raises ZeroDivisionError when there was none.        *)
BenchReturn ==
    /\ caller = "awaiting" /\ Benchmark
    /\ \A k \in 1..iterations : task[k] = "ok"
    /\ caller' = IF iterations = 0 THEN "raised" ELSE "returned"
    /\ UNCHANGED <<mode, iterations, task>>

(* A query raised; gather (or the awaiting loop, line 380) re-raises it   *)
(* at once and leaves the other tasks running.                             *)
GatherRaise ==
    /\ caller = "awaiting"
    /\ \E i \in Items : task[i] \in Errors
    /\ caller' = "raised"
    /\ UNCHANGED <<mode, iterations, task>>

Next ==
    \/ SpawnAll \/ ProcessAll \/ ParallelQueries \/ BenchConcurrent \/ BenchSequential
    \/ \E k \in 1..MaxIterations : BenchNext(k)
    \/ \E i \in Ids : Start(i) \/ Finish(i) \/ TimeOut(i)
    \/ GatherReturn \/ BenchReturn
    \/ GatherRaise

(* The event loop runs every ready task and resumes the awaiting caller   *)
(* (and the sequential loop, once its single_query has returned);         *)
(* a running query is given up on when its timer runs out. Nothing forces  *)
(* the core to finish a query by itself.                                   *)
Fairness ==
    /\ WF_vars(SpawnAll \/ ProcessAll \/ ParallelQueries \/ BenchConcurrent \/ BenchSequential)
    /\ \A k \in 1..MaxIterations : WF_vars(BenchNext(k))
    /\ \A i \in Ids : WF_vars(Start(i)) /\ WF_vars(TimeOut(i))
    /\ WF_vars(GatherReturn \/ BenchReturn \/ GatherRaise)

Spec == Init /\ [][Next]_vars /\ Fairness

-----------------------------------------------------------------------------
(* Bounded fan-out (spec.md 5): a multi-file batch never has more queries  *)
(* in flight than max_concurrent; excess work waits.                       *)
BoundedConcurrency == Cardinality(Running) <= MaxConcurrent

=============================================================================
