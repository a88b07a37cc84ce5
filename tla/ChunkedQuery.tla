---------------------------- MODULE ChunkedQuery ----------------------------
(***************************************************************************)
(* Streaming query execution as the Python caller sees it.                 *)
(*                                                                         *)
(*  - The query iterator of the core (AsyncQueryIterator, spec.md 3 and    *)
(*    4.6, code not under src/): scans the file's rows in order, applies   *)
(*    the WHERE filter, skips OFFSET matched rows, stops after LIMIT, and  *)
(*    reads ahead at most chunk_size rows into a buffer that is handed out *)
(*    one row per __anext__.                                               *)
(*  - AsyncSSTableReader.query_chunks (async_support.py 83-110): an async  *)
(*    generator that collects rows into a list and yields it when full,    *)
(*    then the final partial list.                                         *)
(*  - AsyncSSTableReader.query_streaming (async_support.py 62-81): yields  *)
(*    each row as it arrives.                                              *)
(*  - The consumer's `async for`, which may stop at any await (break,      *)
(*    timeout, task cancellation).                                         *)
(*                                                                         *)
(* A row is identified by its position in the file; the WHERE clause is    *)
(* abstracted to the set of positions it accepts.                          *)
(***************************************************************************)
EXTENDS Naturals, Sequences, SequencesExt

CONSTANTS
    NRows,          \* number of rows in the data file
    MaxOffset,      \* largest OFFSET enumerated
    MaxLimit,       \* largest LIMIT enumerated
    MaxChunk,       \* largest chunk_size argument enumerated
    DefaultChunk,   \* AsyncSSTableReader.chunk_size (constructor default)
    NoLimit         \* the query has no LIMIT

ASSUME NRows \in Nat /\ DefaultChunk \in Nat \ {0} /\ MaxChunk \in Nat

VARIABLES
    \* the query, fixed when the stream is opened
    matches,    \* file positions whose row satisfies the WHERE clause
    offset,     \* OFFSET (0 when absent)
    limit,      \* LIMIT, or NoLimit
    chunkArg,   \* chunk_size argument; 0 stands for None and for 0
    mode,       \* "chunks" (query_chunks) or "rows" (query_streaming)
    \* the core iterator
    itState,    \* "NotStarted", "Reading", "Chunked", "Finished"
    cursor,     \* next file position to read
    skipped,    \* matched rows skipped for OFFSET so far
    taken,      \* matched rows accepted so far (counted against LIMIT)
    buf,        \* rows read ahead and not yet handed out
    \* the Python generator and its consumer
    gen,        \* "loop", "suspended", "final", "done", "closed"
    chunk,      \* the generator's local list `chunk`
    received    \* the blocks the consumer has received, in order

query == <<matches, offset, limit, chunkArg, mode>>
itVars == <<itState, cursor, skipped, taken, buf>>
vars == <<query, itVars, gen, chunk, received>>

-----------------------------------------------------------------------------
(* The effective chunk size: `chunk_size = chunk_size or self.chunk_size`. *)
ChunkSize == IF chunkArg = 0 THEN DefaultChunk ELSE chunkArg

(* The rows per block the consumer receives in each mode. *)
BlockSize == IF mode = "rows" THEN 1 ELSE ChunkSize

LimitReached(t) == limit # NoLimit /\ t = limit

(* The iterator has nothing more to read: end of file or LIMIT reached.   *)
Exhausted(c, t) == c > NRows \/ LimitReached(t)

(* The query's result by definition: matched rows in file order, OFFSET   *)
(* dropped, LIMIT kept.                                                    *)
Filtered == SelectSeq([i \in 1..NRows |-> i], LAMBDA i : i \in matches)
Expected ==
    LET hi == IF limit = NoLimit THEN Len(Filtered)
              ELSE IF offset + limit < Len(Filtered) THEN offset + limit
              ELSE Len(Filtered)
    IN  SubSeq(Filtered, offset + 1, hi)

-----------------------------------------------------------------------------
Init ==
    /\ matches \in SUBSET (1..NRows)
    /\ offset \in 0..MaxOffset
    /\ limit \in {NoLimit} \cup 1..MaxLimit
    /\ chunkArg \in 0..MaxChunk
    /\ mode \in {"chunks", "rows"}
    /\ itState = "NotStarted"
    /\ cursor = 1
    /\ skipped = 0
    /\ taken = 0
    /\ buf = <<>>
    /\ gen = "loop"
    /\ chunk = <<>>
    /\ received = <<>>

(* The iterator starts reading when first polled.                         *)
IterStart ==
    /\ itState = "NotStarted"
    /\ itState' = IF Exhausted(cursor, taken) THEN "Finished" ELSE "Reading"
    /\ UNCHANGED <<query, cursor, skipped, taken, buf, gen, chunk, received>>

(* Mutant: OFFSET skips one matched row too many (`<=` for `<`).          *)
ReadRecordSkipPast ==
    /\ itState = "Reading"
    /\ LET hit  == cursor \in matches
           skip == hit /\ skipped <= offset
           keep == hit /\ ~skip
           b    == IF keep THEN Append(buf, cursor) ELSE buf
           t    == IF keep THEN taken + 1 ELSE taken
           exh  == Exhausted(cursor + 1, t)
       IN  /\ cursor' = cursor + 1
           /\ skipped' = IF skip THEN skipped + 1 ELSE skipped
           /\ taken' = t
           /\ buf' = b
           /\ itState' = IF b # <<>> /\ (Len(b) = ChunkSize \/ exh) THEN "Chunked"
                         ELSE IF exh THEN "Finished"
                         ELSE "Reading"
    /\ UNCHANGED <<query, gen, chunk, received>>

(* The iterator decodes one record: a non-matching row is dropped, a       *)
(* matching row is skipped while OFFSET is not used up, otherwise it joins *)
(* the read-ahead buffer. A full buffer, or the end of input, makes the    *)
(* buffered rows ready to hand out.                                        *)
ReadRecord ==
    /\ itState = "Reading"
    /\ LET hit  == cursor \in matches
           skip == hit /\ skipped < offset
           keep == hit /\ ~skip
           b    == IF keep THEN Append(buf, cursor) ELSE buf
           t    == IF keep THEN taken + 1 ELSE taken
           exh  == Exhausted(cursor + 1, t)
       IN  /\ cursor' = cursor + 1
           /\ skipped' = IF skip THEN skipped + 1 ELSE skipped
           /\ taken' = t
           /\ buf' = b
           /\ itState' = IF b # <<>> /\ (Len(b) = ChunkSize \/ exh) THEN "Chunked"
                         ELSE IF exh THEN "Finished"
                         ELSE "Reading"
    /\ UNCHANGED <<query, gen, chunk, received>>

(* __anext__ hands out the first buffered row; an emptied buffer resumes   *)
(* reading, or finishes the iterator when input is exhausted.             *)
PopRow ==
    /\ itState = "Chunked"
    /\ buf' = Tail(buf)
    /\ itState' = IF Tail(buf) # <<>> THEN "Chunked"
                  ELSE IF Exhausted(cursor, taken) THEN "Finished"
                  ELSE "Reading"
    /\ UNCHANGED <<cursor, skipped, taken>>

-----------------------------------------------------------------------------
(* query_chunks, lines 102-105: append the row; a full list is yielded.    *)
(* Mutant: the size test is `>` instead of `>=`.                          *)
CollectRowLate ==
    /\ mode = "chunks"
    /\ gen = "loop"
    /\ PopRow
    /\ LET c == Append(chunk, Head(buf)) IN
       /\ chunk' = c
       /\ IF Len(c) > ChunkSize
            THEN received' = Append(received, c) /\ gen' = "suspended"
            ELSE UNCHANGED <<received, gen>>
    /\ UNCHANGED query

CollectRow ==
    /\ mode = "chunks"
    /\ gen = "loop"
    /\ PopRow
    /\ LET c == Append(chunk, Head(buf)) IN
       /\ chunk' = c
       /\ IF Len(c) >= ChunkSize
            THEN received' = Append(received, c) /\ gen' = "suspended"
            ELSE UNCHANGED <<received, gen>>
    /\ UNCHANGED query

(* query_streaming, lines 80-81: every row is yielded on its own.          *)
StreamRow ==
    /\ mode = "rows"
    /\ gen = "loop"
    /\ PopRow
    /\ received' = Append(received, <<Head(buf)>>)
    /\ gen' = "suspended"
    /\ UNCHANGED <<query, chunk>>

(* The consumer asks for the next block; the generator resumes after its   *)
(* yield. Mutant: the list is not reset (line 106 dropped).               *)
ResumeKeepChunk ==
    /\ gen = "suspended"
    /\ gen' = "loop"
    /\ UNCHANGED <<query, itVars, chunk, received>>

Resume ==
    /\ gen = "suspended"
    /\ gen' = "loop"
    /\ chunk' = <<>>
    /\ UNCHANGED <<query, itVars, received>>

(* The iterator raised StopAsyncIteration: the final partial list is       *)
(* yielded if non-empty (lines 108-110), otherwise the generator returns.  *)
IterDone ==
    /\ gen = "loop"
    /\ itState = "Finished"
    /\ IF chunk # <<>>
         THEN received' = Append(received, chunk) /\ gen' = "final"
         ELSE gen' = "done" /\ UNCHANGED received
    /\ UNCHANGED <<query, itVars, chunk>>

(* The consumer asks again after the final list; the generator returns.   *)
FinalResume ==
    /\ gen = "final"
    /\ gen' = "done"
    /\ UNCHANGED <<query, itVars, chunk, received>>

(* The consumer stops at an await: `break` after a block, or a timeout or  *)
(* cancellation while it waits; the generator is closed where it is.      *)
Cancel ==
    /\ gen \in {"loop", "suspended", "final"}
    /\ gen' = "closed"
    /\ UNCHANGED <<query, itVars, chunk, received>>

Next ==
    \/ IterStart
    \/ ReadRecord
    \/ CollectRow
    \/ StreamRow
    \/ Resume
    \/ IterDone
    \/ FinalResume
    \/ Cancel

(* The iterator and the generator always run when polled, and a consumer  *)
(* that does not stop keeps polling; stopping is never forced.            *)
Fairness ==
    /\ WF_vars(IterStart)
    /\ WF_vars(ReadRecord)
    /\ WF_vars(CollectRow)
    /\ WF_vars(StreamRow)
    /\ WF_vars(Resume)
    /\ WF_vars(IterDone)
    /\ WF_vars(FinalResume)

Spec == Init /\ [][Next]_vars /\ Fairness

-----------------------------------------------------------------------------
TypeOK ==
    /\ matches \subseteq 1..NRows
    /\ offset \in 0..MaxOffset
    /\ limit \in {NoLimit} \cup 1..MaxLimit
    /\ chunkArg \in 0..MaxChunk
    /\ mode \in {"chunks", "rows"}
    /\ itState \in {"NotStarted", "Reading", "Chunked", "Finished"}
    /\ cursor \in 1..(NRows + 1)
    /\ skipped \in 0..offset
    /\ taken \in 0..NRows
    /\ buf \in Seq(1..NRows)
    /\ gen \in {"loop", "suspended", "final", "done", "closed"}
    /\ chunk \in Seq(1..NRows)
    /\ received \in Seq(Seq(1..NRows))

(* Block shape (spec.md 8, chunked vs streaming equivalence): every block  *)
(* the consumer received is non-empty and holds at most the block size,   *)
(* and only the last block received may be short. It fails if the fill     *)
(* test in query_chunks yields too late or too early.                      *)
ChunkShape ==
    \A i \in 1..Len(received) :
        /\ Len(received[i]) \in 1..BlockSize
        /\ i < Len(received) => Len(received[i]) = BlockSize

(* The Python streaming surface implements the row-stream contract: the    *)
(* rows received, concatenated, are always a prefix of the query's result  *)
(* with OFFSET and LIMIT applied; the stream completes only with the whole *)
(* result; and a consumer that does not stop eventually gets it, for every *)
(* chunk size and in both modes.                                           *)
Phase == CASE gen = "done"   -> "complete"
           [] gen = "closed" -> "abandoned"
           [] OTHER          -> "open"

RS == INSTANCE RowStream
        WITH expected <- Expected,
             delivered <- FlattenSeq(received),
             phase <- Phase

StreamImplementsRowStream == RS!Spec
=============================================================================
