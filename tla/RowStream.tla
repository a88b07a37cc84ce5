----------------------------- MODULE RowStream -----------------------------
(***************************************************************************)
(* What a query's row stream promises its caller (spec.md 4.6, 5, 8):      *)
(* the rows handed out so far are always a prefix of the query's result    *)
(* (filtered rows, OFFSET skipped, LIMIT applied, in file order), rows are *)
(* handed out in blocks of one or more, and unless the caller abandons the *)
(* stream it completes with exactly the whole result.                      *)
(***************************************************************************)
EXTENDS Naturals, Sequences

VARIABLES
    expected,   \* the query's result, fixed when the query is opened
    delivered,  \* the rows handed to the caller so far, in order
    phase       \* "open", "complete" or "abandoned"

vars == <<expected, delivered, phase>>

Init ==
    /\ delivered = <<>>
    /\ phase = "open"

\* The next block of one or more result rows reaches the caller.
Deliver ==
    /\ phase = "open"
    /\ \E n \in (Len(delivered) + 1)..Len(expected) :
          delivered' = SubSeq(expected, 1, n)
    /\ UNCHANGED <<expected, phase>>

\* The stream ends having delivered the whole result.
Complete ==
    /\ phase = "open"
    /\ delivered = expected
    /\ phase' = "complete"
    /\ UNCHANGED <<expected, delivered>>

\* The caller stops early (break out of the loop, timeout, cancellation).
Abandon ==
    /\ phase = "open"
    /\ phase' = "abandoned"
    /\ UNCHANGED <<expected, delivered>>

Next == Deliver \/ Complete \/ Abandon

Spec == Init /\ [][Next]_vars /\ WF_vars(Deliver \/ Complete)
=============================================================================
