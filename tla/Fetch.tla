------------------------------- MODULE Fetch -------------------------------
(* The cursor over the input file, class Fetch (Fetch.cpp).  A Fetch is the  *)
(* record of begin_index and end_index: the last chunk made, and the place   *)
(* where the search for the next one starts.                                 *)
(*                                                                           *)
(* A chunk grows record by record until its weight reaches the limit of the  *)
(* policy.  Work is the running total of that weight: Work[i] = i under      *)
(* STATIC, the file offset of record i under LINEAR, the sum of the squares  *)
(* or cubes of the sizes of the records before i under SQUARE or CUBIC,      *)
(* whose limit is compared with a truncated root and is here its power.      *)
EXTENDS Monitor, FiniteSetsExt

CONSTANTS Work, Limit

ASSUME WorkAssumption  == Work \in [Cells -> Nat]
ASSUME LimitAssumption == Limit \in Nat

NPOS == -1        \* stands for (size_type)(-1), the largest index

FetchType == [begin : Cells \cup {NPOS}, end : Cells]

NewFetch == [begin |-> 0, end |-> 0]

\* The unsigned comparison a < b.
ULess(a, b) == a # NPOS /\ (b = NPOS \/ a < b)

-----------------------------------------------------------------------------
\* The search loop: the first record at or after position p still to be done.
FirstTodo(m, p) == Min({i \in p .. N : i = N \/ m.states[i] = "TODO"})

\* The loop of the policy: a chunk that starts at b stops before a record that
\* is not to be done, at the end of the input, or once it weighs the limit.
ChunkEnd(m, b) ==
    Min({e \in b .. N : \/ e = N
                        \/ m.states[e] # "TODO"
                        \/ Work[e] - Work[b] >= Limit})

\* Variant of make_chunk that looks at one record too many.
make_chunk_skips(m, f) ==
    LET b == FirstTodo(m, IF f.end < N THEN f.end + 1 ELSE N)
    IN  [begin |-> b, end |-> ChunkEnd(m, b)]

\* Variant of make_chunk that does not look at the states of the records.
make_chunk_blind(m, f) ==
    LET b == f.end
    IN  [begin |-> b, end |-> Min({e \in b .. N : e = N \/ Work[e] - Work[b] >= Limit})]

make_chunk(m, f) ==
    LET b == FirstTodo(m, f.end)
    IN  [begin |-> b, end |-> ChunkEnd(m, b)]

\* Variant of rewind that compares its arguments as signed integers.
rewind_signed(f, offset) ==
    IF offset < f.begin THEN [begin |-> offset, end |-> offset] ELSE f

\* Move the cursor back to offset; an offset that is not before begin_index
\* (rewind(0) when the last chunk started at 0) changes nothing.
rewind(f, offset) ==
    IF ULess(offset, f.begin) THEN [begin |-> offset, end |-> offset]
    ELSE IF offset = NPOS     THEN [begin |-> NPOS, end |-> 0]
    ELSE f
=============================================================================
