------------------------------ MODULE LogFile ------------------------------
(* What stands in the output and in the log, and who reads it: the server    *)
(* that starts again (Monitor::restart), and pld-reorder.pl.                 *)
(*                                                                           *)
(* One record has one byte of input and its good result is one byte of the   *)
(* output, which tells whose result it is.  Numbers have one digit: a number *)
(* is written whole or not at all.                                           *)
EXTENDS Monitor, SequencesExt

\* The output of a command that failed.
FAILED == -1

\* The fields of a line, and their places.  The client's address and the times
\* of the command follow; nothing reads them.
Fields  == 7
BEGIN   == 1
END     == 2
OUT_B   == 5
OUT_E   == 6
RT      == 7

\* Variant of Result that counts the records of a chunk from 1.
ResultFromOne(s, r) ==
    [k \in 1 .. (s[2] - s[1]) |-> IF r = 0 THEN s[1] + k ELSE FAILED]

\* The result of chunk s with return value r.
Result(s, r) ==
    [k \in 1 .. (s[2] - s[1]) |-> IF r = 0 THEN s[1] + k - 1 ELSE FAILED]

-----------------------------------------------------------------------------
(* Reading the log.                                                          *)

\* Variant of ReadLine that takes return value 0 for a failure.
ReadLineInverted(m, line) ==
    tag_segment(m, IF line[RT] = 0 THEN "TODO" ELSE "DONE", line[BEGIN], line[END])

\* The body of the loop of restart.
ReadLine(m, line) ==
    tag_segment(m, IF line[RT] # 0 THEN "TODO" ELSE "DONE", line[BEGIN], line[END])

\* The table that restart makes of log file lg, line by line.
ReadLog(lg) ==
    LET read[k \in 0 .. Len(lg)] ==
            IF k = 0 THEN NewMonitor ELSE ReadLine(read[k - 1], lg[k])
    IN  read[Len(lg)]

-----------------------------------------------------------------------------
(* Reading both files: pld-reorder.pl.                                       *)

Keys(lg) == {lg[k][BEGIN] : k \in DOMAIN lg}

\* The five hashes: the last line that begins with i.
LineOf(lg, i) == lg[Max({k \in DOMAIN lg : lg[k][BEGIN] = i})]

\* last_index: the record before the largest end index.
LastIndex(lg) == Max({0} \cup {lg[k][END] - 1 : k \in DOMAIN lg})

\* The piece of the output that the line of i names: seek and read.
Piece(lg, o, i) ==
    LET b == LineOf(lg, i)[OUT_B]
        e == LineOf(lg, i)[OUT_E]
    IN  IF b < 0 THEN <<>> ELSE SubSeq(o, b + 1, Min({e, Len(o)}))

\* The sorted output, for return value 0.
Reorder(lg, o) ==
    FlattenSeq([n \in 1 .. (LastIndex(lg) + 1) |->
        IF n - 1 \in Keys(lg) /\ LineOf(lg, n - 1)[RT] = 0
        THEN Piece(lg, o, n - 1) ELSE <<>>])

\* end_index of the check when it comes to begin index i.
EndBefore(lg, i) ==
    LET before == {k \in Keys(lg) : k < i}
    IN  IF before = {} THEN 0 ELSE LineOf(lg, Max(before))[END]

\* Variant of Warnings that does not look at the return values.
WarningsNoReturn(lg) ==
    {i \in Keys(lg) : i <= LastIndex(lg) /\ i # EndBefore(lg, i)}

\* The begin indexes the check warns of: "Missing segment" or "Bad return".
Warnings(lg) ==
    {i \in Keys(lg) : /\ i <= LastIndex(lg)
                      /\ i # EndBefore(lg, i) \/ LineOf(lg, i)[RT] # 0}

\* The last line of log lg about record j.
LastLine(lg, j) ==
    LET about == {k \in DOMAIN lg : lg[k][BEGIN] <= j /\ j < lg[k][END]}
    IN  IF about = {} THEN "none"
        ELSE IF lg[Max(about)][RT] = 0 THEN "ok" ELSE "fail"

\* Sequence s has the numbers of S, each once, smallest first.
InOrder(s, S) == ToSet(s) = S /\ \A k, l \in DOMAIN s : k < l => s[k] < s[l]
=============================================================================
