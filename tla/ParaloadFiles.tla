--------------------------- MODULE ParaloadFiles ---------------------------
(* The whole system with its two files as they are: Paraload, and the lines  *)
(* and the output that each result leaves, to be sorted by pld-reorder.pl.   *)
(* The cursor and the policy decide which chunks are made, as in the code;   *)
(* RunLog has any chunk instead, and the three writes of a result.  Here a   *)
(* result is written at once and the device has room.                        *)
EXTENDS Paraload, LogFile

VARIABLES
    out,        \* the output file
    lines       \* the log file: a sequence of lines

fileVars == <<out, lines>>

\* PLD_PUT, with what is appended to the files: nothing if the result did not
\* arrive whole.
Put(c) ==
    /\ HandlePut(c)
    /\ IF Alive(c) /\ UNCHANGED faults
       THEN LET r == IF rt[c] = "ok" THEN 0 ELSE 1
                s == seg[c]
            IN  /\ out' = out \o Result(s, r)
                /\ lines' = Append(lines, <<s[1], s[2], s[1], s[2],
                                            Len(out), Len(out'), r>>)
       ELSE UNCHANGED fileVars

FilesInit == Init /\ out = <<>> /\ lines = <<>>

\* No other step writes to the files.
Elsewhere ==
    \/ \E c \in Clients :
         \/ HandleConnect(c) \/ HandleGet(c) \/ HandleProbe(c) \/ HandleStop(c)
         \/ Hangup(c) \/ ClientStep(c) \/ Start(c) \/ Die(c) \/ Refused(c)
    \/ Elapsed \/ ServerExit \/ Restart

FilesNext == (\E c \in Clients : Put(c)) \/ (Elsewhere /\ UNCHANGED fileVars)

FilesSpec == FilesInit /\ [][FilesNext]_<<vars, fileVars>>

-----------------------------------------------------------------------------
\* No record is twice in the sorted output: it has the order of the input
\* ("Reorder output with the same order as the input:", Cline.cpp:401).
SortedOnce ==
    LET sorted == Reorder(lines, out)
    IN  \A k, l \in DOMAIN sorted : sorted[k] = sorted[l] => k = l
=============================================================================
