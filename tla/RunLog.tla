------------------------------- MODULE RunLog -------------------------------
(* The two files of a run, the output and the log, as the server writes them *)
(* (paraload.cpp), reads them when it starts again (Monitor::restart) and as *)
(* pld-reorder.pl reads them afterwards.                                     *)
(*                                                                           *)
(* A result goes to the files in three steps: the output, flushed; its line  *)
(* in the log, flushed; the table.  The server may be killed between any two *)
(* of them, or with the output half written, and the device of the output    *)
(* may be full.  A line of the log is short and written whole.               *)
EXTENDS LogFile

CONSTANTS
    MaxChunk,       \* bound on the records of a chunk
    MaxFails,       \* bound on the results with a non-zero return value
    MaxLeaves,      \* bound on the clients that leave
    MaxCrashes,     \* bound on the times the server is killed
    MaxFull         \* bound on the writes of the output that are cut

ASSUME BoundsAssumption ==
    {MaxChunk, MaxFails, MaxLeaves, MaxCrashes, MaxFull} \subseteq Nat

VARIABLES
    mon,        \* the Monitor
    seg,        \* per client: the chunk it computes
    out,        \* the output file
    log,        \* the log file: a sequence of lines, a line of fields
    good,       \* the stream of the output has not failed
    pc,         \* where the server is: "wait", "log", "mark", or "down"
    cur,        \* the result being stored: peer, return value, two offsets
    bad         \* failures and faults so far, by kind

table == <<mon, seg>>
files == <<out, log, good>>
vars  == <<mon, seg, out, log, good, pc, cur, bad>>

Faults == {"fails", "leaves", "crashes", "full"}

Nothing == [c |-> None, rt |-> 0, ob |-> 0, oe |-> 0]

TypeOK ==
    /\ mon \in MonitorType
    /\ seg \in [Clients -> Segment \cup {None}]
    /\ out \in Seq(Jobs \cup {FAILED})
    /\ log \in Seq(Seq(Int))
    /\ good \in BOOLEAN
    /\ pc \in {"wait", "log", "mark", "down"}
    /\ cur \in [c : Clients \cup {None}, rt : {0, 1}, ob : Int, oe : Int]
    /\ bad \in [Faults -> Nat]

-----------------------------------------------------------------------------
Count(kind) == bad' = [bad EXCEPT ![kind] = @ + 1]

Init ==
    /\ mon = NewMonitor
    /\ seg = [c \in Clients |-> None]
    /\ out = <<>> /\ log = <<>> /\ good = TRUE
    /\ pc = "wait" /\ cur = Nothing
    /\ bad = [k \in Faults |-> 0]

\* PLD_GET: a client gets a chunk of records that are to be done.  Any chunk:
\* the cursor and the policy decide which in the code (ParaloadFiles), and what
\* is never wrong here is never wrong there.
Give(c) ==
    /\ pc = "wait" /\ seg[c] = None
    /\ \E b, e \in Cells :
         /\ b < e /\ e - b <= MaxChunk
         /\ \A i \in b .. (e - 1) : mon.states[i] = "TODO"
         /\ mon' = add_addr_idx(mon, c, b, e)
         /\ seg' = [seg EXCEPT ![c] = <<b, e>>]
    /\ UNCHANGED <<files, pc, cur, bad>>

\* PLD_DEC: a client leaves, computing or not.
Leave(c) ==
    /\ pc = "wait" /\ mon.addr[c] # None
    /\ bad["leaves"] < MaxLeaves /\ Count("leaves")
    /\ mon' = exists_addr_idx(mon, c)
    /\ seg' = [seg EXCEPT ![c] = None]
    /\ UNCHANGED <<files, pc, cur>>

\* out.tellp(): the end of the file, or -1 once the stream has failed.
Tellp(o) == IF good THEN Len(o) ELSE -1

\* Variant of PutOut that takes the first offset after the write.
PutOutLate(c) ==
    /\ pc = "wait" /\ seg[c] # None
    /\ \E r \in {0, 1} :
         /\ IF r = 1 THEN bad["fails"] < MaxFails /\ Count("fails")
            ELSE UNCHANGED bad
         /\ out' = IF good THEN out \o Result(seg[c], r) ELSE out
         /\ cur' = [c |-> c, rt |-> r, ob |-> Tellp(out'), oe |-> Tellp(out')]
    /\ pc' = "log"
    /\ UNCHANGED <<table, log, good>>

\* PLD_PUT: the result is appended to the output between two offsets.
PutOut(c) ==
    /\ pc = "wait" /\ seg[c] # None
    /\ \E r \in {0, 1} :
         /\ IF r = 1 THEN bad["fails"] < MaxFails /\ Count("fails")
            ELSE UNCHANGED bad
         /\ out' = IF good THEN out \o Result(seg[c], r) ELSE out
         /\ cur' = [c |-> c, rt |-> r, ob |-> Tellp(out), oe |-> Tellp(out')]
    /\ pc' = "log"
    /\ UNCHANGED <<table, log, good>>

\* The device is full: a part of the result is written and the stream fails.
\* Nobody looks at its state: the server goes on.
OutFull(c) ==
    /\ pc = "wait" /\ seg[c] # None /\ good
    /\ bad["full"] < MaxFull /\ Count("full")
    /\ \E n \in 0 .. (seg[c][2] - seg[c][1] - 1) :
         out' = out \o SubSeq(Result(seg[c], 0), 1, n)
    /\ good' = FALSE
    /\ cur' = [c |-> c, rt |-> 0, ob |-> Len(out), oe |-> -1]
    /\ pc' = "log"
    /\ UNCHANGED <<table, log>>

\* Variant of Line whose last output offset is that of the last byte.
LineInclusive == LET s == seg[cur.c]
                 IN  <<s[1], s[2], s[1], s[2], cur.ob, cur.oe - 1, cur.rt>>

\* The line of the result in cur: the records, the input offsets, the output
\* offsets, the return value.
Line == LET s == seg[cur.c]
        IN  <<s[1], s[2], s[1], s[2], cur.ob, cur.oe, cur.rt>>

\* The line is appended to the log.
PutLog ==
    /\ pc = "log"
    /\ log' = Append(log, Line)
    /\ pc' = "mark"
    /\ UNCHANGED <<table, out, good, cur, bad>>

\* The table: the segment of the server's entry is done, or the one that the
\* client named has failed; then the entry stays.
Mark ==
    /\ pc = "mark"
    /\ mon' = IF cur.rt = 0 THEN rem_addr_idx(mon, cur.c)
              ELSE tag_segment(mon, "FAIL", seg[cur.c][1], seg[cur.c][2])
    /\ seg' = [seg EXCEPT ![cur.c] = None]
    /\ pc' = "wait" /\ cur' = Nothing
    /\ UNCHANGED <<files, bad>>

\* A new round.  Whether one starts now, and moves the cursor, is up to the
\* cursor and nb_round in the code: here one always may.
NewRound ==
    /\ pc = "wait" /\ mon.count["FAIL"] # 0
    /\ mon' = chgstate(mon, "FAIL", "TODO")
    /\ UNCHANGED <<seg, files, pc, cur, bad>>

\* The server is killed, in wait() or between two steps, with a part of the
\* result in the output if it was writing it.  The table is lost: mon keeps
\* what it was, for the properties only.
Crash ==
    /\ pc # "down"
    /\ bad["crashes"] < MaxCrashes /\ Count("crashes")
    /\ \/ UNCHANGED out
       \/ /\ pc = "wait" /\ good
          /\ \E c \in {d \in Clients : seg[d] # None} :
             \E n \in 1 .. (seg[c][2] - seg[c][1]) :
                 out' = out \o SubSeq(Result(seg[c], 0), 1, n)
    /\ pc' = "down"
    /\ seg' = [c \in Clients |-> None]
    /\ cur' = Nothing
    /\ UNCHANGED <<mon, log, good>>

\* The server is started again on the same files; there is room on the device.
Restart ==
    /\ pc = "down"
    /\ mon' = ReadLog(log)
    /\ good' = TRUE
    /\ pc' = "wait"
    /\ UNCHANGED <<seg, out, log, cur, bad>>

Next == \/ \E c \in Clients : Give(c) \/ Leave(c) \/ PutOut(c) \/ OutFull(c)
        \/ PutLog \/ Mark \/ NewRound \/ Crash \/ Restart

Spec == Init /\ [][Next]_vars

-----------------------------------------------------------------------------
(* Properties.                                                               *)

Sorted == Reorder(log, out)

\* No record has been given again after a command had failed on it, in a chunk
\* that begins elsewhere because a client left: then pld-reorder.pl may read
\* an old line of it (SortedOnce of ParaloadFiles).  And the device was never full.
Apart == (bad["fails"] = 0 \/ bad["leaves"] = 0) /\ bad["full"] = 0

\* Whenever the server waits, after any crash too, the sorted output is the
\* good result of each record it counts as done, once, in the order of the
\* input (the offsets of paraload.cpp 229-235 read by pld-reorder.pl).
DoneIsSorted == Apart /\ pc = "wait" => InOrder(Sorted, In(mon, "DONE"))

\* The records of a failed result that is in the log and not yet in the table.
Failing == IF pc = "mark" /\ cur.rt # 0 THEN Records(seg[cur.c]) ELSE {}

\* Were the server killed now, the one started on its files would count every
\* result this one has counted (Monitor::restart), be its bytes in the output
\* or not.  A record done may be given again when a client leaves with the
\* entry of an old failure; the line of a second failure takes it back.
RestartKeepsDone ==
    pc # "down" => In(mon, "DONE") \ Failing \subseteq In(ReadLog(log), "DONE")

\* Reading the log line by line makes the table that Monitor!restart makes of
\* the last return value of each record, which is all Paraload keeps of it.
RestartAgrees ==
    [][pc = "down" /\ pc' = "wait" => mon' = restart([j \in Jobs |-> LastLine(log, j)])]_vars

\* When the check of pld-reorder.pl warns of nothing, the sorted output is the
\* good result of each record up to some record, unless the device was full:
\* the check does not look at the output offsets.
QuietCheckIsRight ==
    bad["full"] = 0 /\ Warnings(log) = {} =>
        \E n \in 0 .. N : InOrder(Sorted, 0 .. (n - 1))

\* The chunks that clients compute.
Out == {Records(seg[c]) : c \in {d \in Clients : seg[d] # None}}

\* The two files, read by pld-reorder.pl, are an abstract store of results: it
\* changes with a line of the log only, and then by the whole chunk of one
\* client, no record of which was stored or computed by another.
Store == INSTANCE ResultStore WITH
             Job     <- Jobs,
             results <- Sorted,
             lines   <- Len(log),
             given   <- Out
StoreSpec == Store!Init /\ [][Apart' => [Store!Next]_<<Sorted, Len(log), Out>>]_vars
=============================================================================
