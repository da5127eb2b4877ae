---------------------------- MODULE RunLogProofs ----------------------------
(* What a restart makes of the log, and pld-reorder.pl of both files, for    *)
(* every number of records and clients and any number of failures,           *)
(* departures, crashes and full devices.                                     *)
EXTENDS RunLog, MonitorProofs, SequenceTheorems

\* A line of the log: numbers, the first two of which are cells of the table.
LineType == {l \in Seq(Int) : /\ Len(l) = Fields
                              /\ l[BEGIN] \in Cells /\ l[END] \in Cells}

-----------------------------------------------------------------------------
(* The last line of a record.                                                *)

\* A set of places in a sequence that is not empty has a last one, and Max is
\* that one.
LEMMA MaxIsGreatest ==
  ASSUME NEW n \in Nat, NEW S \in SUBSET (1 .. n), S # {}
  PROVE  Max(S) \in S /\ \A k \in S : k <= Max(S)
<1> DEFINE T == {n - k : k \in S}
<1>0. \A k \in S : k \in 1 .. n /\ n - k \in Nat
  OBVIOUS
<1>1. T \subseteq Nat /\ T # {}
  BY <1>0
<1>2. Min(T) \in T /\ \A y \in T : Min(T) <= y
  BY <1>1, MinIsLeast
<1>3. PICK x \in S : Min(T) = n - x
  BY <1>2
<1>4. \A k \in S : n - x <= n - k
  BY <1>2, <1>3
<1>5. \A k \in S : x >= k
  BY <1>0, <1>3, <1>4
<1> QED
  BY <1>0, <1>5 DEF Max

\* A new line is the last one of its records, and of no other.
LEMMA LastLineAppend ==
  ASSUME NEW lg \in Seq(LineType), NEW l \in LineType, NEW j \in Jobs
  PROVE  LastLine(Append(lg, l), j) =
            IF l[BEGIN] <= j /\ j < l[END] THEN IF l[RT] = 0 THEN "ok" ELSE "fail"
            ELSE LastLine(lg, j)
<1> DEFINE lg2 == Append(lg, l)
           n   == Len(lg)
           A   == {k \in DOMAIN lg : lg[k][BEGIN] <= j /\ j < lg[k][END]}
           A2  == {k \in DOMAIN lg2 : lg2[k][BEGIN] <= j /\ j < lg2[k][END]}
<1>1. /\ n \in Nat /\ DOMAIN lg = 1 .. n /\ DOMAIN lg2 = 1 .. (n + 1)
      /\ \A k \in 1 .. n : lg2[k] = lg[k]
      /\ lg2[n + 1] = l
  OBVIOUS
<1>2. /\ LastLine(lg, j) = IF A = {} THEN "none"
                           ELSE IF lg[Max(A)][RT] = 0 THEN "ok" ELSE "fail"
      /\ LastLine(lg2, j) = IF A2 = {} THEN "none"
                            ELSE IF lg2[Max(A2)][RT] = 0 THEN "ok" ELSE "fail"
  BY DEF LastLine
<1>3. CASE l[BEGIN] <= j /\ j < l[END]
  <2>1. n + 1 \in A2 /\ A2 \in SUBSET (1 .. (n + 1))
    BY <1>1, <1>3
  <2>2. Max(A2) = n + 1
    <3> HIDE DEF A2
    <3>1. Max(A2) \in 1 .. (n + 1) /\ n + 1 <= Max(A2)
      BY <1>1, <2>1, n + 1 \in Nat, MaxIsGreatest
    <3> QED
      BY <1>1, <3>1
  <2> QED
    BY <1>1, <1>2, <1>3, <2>1, <2>2
<1>4. CASE ~(l[BEGIN] <= j /\ j < l[END])
  <2>1. A2 = A /\ A \in SUBSET (1 .. n)
    BY <1>1, <1>4
  <2>2. A # {} => lg2[Max(A)] = lg[Max(A)]
    <3> HIDE DEF A
    <3> QED
      BY <1>1, <2>1, MaxIsGreatest
  <2> QED
    BY <1>2, <1>4, <2>1, <2>2
<1> QED
  BY <1>3, <1>4

\* A record that no line is about.
LEMMA LastLineEmpty ==
  ASSUME NEW j
  PROVE  LastLine(<<>>, j) = "none"
BY DEF LastLine

-----------------------------------------------------------------------------
(* The table that restart makes, line by line.  ReadLog is a function that   *)
(* is defined by recursion over the lines; that there is such a function,    *)
(* and what any such function comes to, is kept as a fact about the log: it  *)
(* is true of the empty log and stays true when a line is appended.          *)

\* g is the table after each number of lines.
Reading(g, lg) ==
    g = [k \in 0 .. Len(lg) |-> IF k = 0 THEN NewMonitor ELSE ReadLine(g[k - 1], lg[k])]

\* m is the table of the last lines: what is logged as good is done.
TableOf(m, lg) ==
    /\ MonitorOK(m)
    /\ m.addr = [c \in Clients |-> None]
    /\ \A j \in Jobs : m.states[j] = IF LastLine(lg, j) = "ok" THEN "DONE" ELSE "TODO"

Readable(lg) ==
    /\ \E g : Reading(g, lg)
    /\ \A g : Reading(g, lg) => TableOf(g[Len(lg)], lg)

\* A log that can be read is read as the table of its last lines.
LEMMA ReadLogIs ==
  ASSUME NEW lg, Readable(lg)
  PROVE  TableOf(ReadLog(lg), lg)
<1> DEFINE g == CHOOSE h : Reading(h, lg)
<1>1. Reading(g, lg)
  BY DEF Readable
<1>2. ReadLog(lg) = g[Len(lg)]
  BY DEF ReadLog, Reading
<1> QED
  BY <1>1, <1>2 DEF Readable

\* The empty log is read as the empty table.
LEMMA ReadEmpty == Readable(<<>>)
<1>1. \A g : Reading(g, <<>>) <=> g = [k \in 0 .. 0 |-> NewMonitor]
  BY DEF Reading
<1>2. TableOf(NewMonitor, <<>>)
  <2>1. \A j \in Jobs : NewMonitor.states[j] = "TODO" /\ LastLine(<<>>, j) = "none"
    BY NAssumption, LastLineEmpty DEF NewMonitor, Jobs, Cells
  <2>2. NewMonitor.addr = [c \in Clients |-> None]
    BY DEF NewMonitor
  <2> QED
    BY NewMonitorOK, <2>1, <2>2 DEF TableOf
<1>3. Len(<<>>) = 0
  OBVIOUS
<1>4. \E g : Reading(g, <<>>)
  BY <1>1
<1>5. \A g : Reading(g, <<>>) => g[0] = NewMonitor
  BY <1>1
<1> QED
  BY <1>2, <1>3, <1>4, <1>5 DEF Readable

\* One line more tags its own segment.
LEMMA ReadAppend ==
  ASSUME NEW lg \in Seq(LineType), NEW l \in LineType, Readable(lg)
  PROVE  Readable(Append(lg, l))
<1> DEFINE n   == Len(lg)
           lg2 == Append(lg, l)
<1>1. /\ n \in Nat /\ Len(lg2) = n + 1 /\ lg2[n + 1] = l
      /\ \A k \in 1 .. n : lg2[k] = lg[k]
  OBVIOUS
<1>2. \E h : Reading(h, lg2)
  <2>1. PICK g : Reading(g, lg)
    BY DEF Readable
  <2> DEFINE h == [k \in 0 .. (n + 1) |-> IF k <= n THEN g[k] ELSE ReadLine(g[n], l)]
  <2>2. \A k \in 0 .. n : g[k] = IF k = 0 THEN NewMonitor ELSE ReadLine(g[k - 1], lg[k])
    BY <2>1 DEF Reading
  <2>3. \A k \in 0 .. (n + 1) :
            h[k] = IF k = 0 THEN NewMonitor ELSE ReadLine(h[k - 1], lg2[k])
    <3> SUFFICES ASSUME NEW k \in 0 .. (n + 1)
                 PROVE  h[k] = IF k = 0 THEN NewMonitor ELSE ReadLine(h[k - 1], lg2[k])
      OBVIOUS
    <3>1. CASE k = n + 1
      BY <1>1, <3>1
    <3>2. CASE k # n + 1
      <4>1. k \in 0 .. n /\ h[k] = g[k]
        BY <1>1, <3>2
      <4>2. CASE k = 0
        BY <2>2, <4>1, <4>2
      <4>3. CASE k # 0
        <5>1. k \in 1 .. n /\ h[k - 1] = g[k - 1] /\ lg2[k] = lg[k]
          BY <1>1, <4>1, <4>3
        <5> QED
          BY <2>2, <4>1, <4>3, <5>1
      <4> QED
        BY <4>2, <4>3
    <3> QED
      BY <3>1, <3>2
  <2>4. DOMAIN h = 0 .. (n + 1) /\ h = [k \in DOMAIN h |-> h[k]]
    OBVIOUS
  <2> HIDE DEF h
  <2>5. h = [k \in 0 .. (n + 1) |-> IF k = 0 THEN NewMonitor ELSE ReadLine(h[k - 1], lg2[k])]
    BY <2>3, <2>4
  <2> QED
    BY <1>1, <2>5 DEF Reading
<1>3. ASSUME NEW h, Reading(h, lg2)
      PROVE  TableOf(h[n + 1], lg2)
  <2> DEFINE g == [k \in 0 .. n |-> h[k]]
  <2>1. \A k \in 0 .. (n + 1) :
            h[k] = IF k = 0 THEN NewMonitor ELSE ReadLine(h[k - 1], lg2[k])
    BY <1>1, <1>3 DEF Reading
  <2>2. \A k \in 0 .. n : g[k] = IF k = 0 THEN NewMonitor ELSE ReadLine(g[k - 1], lg[k])
    <3> SUFFICES ASSUME NEW k \in 0 .. n
                 PROVE  g[k] = IF k = 0 THEN NewMonitor ELSE ReadLine(g[k - 1], lg[k])
      OBVIOUS
    <3>1. CASE k = 0
      BY <1>1, <2>1, <3>1
    <3>2. CASE k # 0
      <4>1. k \in 0 .. (n + 1) /\ k \in 1 .. n /\ g[k - 1] = h[k - 1] /\ lg2[k] = lg[k]
        BY <1>1, <3>2
      <4> QED
        BY <2>1, <3>2, <4>1
    <3> QED
      BY <3>1, <3>2
  <2>3. g = [k \in 0 .. n |-> IF k = 0 THEN NewMonitor ELSE ReadLine(g[k - 1], lg[k])]
    BY <2>2
  <2>4. TableOf(h[n], lg)
    <3>1. g[n] = h[n]
      BY <1>1
    <3> HIDE DEF g
    <3> QED
      BY <2>3, <3>1 DEF Readable, Reading
  <2>5. h[n + 1] = tag_segment(h[n], IF l[RT] # 0 THEN "TODO" ELSE "DONE", l[BEGIN], l[END])
    BY <1>1, <2>1 DEF ReadLine
  <2> DEFINE s   == IF l[RT] # 0 THEN "TODO" ELSE "DONE"
             sg  == <<l[BEGIN], l[END]>>
  <2>6. sg \in Segment /\ s \in State
    BY DEF Segment, LineType, State
  <2>7. MonitorOK(h[n])
    BY <2>4 DEF TableOf
  <2>8. /\ MonitorOK(h[n + 1])
        /\ h[n + 1].addr = h[n].addr
        /\ \A j \in Jobs : h[n + 1].states[j] = IF j \in Records(sg) THEN s ELSE h[n].states[j]
    <3>1. h[n + 1] = tag_segment(h[n], s, sg[1], sg[2])
      BY <2>5
    <3> HIDE DEF s, sg
    <3> QED
      BY <2>6, <2>7, <3>1, TagSegmentKeeps
  <2>9. \A j \in Jobs : j \in Records(sg) <=> l[BEGIN] <= j /\ j < l[END]
    BY NAssumption DEF Records, LineType, Jobs, Cells
  <2>10. ASSUME NEW j \in Jobs
         PROVE  h[n + 1].states[j] = IF LastLine(lg2, j) = "ok" THEN "DONE" ELSE "TODO"
    <3>1. LastLine(lg2, j) = IF l[BEGIN] <= j /\ j < l[END]
                             THEN IF l[RT] = 0 THEN "ok" ELSE "fail" ELSE LastLine(lg, j)
      BY LastLineAppend
    <3>2. h[n].states[j] = IF LastLine(lg, j) = "ok" THEN "DONE" ELSE "TODO"
      BY <2>4 DEF TableOf
    <3> QED
      BY <2>8, <2>9, <3>1, <3>2
  <2> QED
    BY <2>4, <2>8, <2>10 DEF TableOf
<1> QED
  BY <1>1, <1>2, <1>3 DEF Readable

\* Two tables with the same states and entries are the same table, as their
\* counters count.
LEMMA SameTable ==
  ASSUME NEW m1, NEW m2, MonitorOK(m1), MonitorOK(m2), m1.addr = m2.addr,
         \A j \in Jobs : m1.states[j] = m2.states[j]
  PROVE  m1 = m2
<1>1. \A t \in State : In(m1, t) = In(m2, t)
  BY DEF In
<1>2. \A t \in State : m1.count[t] = m2.count[t]
  BY <1>1 DEF MonitorOK, Counted
<1>3. \A i \in Cells : m1.states[i] = m2.states[i]
  BY NAssumption DEF MonitorOK, Cells, Jobs
<1> QED
  BY <1>2, <1>3 DEF MonitorOK, MonitorType
-----------------------------------------------------------------------------
(* The inductive invariant.  A client that computes a chunk has the entry of *)
(* that chunk, which is the one the table marks when its result is in; and   *)
(* a line that is in the log before the table was marked says what the table *)
(* will say.                                                                 *)

\* The client of a result that is being stored computes the chunk of its entry;
\* a server that is down has no clients.
EntryInv ==
    /\ \A c \in Clients : seg[c] # None => mon.addr[c] = seg[c]
    /\ pc \in {"log", "mark"} => cur.c \in Clients /\ seg[cur.c] # None
    /\ pc = "down" => \A c \in Clients : seg[c] = None

\* The log can be read.
LogInv == log \in Seq(LineType) /\ Readable(log)

\* Between the log and the table: the line of the result is the last one.
LineIsLast ==
    pc = "mark" => \A j \in Records(seg[cur.c]) \cap Jobs :
                      LastLine(log, j) = IF cur.rt = 0 THEN "ok" ELSE "fail"

\* What the table counts as done, the last line does.
DoneInLog ==
    pc # "down" => \A j \in In(mon, "DONE") \ Failing : LastLine(log, j) = "ok"

IInv == TypeOK /\ MonitorOK(mon) /\ EntryInv /\ LogInv /\ LineIsLast /\ DoneInLog

\* A result is a sequence of records or of failures.
LEMMA ResultType ==
  ASSUME NEW s \in Segment, NEW r \in {0, 1}
  PROVE  /\ Result(s, r) \in Seq(Jobs \cup {FAILED})
         /\ \A k \in Nat : SubSeq(Result(s, r), 1, k) \in Seq(Jobs \cup {FAILED})
                           \/ k > Len(Result(s, r))
<1> DEFINE n == IF s[1] <= s[2] THEN s[2] - s[1] ELSE 0
<1>1. s[1] \in 0 .. N /\ s[2] \in 0 .. N
  BY NAssumption DEF Segment, Cells
<1>2. n \in Nat /\ 1 .. (s[2] - s[1]) = 1 .. n
  BY NAssumption, <1>1
<1>3. \A k \in 1 .. n : s[1] + k - 1 \in Jobs
  BY NAssumption, <1>1 DEF Jobs
<1>4. Result(s, r) \in [1 .. n -> Jobs \cup {FAILED}]
  BY <1>2, <1>3 DEF Result
<1>5. Result(s, r) \in Seq(Jobs \cup {FAILED})
  BY <1>2, <1>4
<1> HIDE DEF n
<1> QED
  BY <1>5

\* Nothing of the log changes: what was true of it stays so.
LEMMA SameLog ==
  ASSUME LogInv, log' = log
  PROVE  LogInv' /\ \A j \in Jobs : LastLine(log', j) = LastLine(log, j)
BY DEF LogInv

\* A step that leaves the log alone, at the end of which the table has no
\* record done that it had not before, and no line is ahead of it.
LEMMA NoMoreDone ==
  ASSUME IInv, log' = log, pc # "down", pc' # "mark", Failing = {},
         \A j \in Jobs : mon'.states[j] = "DONE" => mon.states[j] = "DONE"
  PROVE  LogInv' /\ LineIsLast' /\ DoneInLog'
<1>1. LogInv' /\ LineIsLast'
  BY SameLog DEF IInv, LineIsLast
<1>2. DoneInLog'
  BY SameLog DEF IInv, DoneInLog, In
<1> QED
  BY <1>1, <1>2

\* A client gets a chunk.
LEMMA GiveIInv ==
  ASSUME IInv, NEW c \in Clients, Give(c)
  PROVE  IInv'
<1>1. PICK b \in Cells, e \in Cells :
        /\ mon' = add_addr_idx(mon, c, b, e)
        /\ seg' = [seg EXCEPT ![c] = <<b, e>>]
  BY DEF Give
<1>2. /\ MonitorOK(mon')
      /\ mon'.addr = [mon.addr EXCEPT ![c] = <<b, e>>]
      /\ \A j \in Jobs : mon'.states[j] =
            IF j \in Records(<<b, e>>) THEN "INPROGRESS" ELSE mon.states[j]
  BY <1>1, AddAddrIdxKeeps DEF IInv
<1>3. pc = "wait" /\ UNCHANGED <<out, log, good, pc, cur, bad>>
  BY DEF Give, files
<1>4. TypeOK'
  BY <1>1, <1>2, <1>3 DEF IInv, TypeOK, MonitorOK, Segment
<1>5. EntryInv'
  BY <1>1, <1>2, <1>3 DEF IInv, EntryInv, TypeOK, MonitorType
<1>6. LogInv' /\ LineIsLast' /\ DoneInLog'
  BY <1>2, <1>3, NoMoreDone DEF Failing
<1> QED
  BY <1>2, <1>4, <1>5, <1>6 DEF IInv

\* A client leaves.
LEMMA LeaveIInv ==
  ASSUME IInv, NEW c \in Clients, Leave(c)
  PROVE  IInv'
<1>1. /\ mon' = exists_addr_idx(mon, c)
      /\ seg' = [seg EXCEPT ![c] = None]
      /\ pc = "wait" /\ UNCHANGED <<out, log, good, pc, cur>>
      /\ bad' = [bad EXCEPT !["leaves"] = @ + 1]
  BY DEF Leave, files, Count
<1>2. /\ MonitorOK(mon')
      /\ mon'.addr = [mon.addr EXCEPT ![c] = None]
      /\ \A j \in Jobs : mon'.states[j] =
            IF mon.addr[c] # None /\ j \in Records(mon.addr[c])
            THEN "TODO" ELSE mon.states[j]
  BY <1>1, ExistsAddrIdxKeeps DEF IInv
<1>3. TypeOK'
  BY <1>1, <1>2 DEF IInv, TypeOK, MonitorOK, Faults
<1>4. EntryInv'
  BY <1>1, <1>2 DEF IInv, EntryInv, TypeOK, MonitorType
<1>5. LogInv' /\ LineIsLast' /\ DoneInLog'
  BY <1>1, <1>2, NoMoreDone DEF Failing
<1> QED
  BY <1>2, <1>3, <1>4, <1>5 DEF IInv

\* A result goes to the output, whole or cut.
LEMMA OutputIInv ==
  ASSUME IInv, NEW c \in Clients, PutOut(c) \/ OutFull(c)
  PROVE  IInv'
<1>1. /\ pc = "wait" /\ pc' = "log" /\ seg[c] # None /\ cur'.c = c
      /\ mon' = mon /\ seg' = seg /\ log' = log
  BY DEF PutOut, OutFull, table
<1>2. seg[c] \in Segment
  BY <1>1 DEF IInv, TypeOK
<1>3. TypeOK'
  <2>1. CASE PutOut(c)
    <3>1. PICK r \in {0, 1} :
            /\ IF r = 1 THEN bad["fails"] < MaxFails /\ Count("fails")
               ELSE UNCHANGED bad
            /\ out' = IF good THEN out \o Result(seg[c], r) ELSE out
            /\ cur' = [c |-> c, rt |-> r, ob |-> Tellp(out), oe |-> Tellp(out')]
      BY <2>1 DEF PutOut
    <3>2. out' \in Seq(Jobs \cup {FAILED})
      BY <1>2, <3>1, ResultType DEF IInv, TypeOK
    <3>3. Tellp(out) \in Int /\ Tellp(out') \in Int
      BY <3>2 DEF Tellp, IInv, TypeOK
    <3>4. bad' \in [Faults -> Nat]
      BY <3>1 DEF Count, IInv, TypeOK, Faults
    <3>5. good' = good
      BY <2>1 DEF PutOut
    <3>6. cur' \in [c : Clients \cup {None}, rt : {0, 1}, ob : Int, oe : Int]
      BY <3>1, <3>3
    <3> QED
      BY <1>1, <3>2, <3>4, <3>5, <3>6 DEF IInv, TypeOK
  <2>2. CASE OutFull(c)
    <3>1. PICK n \in 0 .. (seg[c][2] - seg[c][1] - 1) :
            out' = out \o SubSeq(Result(seg[c], 0), 1, n)
      BY <2>2 DEF OutFull
    <3>2. seg[c][1] \in Int /\ seg[c][2] \in Int
      BY <1>2, NAssumption DEF Segment, Cells
    <3>3. n \in Nat /\ n <= Len(Result(seg[c], 0))
      BY <3>1, <3>2 DEF Result
    <3>4. out' \in Seq(Jobs \cup {FAILED})
      BY <1>2, <3>1, <3>3, ResultType DEF IInv, TypeOK
    <3>5. cur' = [c |-> c, rt |-> 0, ob |-> Len(out), oe |-> -1] /\ good' = FALSE
      BY <2>2 DEF OutFull
    <3>6. bad' \in [Faults -> Nat]
      BY <2>2 DEF OutFull, Count, IInv, TypeOK, Faults
    <3>7. cur' \in [c : Clients \cup {None}, rt : {0, 1}, ob : Int, oe : Int]
      <4>1. Len(out) \in Int
        BY DEF IInv, TypeOK
      <4> QED
        BY <3>5, <4>1
    <3> QED
      BY <1>1, <3>4, <3>5, <3>6, <3>7 DEF IInv, TypeOK
  <2> QED
    BY <2>1, <2>2
<1>4. EntryInv'
  BY <1>1 DEF IInv, EntryInv
<1>5. LogInv' /\ LineIsLast' /\ DoneInLog'
  BY <1>1, NoMoreDone DEF Failing
<1> QED
  BY <1>1, <1>3, <1>4, <1>5 DEF IInv

\* The line of the result goes to the log, which then is ahead of the table.
LEMMA PutLogIInv ==
  ASSUME IInv, PutLog
  PROVE  IInv'
<1> DEFINE s == seg[cur.c]
<1>1. /\ pc = "log" /\ pc' = "mark" /\ log' = Append(log, Line)
      /\ UNCHANGED <<mon, seg, out, good, cur, bad>>
  BY DEF PutLog, table
<1>2. /\ cur.c \in Clients /\ s \in Segment /\ mon.addr[cur.c] = s
      /\ log \in Seq(LineType) /\ Readable(log)
  BY <1>1 DEF IInv, EntryInv, LogInv, TypeOK
<1>3. s[1] \in Cells /\ s[2] \in Cells /\ s[1] \in Int /\ s[2] \in Int
  BY <1>2, NAssumption DEF Segment, Cells
<1>4. cur.ob \in Int /\ cur.oe \in Int /\ cur.rt \in {0, 1}
  BY DEF IInv, TypeOK
<1>5. Line = <<s[1], s[2], s[1], s[2], cur.ob, cur.oe, cur.rt>>
  BY DEF Line
<1> HIDE DEF s
<1>6. /\ Line \in LineType
      /\ Line[BEGIN] = s[1] /\ Line[END] = s[2] /\ Line[RT] = cur.rt
  BY <1>3, <1>4, <1>5 DEF LineType, Fields, BEGIN, END, RT
<1>7. \A j \in Jobs : LastLine(log', j) =
         IF j \in Records(s) THEN IF cur.rt = 0 THEN "ok" ELSE "fail"
         ELSE LastLine(log, j)
  <2>1. \A j \in Jobs : j \in Records(s) <=> s[1] <= j /\ j < s[2]
    BY <1>3, NAssumption DEF Records, Jobs
  <2> QED
    BY <1>1, <1>2, <1>6, <2>1, LastLineAppend
<1>8. LogInv'
  BY <1>1, <1>2, <1>6, ReadAppend DEF LogInv
<1>9. TypeOK'
  <2>1. Line \in Seq(Int)
    BY <1>6 DEF LineType
  <2> QED
    BY <1>1, <2>1 DEF IInv, TypeOK
<1>10. EntryInv'
  BY <1>1 DEF IInv, EntryInv
<1>11. seg' = seg /\ cur' = cur /\ mon' = mon /\ seg[cur.c] = s
  BY <1>1 DEF s
<1>12. LineIsLast'
  BY <1>7, <1>11 DEF LineIsLast
<1>13. DoneInLog'
  <2>1. \A j \in In(mon, "DONE") : j \in Jobs /\ LastLine(log, j) = "ok"
    BY <1>1 DEF IInv, DoneInLog, Failing, In
  <2>2. Failing' = IF cur.rt # 0 THEN Records(s) ELSE {}
    BY <1>1, <1>11 DEF Failing
  <2> QED
    BY <1>7, <1>11, <2>1, <2>2 DEF DoneInLog
<1> QED
  BY <1>1, <1>8, <1>9, <1>10, <1>12, <1>13 DEF IInv

\* What the mark does to the table.
LEMMA MarkTags ==
  ASSUME IInv, Mark
  PROVE  /\ MonitorOK(mon')
         /\ \A c \in Clients : c # cur.c => mon'.addr[c] = mon.addr[c]
         /\ cur.rt = 0 => mon'.addr[cur.c] = None
         /\ \A j \in Jobs : mon'.states[j] =
               IF j \in Records(seg[cur.c]) THEN IF cur.rt = 0 THEN "DONE" ELSE "FAIL"
               ELSE mon.states[j]
<1> DEFINE s == seg[cur.c]
<1>1. mon' = IF cur.rt = 0 THEN rem_addr_idx(mon, cur.c)
             ELSE tag_segment(mon, "FAIL", s[1], s[2])
  BY DEF Mark
<1>2. /\ cur.c \in Clients /\ s \in Segment /\ s # None /\ mon.addr[cur.c] = s
      /\ MonitorOK(mon) /\ "FAIL" \in State
  BY DEF Mark, IInv, EntryInv, TypeOK, State
<1> HIDE DEF s
<1>3. CASE cur.rt = 0
  <2>1. /\ MonitorOK(rem_addr_idx(mon, cur.c))
        /\ rem_addr_idx(mon, cur.c).addr = [mon.addr EXCEPT ![cur.c] = None]
        /\ \A j \in Jobs : rem_addr_idx(mon, cur.c).states[j] =
              IF j \in Records(s) THEN "DONE" ELSE mon.states[j]
    BY <1>2, RemAddrIdxKeeps
  <2>2. mon.addr \in [Clients -> Segment \cup {None}]
    BY <1>2 DEF MonitorOK, MonitorType
  <2> QED
    BY <1>1, <1>2, <1>3, <2>1, <2>2 DEF s
<1>4. CASE cur.rt # 0
  BY <1>1, <1>2, <1>4, TagSegmentKeeps DEF s
<1> QED
  BY <1>3, <1>4

\* The table is marked as the last line says.
LEMMA MarkIInv ==
  ASSUME IInv, Mark
  PROVE  IInv'
<1> DEFINE s == seg[cur.c]
<1>1. /\ pc = "mark" /\ pc' = "wait" /\ cur' = Nothing
      /\ seg' = [seg EXCEPT ![cur.c] = None]
      /\ mon' = IF cur.rt = 0 THEN rem_addr_idx(mon, cur.c)
                ELSE tag_segment(mon, "FAIL", s[1], s[2])
      /\ UNCHANGED <<out, log, good, bad>>
  BY DEF Mark, files
<1>2. /\ cur.c \in Clients /\ s \in Segment /\ s # None /\ mon.addr[cur.c] = s
      /\ MonitorOK(mon) /\ "FAIL" \in State
  BY <1>1 DEF IInv, EntryInv, TypeOK, State
<1>3. \A j \in Records(s) \cap Jobs : LastLine(log, j) = IF cur.rt = 0 THEN "ok" ELSE "fail"
  BY <1>1 DEF IInv, LineIsLast
<1>4. Failing = IF cur.rt # 0 THEN Records(s) ELSE {}
  BY <1>1 DEF Failing
<1> HIDE DEF s
<1>5. /\ MonitorOK(mon')
      /\ \A c \in Clients : c # cur.c => mon'.addr[c] = mon.addr[c]
      /\ \A j \in Jobs : mon'.states[j] =
            IF j \in Records(s) THEN IF cur.rt = 0 THEN "DONE" ELSE "FAIL"
            ELSE mon.states[j]
  BY MarkTags DEF s
<1>6. seg' \in [Clients -> Segment \cup {None}] /\ \A c \in Clients :
          seg'[c] = IF c = cur.c THEN None ELSE seg[c]
  BY <1>1 DEF IInv, TypeOK
<1>7. TypeOK'
  <2>1. Nothing \in [c : Clients \cup {None}, rt : {0, 1}, ob : Int, oe : Int]
    BY DEF Nothing
  <2> QED
    BY <1>1, <1>5, <1>6, <2>1 DEF IInv, TypeOK, MonitorOK
<1>8. EntryInv'
  BY <1>1, <1>5, <1>6 DEF IInv, EntryInv
<1>9. LogInv' /\ LineIsLast'
  BY <1>1, SameLog DEF IInv, LineIsLast
<1>10. DoneInLog'
  <2> SUFFICES ASSUME NEW j \in Jobs, mon'.states[j] = "DONE"
               PROVE  LastLine(log, j) = "ok"
    BY <1>1, SameLog DEF IInv, DoneInLog, In
  <2>1. CASE j \in Records(s)
    BY <1>3, <1>5, <2>1
  <2>2. CASE j \notin Records(s)
    <3>1. mon.states[j] = "DONE" /\ j \notin Failing
      BY <1>4, <1>5, <2>2
    <3> QED
      BY <1>1, <3>1 DEF IInv, DoneInLog, In
  <2> QED
    BY <2>1, <2>2
<1> QED
  BY <1>5, <1>7, <1>8, <1>9, <1>10 DEF IInv

\* Failed records are to be done again.
LEMMA NewRoundIInv ==
  ASSUME IInv, NewRound
  PROVE  IInv'
<1>1. /\ mon' = chgstate(mon, "FAIL", "TODO") /\ pc = "wait"
      /\ UNCHANGED <<seg, out, log, good, pc, cur, bad>>
  BY DEF NewRound, files
<1>2. /\ MonitorOK(mon') /\ mon'.addr = mon.addr
      /\ \A j \in Jobs : mon'.states[j] =
            IF mon.states[j] = "FAIL" THEN "TODO" ELSE mon.states[j]
  BY <1>1, ChgStateKeeps DEF IInv
<1>3. TypeOK' /\ EntryInv'
  BY <1>1, <1>2 DEF IInv, TypeOK, EntryInv, MonitorOK
<1>4. LogInv' /\ LineIsLast' /\ DoneInLog'
  BY <1>1, <1>2, NoMoreDone DEF Failing
<1> QED
  BY <1>2, <1>3, <1>4 DEF IInv

\* A crash leaves the output as it was or with a part of a result at its end.
LEMMA CrashAppends ==
  ASSUME IInv, Crash
  PROVE  \E x \in Seq(Jobs \cup {FAILED}) : out' = out \/ out' = out \o x
<1>1. CASE out' = out
  <2>1. <<>> \in Seq(Jobs \cup {FAILED})
    OBVIOUS
  <2> QED
    BY <1>1, <2>1
<1>2. CASE out' # out
  <2>1. PICK c \in Clients : /\ seg[c] # None
                             /\ \E n \in 1 .. (seg[c][2] - seg[c][1]) :
                                  out' = out \o SubSeq(Result(seg[c], 0), 1, n)
    BY <1>2 DEF Crash
  <2>2. PICK n \in 1 .. (seg[c][2] - seg[c][1]) :
          out' = out \o SubSeq(Result(seg[c], 0), 1, n)
    BY <2>1
  <2>3. seg[c] \in Segment
    BY <2>1 DEF IInv, TypeOK
  <2>4. seg[c][1] \in Int /\ seg[c][2] \in Int
    BY <2>3, NAssumption DEF Segment, Cells
  <2>5. n \in Nat /\ n <= Len(Result(seg[c], 0))
    BY <2>2, <2>4 DEF Result
  <2>6. SubSeq(Result(seg[c], 0), 1, n) \in Seq(Jobs \cup {FAILED})
    BY <2>3, <2>5, ResultType
  <2> QED
    BY <2>2, <2>6
<1> QED
  BY <1>1, <1>2

\* The server is killed.
LEMMA CrashIInv ==
  ASSUME IInv, Crash
  PROVE  IInv'
<1>1. /\ pc' = "down" /\ cur' = Nothing /\ seg' = [c \in Clients |-> None]
      /\ bad' = [bad EXCEPT !["crashes"] = @ + 1]
      /\ UNCHANGED <<mon, log, good>>
  BY DEF Crash, Count
<1>2. out' \in Seq(Jobs \cup {FAILED})
  <2>1. PICK x \in Seq(Jobs \cup {FAILED}) : out' = out \/ out' = out \o x
    BY CrashAppends
  <2>2. out \in Seq(Jobs \cup {FAILED})
    BY DEF IInv, TypeOK
  <2>3. out \o x \in Seq(Jobs \cup {FAILED})
    BY <2>2
  <2> QED
    BY <2>1, <2>2, <2>3
<1>3. TypeOK'
  <2>1. Nothing \in [c : Clients \cup {None}, rt : {0, 1}, ob : Int, oe : Int]
    BY DEF Nothing
  <2> QED
    BY <1>1, <1>2, <2>1 DEF IInv, TypeOK, Faults
<1>4. EntryInv' /\ LineIsLast' /\ DoneInLog'
  BY <1>1 DEF EntryInv, LineIsLast, DoneInLog
<1>5. LogInv'
  BY <1>1, SameLog DEF IInv
<1> QED
  BY <1>1, <1>3, <1>4, <1>5 DEF IInv

\* A server starts on the files.
LEMMA RestartIInv ==
  ASSUME IInv, Restart
  PROVE  IInv'
<1>1. /\ pc = "down" /\ pc' = "wait" /\ mon' = ReadLog(log) /\ good' = TRUE
      /\ UNCHANGED <<seg, out, log, cur, bad>>
  BY DEF Restart
<1>2. TableOf(mon', log)
  BY <1>1, ReadLogIs DEF IInv, LogInv
<1>3. TypeOK'
  BY <1>1, <1>2 DEF IInv, TypeOK, TableOf, MonitorOK
<1>4. EntryInv' /\ LineIsLast'
  BY <1>1 DEF IInv, EntryInv, LineIsLast
<1>5. LogInv' /\ DoneInLog'
  BY <1>1, <1>2, SameLog DEF IInv, DoneInLog, In, TableOf
<1> QED
  BY <1>2, <1>3, <1>4, <1>5 DEF IInv, TableOf

\* Every step keeps the inductive invariant.
LEMMA NextIInv ==
  IInv /\ [Next]_vars => IInv'
<1> SUFFICES ASSUME IInv, [Next]_vars PROVE IInv'
  OBVIOUS
<1>1. CASE UNCHANGED vars
  <2>1. UNCHANGED <<mon, seg, out, log, good, pc, cur, bad>>
    BY <1>1 DEF vars
  <2>2. TypeOK' /\ EntryInv' /\ MonitorOK(mon')
    BY <2>1 DEF IInv, TypeOK, EntryInv
  <2>3. LogInv' /\ LineIsLast' /\ DoneInLog'
    BY <2>1, SameLog DEF IInv, LineIsLast, DoneInLog, Failing, In
  <2> QED
    BY <2>2, <2>3 DEF IInv
<1>2. ASSUME NEW c \in Clients, Give(c) \/ Leave(c) \/ PutOut(c) \/ OutFull(c)
      PROVE  IInv'
  BY <1>2, GiveIInv, LeaveIInv, OutputIInv
<1> QED
  BY <1>1, <1>2, PutLogIInv, MarkIInv, NewRoundIInv, CrashIInv, RestartIInv DEF Next

\* An empty log and an empty table.
LEMMA InitIInv ==
  Init => IInv
<1> SUFFICES ASSUME Init PROVE IInv
  OBVIOUS
<1>1. MonitorOK(mon)
  BY NewMonitorOK DEF Init
<1>2. TypeOK
  BY <1>1 DEF Init, TypeOK, MonitorOK, Nothing, Faults
<1>3. EntryInv /\ LineIsLast
  BY DEF Init, EntryInv, LineIsLast
<1>4. LogInv
  BY ReadEmpty DEF Init, LogInv
<1>5. DoneInLog
  BY NAssumption DEF Init, DoneInLog, In, NewMonitor, Jobs, Cells
<1> QED
  BY <1>1, <1>2, <1>3, <1>4, <1>5 DEF IInv

-----------------------------------------------------------------------------
(* The output.  While the device was never full, the offsets on a line name  *)
(* the bytes of its result, whatever was cut by a crash and appended after.  *)

\* The bytes of o from offset b to offset e are the result of chunk s.
Names(o, b, e, s, r) ==
    /\ b \in Nat /\ e \in Nat /\ b <= e /\ e <= Len(o)
    /\ SubSeq(o, b + 1, e) = Result(s, r)

LinesNameResults ==
    bad["full"] = 0 =>
        \A k \in DOMAIN log :
            Names(out, log[k][OUT_B], log[k][OUT_E], <<log[k][BEGIN], log[k][END]>>, log[k][RT])

\* The offsets of the result that is on its way to the log do too.
OutInv ==
    /\ LinesNameResults
    /\ bad["full"] = 0 =>
          /\ good
          /\ pc = "log" => Names(out, cur.ob, cur.oe, seg[cur.c], cur.rt)

\* What is appended to the output moves nothing in it.
LEMMA NamesStay ==
  ASSUME NEW o \in Seq(Jobs \cup {FAILED}), NEW x \in Seq(Jobs \cup {FAILED}),
         NEW b, NEW e, NEW s, NEW r, Names(o, b, e, s, r)
  PROVE  Names(o \o x, b, e, s, r)
<1>1. b \in Nat /\ e \in Nat /\ b <= e /\ e <= Len(o) /\ Len(o) <= Len(o \o x)
  BY DEF Names
<1>2. SubSeq(o \o x, b + 1, e) = SubSeq(o, b + 1, e)
  BY <1>1
<1> QED
  BY <1>1, <1>2 DEF Names

\* What is appended is what stands between the old and the new end.
LEMMA NamesNew ==
  ASSUME NEW o \in Seq(Jobs \cup {FAILED}), NEW s \in Segment, NEW r \in {0, 1}
  PROVE  Names(o \o Result(s, r), Len(o), Len(o \o Result(s, r)), s, r)
<1> DEFINE x == Result(s, r)
<1>1. x \in Seq(Jobs \cup {FAILED})
  BY ResultType
<1> HIDE DEF x
<1>2. SubSeq(o \o x, Len(o) + 1, Len(o \o x)) = x
  BY <1>1
<1>3. Len(o) \in Nat /\ Len(o \o x) \in Nat /\ Len(o) <= Len(o \o x)
  BY <1>1
<1> QED
  BY <1>2, <1>3 DEF Names, x

\* A step that writes no line and overwrites nothing in the output.
LEMMA LinesStay ==
  ASSUME IInv, OutInv, log' = log, bad'["full"] = 0 => bad["full"] = 0,
         NEW x \in Seq(Jobs \cup {FAILED}), out' = out \/ out' = out \o x
  PROVE  LinesNameResults'
<1> SUFFICES ASSUME bad'["full"] = 0, NEW k \in DOMAIN log
             PROVE  Names(out', log[k][OUT_B], log[k][OUT_E],
                          <<log[k][BEGIN], log[k][END]>>, log[k][RT])
  BY DEF LinesNameResults
<1>1. Names(out, log[k][OUT_B], log[k][OUT_E], <<log[k][BEGIN], log[k][END]>>, log[k][RT])
  BY DEF OutInv, LinesNameResults
<1>2. out \in Seq(Jobs \cup {FAILED})
  BY DEF IInv, TypeOK
<1> QED
  BY <1>1, <1>2, NamesStay

\* Every step keeps it, with the inductive invariant.
LEMMA NextOut ==
  IInv /\ OutInv /\ [Next]_vars => OutInv'
<1> SUFFICES ASSUME IInv, OutInv, [Next]_vars PROVE OutInv'
  OBVIOUS
<1>1. <<>> \in Seq(Jobs \cup {FAILED}) /\ bad \in [Faults -> Nat]
      /\ out \in Seq(Jobs \cup {FAILED})
  BY DEF IInv, TypeOK
<1>2. CASE UNCHANGED vars
  BY <1>2 DEF vars, OutInv, LinesNameResults
<1>3. ASSUME NEW c \in Clients, Give(c) \/ Leave(c)
      PROVE  OutInv'
  <2>1. /\ UNCHANGED <<out, log, good, cur>> /\ pc = "wait" /\ pc' = "wait"
        /\ bad'["full"] = bad["full"]
    BY <1>1, <1>3 DEF Give, Leave, files, Count, Faults
  <2> QED
    BY <1>1, <2>1, LinesStay DEF OutInv
<1>4. ASSUME NEW c \in Clients, PutOut(c)
      PROVE  OutInv'
  <2>1. PICK r \in {0, 1} :
          /\ IF r = 1 THEN bad["fails"] < MaxFails /\ Count("fails") ELSE UNCHANGED bad
          /\ out' = IF good THEN out \o Result(seg[c], r) ELSE out
          /\ cur' = [c |-> c, rt |-> r, ob |-> Tellp(out), oe |-> Tellp(out')]
    BY <1>4 DEF PutOut
  <2>2. bad'["full"] = bad["full"]
    BY <1>1, <2>1 DEF Count, Faults
  <2>3. seg[c] \in Segment /\ seg' = seg /\ log' = log /\ good' = good
    BY <1>4 DEF PutOut, IInv, TypeOK, table
  <2>4. Result(seg[c], r) \in Seq(Jobs \cup {FAILED})
    BY <2>3, ResultType
  <2>5. LinesNameResults'
    BY <2>1, <2>2, <2>3, <2>4, LinesStay
  <2>6. ASSUME bad'["full"] = 0
        PROVE  good' /\ Names(out', cur'.ob, cur'.oe, seg'[cur'.c], cur'.rt)
    <3>1. good /\ good'
      BY <2>2, <2>3, <2>6 DEF OutInv
    <3>2. Names(out', Len(out), Len(out'), seg[c], r)
      BY <1>1, <2>1, <2>3, <3>1, NamesNew
    <3>3. cur'.ob = Len(out) /\ cur'.oe = Len(out') /\ cur'.c = c /\ cur'.rt = r
      BY <2>1, <3>1 DEF Tellp
    <3> QED
      BY <2>3, <3>1, <3>2, <3>3
  <2> QED
    BY <2>5, <2>6 DEF OutInv
<1>5. ASSUME NEW c \in Clients, OutFull(c)
      PROVE  OutInv'
  <2>1. bad'["full"] # 0
    BY <1>1, <1>5 DEF OutFull, Count, Faults
  <2> QED
    BY <2>1 DEF OutInv, LinesNameResults
<1>6. CASE PutLog
  <2>1. /\ pc = "log" /\ pc' = "mark" /\ log' = Append(log, Line)
        /\ UNCHANGED <<out, good, bad>>
    BY <1>6 DEF PutLog
  <2>2. seg[cur.c] \in Segment /\ log \in Seq(LineType)
    BY <2>1 DEF IInv, EntryInv, LogInv, TypeOK
  <2>3. seg[cur.c] = <<seg[cur.c][1], seg[cur.c][2]>>
    BY <2>2 DEF Segment
  <2>4. /\ Line[OUT_B] = cur.ob /\ Line[OUT_E] = cur.oe /\ Line[RT] = cur.rt
        /\ Line[BEGIN] = seg[cur.c][1] /\ Line[END] = seg[cur.c][2]
    BY DEF Line, OUT_B, OUT_E, RT, BEGIN, END
  <2>5. \A k \in DOMAIN log' : IF k \in DOMAIN log THEN log'[k] = log[k] ELSE log'[k] = Line
    BY <2>1, <2>2
  <2>6. ASSUME bad["full"] = 0, NEW k \in DOMAIN log'
        PROVE  Names(out, log'[k][OUT_B], log'[k][OUT_E],
                     <<log'[k][BEGIN], log'[k][END]>>, log'[k][RT])
    <3>1. CASE k \in DOMAIN log
      BY <2>5, <2>6, <3>1 DEF OutInv, LinesNameResults
    <3>2. CASE k \notin DOMAIN log
      <4>1. Names(out, cur.ob, cur.oe, seg[cur.c], cur.rt)
        BY <2>1, <2>6 DEF OutInv
      <4> QED
        BY <2>3, <2>4, <2>5, <3>2, <4>1
    <3> QED
      BY <3>1, <3>2
  <2>7. LinesNameResults'
    BY <2>1, <2>6 DEF LinesNameResults
  <2> QED
    BY <2>1, <2>7 DEF OutInv
<1>7. CASE Mark \/ NewRound
  <2>1. UNCHANGED <<out, log, good, bad>> /\ pc' = "wait"
    BY <1>7 DEF Mark, NewRound, files
  <2> QED
    BY <1>1, <2>1, LinesStay DEF OutInv
<1>8. CASE Crash
  <2>1. /\ pc' = "down" /\ log' = log /\ good' = good /\ bad'["full"] = bad["full"]
    BY <1>1, <1>8 DEF Crash, Count, Faults
  <2>2. PICK x \in Seq(Jobs \cup {FAILED}) : out' = out \/ out' = out \o x
    BY <1>1, <1>8, CrashAppends
  <2> QED
    BY <2>1, <2>2, LinesStay DEF OutInv
<1>9. CASE Restart
  <2>1. UNCHANGED <<out, log, bad>> /\ pc' = "wait" /\ good' = TRUE
    BY <1>9 DEF Restart
  <2> QED
    BY <1>1, <2>1, LinesStay DEF OutInv
<1> QED
  BY <1>2, <1>3, <1>4, <1>5, <1>6, <1>7, <1>8, <1>9 DEF Next

-----------------------------------------------------------------------------
(* Sequences in order, and what comes of putting them one after the other.   *)

\* A sequence that is in order has the numbers of its set and no others.
LEMMA InOrderHas ==
  ASSUME NEW s \in Seq(Int), NEW S, InOrder(s, S)
  PROVE  /\ \A k \in 1 .. Len(s) : s[k] \in S
         /\ \A x \in S : \E k \in 1 .. Len(s) : s[k] = x
BY DEF InOrder, ToSet

\* Two sequences in order, the numbers of the first below those of the second.
LEMMA InOrderJoined ==
  ASSUME NEW s \in Seq(Int), NEW t \in Seq(Int), NEW S, NEW T,
         InOrder(s, S), InOrder(t, T), \A x \in S, y \in T : x < y
  PROVE  InOrder(s \o t, S \cup T)
<1> DEFINE u == s \o t
           m == Len(s)
           n == Len(t)
<1>1. /\ m \in Nat /\ n \in Nat /\ DOMAIN s = 1 .. m /\ DOMAIN t = 1 .. n
      /\ DOMAIN u = 1 .. (m + n)
      /\ \A k \in 1 .. m : u[k] = s[k]
      /\ \A k \in (m + 1) .. (m + n) : u[k] = t[k - m]
  OBVIOUS
<1>2. /\ \A k \in 1 .. m : s[k] \in S
      /\ \A k \in 1 .. n : t[k] \in T
      /\ \A x \in S : \E k \in 1 .. m : s[k] = x
      /\ \A x \in T : \E k \in 1 .. n : t[k] = x
  BY InOrderHas
<1>3. /\ \A k, l \in 1 .. m : k < l => s[k] < s[l]
      /\ \A k, l \in 1 .. n : k < l => t[k] < t[l]
  BY <1>1 DEF InOrder
<1> HIDE DEF u, m, n
<1>4. \A k \in (m + 1) .. (m + n) : k - m \in 1 .. n
  BY <1>1
<1>5. \A k \in 1 .. (m + n) : k \in 1 .. m \/ k \in (m + 1) .. (m + n)
  BY <1>1
<1>6. \A k \in 1 .. (m + n) : u[k] \in S \cup T
  BY <1>1, <1>2, <1>4, <1>5
<1>7. \A x \in S : \E k \in DOMAIN u : u[k] = x
  <2>1. \A k \in 1 .. m : k \in DOMAIN u
    BY <1>1
  <2> QED
    BY <1>1, <1>2, <2>1
<1>8. \A x \in T : \E k \in DOMAIN u : u[k] = x
  <2> SUFFICES ASSUME NEW x \in T
               PROVE  \E k \in DOMAIN u : u[k] = x
    OBVIOUS
  <2>1. PICK k \in 1 .. n : t[k] = x
    BY <1>2
  <2>2. m + k \in (m + 1) .. (m + n) /\ m + k \in DOMAIN u /\ (m + k) - m = k
    BY <1>1
  <2> QED
    BY <1>1, <2>1, <2>2
<1>9. ToSet(u) = S \cup T
  BY <1>1, <1>6, <1>7, <1>8 DEF ToSet
<1>10. ASSUME NEW k \in 1 .. (m + n), NEW l \in 1 .. (m + n), k < l
       PROVE  u[k] < u[l]
  <2>1. CASE k \in 1 .. m /\ l \in 1 .. m
    BY <1>1, <1>3, <1>10, <2>1
  <2>2. CASE k \in 1 .. m /\ l \in (m + 1) .. (m + n)
    BY <1>1, <1>2, <1>4, <2>2
  <2>3. CASE k \in (m + 1) .. (m + n) /\ l \in (m + 1) .. (m + n)
    <3>1. k - m < l - m
      BY <1>1, <1>10
    <3> QED
      BY <1>1, <1>3, <1>4, <2>3, <3>1
  <2>4. ~(k \in (m + 1) .. (m + n) /\ l \in 1 .. m)
    BY <1>1, <1>10
  <2> QED
    BY <1>5, <2>1, <2>2, <2>3, <2>4
<1> QED
  BY <1>1, <1>9, <1>10 DEF InOrder, u

\* The sequences of p one after the other: f[i] is the first i of them.
Flattening(f, p, n) == f = [i \in 1 .. n |-> IF i = 1 THEN p[i] ELSE f[i - 1] \o p[i]]

\* There is such a function, for any number of them: were there a number for
\* which there is none, the one before the least would have one to extend.
LEMMA FlatteningExists ==
  ASSUME NEW p, NEW n \in Nat
  PROVE  \E f : Flattening(f, p, n)
<1> DEFINE T == {k \in Nat : ~ \E f : Flattening(f, p, k)}
<1>1. ASSUME T # {}
      PROVE  FALSE
  <2> DEFINE k == Min(T)
  <2>1. k \in Nat /\ (\A f : ~Flattening(f, p, k)) /\ \A y \in T : k <= y
    BY <1>1, MinIsLeast
  <2> HIDE DEF k
  <2>2. CASE k = 0
    <3>1. Flattening([i \in 1 .. 0 |-> 0], p, 0)
      BY DEF Flattening
    <3> QED
      BY <2>1, <2>2, <3>1
  <2>3. CASE k # 0
    <3>1. k - 1 \in Nat /\ ~(k <= k - 1)
      BY <2>1, <2>3
    <3>2. PICK f : Flattening(f, p, k - 1)
      BY <2>1, <3>1
    <3> DEFINE g == [i \in 1 .. k |-> IF i = 1 THEN p[i] ELSE f[i - 1] \o p[i]]
    <3>3. \A i \in 1 .. (k - 1) : f[i] = IF i = 1 THEN p[i] ELSE f[i - 1] \o p[i]
      BY <3>2 DEF Flattening
    <3>4. \A i \in 1 .. (k - 1) : i \in 1 .. k /\ g[i] = f[i]
      BY <2>1, <3>3
    <3>5. \A i \in 1 .. k : i # 1 => i - 1 \in 1 .. (k - 1) /\ g[i - 1] = f[i - 1]
      <4>1. \A i \in 1 .. k : i # 1 => i - 1 \in 1 .. (k - 1)
        BY <2>1
      <4> HIDE DEF g
      <4> QED
        BY <3>4, <4>1
    <3>6. Flattening(g, p, k)
      <4>1. \A i \in 1 .. k : (IF i = 1 THEN p[i] ELSE f[i - 1] \o p[i])
                               = IF i = 1 THEN p[i] ELSE g[i - 1] \o p[i]
        BY <3>5
      <4>2. g = [i \in 1 .. k |-> IF i = 1 THEN p[i] ELSE g[i - 1] \o p[i]]
        BY <4>1
      <4> HIDE DEF g
      <4> QED
        BY <4>2 DEF Flattening
    <3> QED
      BY <2>1, <3>6
  <2> QED
    BY <2>2, <2>3
<1> QED
  BY <1>1

\* FlattenSeq goes from each prefix to the next.
LEMMA FlattenIs ==
  ASSUME NEW p, Len(p) \in Nat \ {0}
  PROVE  \E f : /\ FlattenSeq(p) = f[Len(p)]
                /\ f[1] = p[1]
                /\ \A i \in 2 .. Len(p) : f[i] = f[i - 1] \o p[i]
<1> DEFINE n == Len(p)
           f == CHOOSE g : Flattening(g, p, n)
<1>1. Flattening(f, p, n)
  BY FlatteningExists
<1>2. FlattenSeq(p) = f[n]
  BY DEF FlattenSeq, Flattening
<1> HIDE DEF f
<1>3. \A i \in 1 .. n : f[i] = IF i = 1 THEN p[i] ELSE f[i - 1] \o p[i]
  BY <1>1 DEF Flattening
<1>4. 1 \in 1 .. n /\ \A i \in 2 .. n : i \in 1 .. n /\ i # 1
  OBVIOUS
<1>5. f[1] = p[1] /\ \A i \in 2 .. n : f[i] = f[i - 1] \o p[i]
  BY <1>3, <1>4
<1> QED
  BY <1>2, <1>5

\* Pieces in order, each above those before it, make a sequence in order.
LEMMA FlattenInOrder ==
  ASSUME NEW n \in Nat \ {0}, NEW p \in [1 .. n -> Seq(Int)], NEW B,
         \A i \in 1 .. n : InOrder(p[i], B[i]),
         \A i, j \in 1 .. n : i < j => \A x \in B[i], y \in B[j] : x < y
  PROVE  InOrder(FlattenSeq(p), UNION {B[i] : i \in 1 .. n})
<1>1. Len(p) = n
  OBVIOUS
<1>2. PICK f : /\ FlattenSeq(p) = f[n]
               /\ f[1] = p[1]
               /\ \A i \in 2 .. n : f[i] = f[i - 1] \o p[i]
  BY <1>1, FlattenIs
<1> DEFINE U(k) == UNION {B[i] : i \in 1 .. k}
           T == {k \in Nat : k \in 1 .. n /\ ~(f[k] \in Seq(Int) /\ InOrder(f[k], U(k)))}
<1>3. ASSUME T # {}
      PROVE  FALSE
  <2> DEFINE k == Min(T)
  <2>1. /\ k \in Nat /\ k \in 1 .. n /\ ~(f[k] \in Seq(Int) /\ InOrder(f[k], U(k)))
        /\ \A y \in T : k <= y
    BY <1>3, MinIsLeast
  <2> HIDE DEF k
  <2>2. CASE k = 1
    <3>1. U(1) = B[1]
      OBVIOUS
    <3> QED
      BY <1>2, <2>1, <2>2, <3>1
  <2>3. CASE k # 1
    <3>1. k - 1 \in Nat /\ k - 1 \in 1 .. n /\ ~(k <= k - 1) /\ k \in 2 .. n
      BY <2>1, <2>3
    <3>2. f[k - 1] \in Seq(Int) /\ InOrder(f[k - 1], U(k - 1))
      BY <2>1, <3>1
    <3>3. U(k) = U(k - 1) \cup B[k]
      <4>1. 1 .. k = (1 .. (k - 1)) \cup {k}
        BY <2>1
      <4> QED
        BY <4>1
    <3>4. \A x \in U(k - 1), y \in B[k] : x < y
      <4>1. \A i \in 1 .. (k - 1) : i \in 1 .. n /\ i < k
        BY <2>1
      <4> QED
        BY <2>1, <4>1
    <3>5. f[k] = f[k - 1] \o p[k] /\ p[k] \in Seq(Int) /\ InOrder(p[k], B[k])
      BY <1>2, <2>1, <3>1
    <3>6. f[k] \in Seq(Int)
      BY <3>2, <3>5
    <3> HIDE DEF U
    <3>7. InOrder(f[k - 1] \o p[k], U(k - 1) \cup B[k])
      BY <3>2, <3>4, <3>5, InOrderJoined
    <3> QED
      BY <2>1, <3>3, <3>5, <3>6, <3>7
  <2> QED
    BY <2>2, <2>3
<1>4. n \in Nat /\ n \in 1 .. n
  OBVIOUS
<1> QED
  BY <1>2, <1>3, <1>4

-----------------------------------------------------------------------------
(* The sorted output.  Pieces that the offsets name are the results of their *)
(* lines; what remains to say is which lines are read, and that the pieces   *)
(* of these follow each other in the input.                                  *)

\* The greatest of some cells.
LEMMA MaxOfCells ==
  ASSUME NEW S \in SUBSET Cells, S # {}
  PROVE  Max(S) \in S /\ \A k \in S : k <= Max(S)
<1> DEFINE T == {N - k : k \in S}
<1>0. \A k \in S : k \in Nat /\ k <= N /\ N - k \in Nat
  BY NAssumption DEF Cells
<1>1. T \subseteq Nat /\ T # {}
  BY <1>0
<1>2. Min(T) \in T /\ \A y \in T : Min(T) <= y
  BY <1>1, MinIsLeast
<1>3. PICK x \in S : Min(T) = N - x
  BY <1>2
<1>4. \A k \in S : N - x <= N - k
  BY <1>2, <1>3
<1>5. \A k \in S : x >= k
  BY <1>0, <1>3, <1>4, NAssumption
<1> QED
  BY <1>0, <1>5 DEF Max

\* The records of a line.
Of(line) == line[BEGIN] .. (line[END] - 1)

\* What the proofs about the sorted output need of the two files: a line has a
\* record, and its offsets name their results.
Written(lg, o) ==
    /\ lg \in Seq(LineType) /\ o \in Seq(Jobs \cup {FAILED})
    /\ \A k \in DOMAIN lg :
          /\ lg[k][BEGIN] < lg[k][END]
          /\ Names(o, lg[k][OUT_B], lg[k][OUT_E], <<lg[k][BEGIN], lg[k][END]>>, lg[k][RT])

\* The numbers on the lines.
LEMMA LinesAre ==
  ASSUME NEW lg, NEW o, Written(lg, o)
  PROVE  /\ lg \in Seq(LineType) /\ Len(lg) \in Nat /\ DOMAIN lg = 1 .. Len(lg)
         /\ \A k \in DOMAIN lg : /\ lg[k][BEGIN] \in Cells /\ lg[k][END] \in Cells
                                 /\ lg[k][BEGIN] \in Nat /\ lg[k][END] \in Nat
                                 /\ lg[k][BEGIN] < lg[k][END]
<1>1. lg \in Seq(LineType) /\ \A k \in DOMAIN lg : lg[k][BEGIN] < lg[k][END]
  BY DEF Written
<1>2. Len(lg) \in Nat /\ DOMAIN lg = 1 .. Len(lg)
  BY <1>1
<1>3. \A k \in 1 .. Len(lg) : lg[k] \in LineType
  BY <1>1, ElementOfSeq
<1>4. \A l \in LineType : l[BEGIN] \in Cells /\ l[END] \in Cells
  BY DEF LineType
<1>5. \A x \in Cells : x \in Nat
  BY NAssumption DEF Cells
<1> QED
  BY <1>1, <1>2, <1>3, <1>4, <1>5

\* The line of a begin index is one of the log, no later one begins there, and
\* the begin index is no greater than the last index.
LEMMA LineOfIs ==
  ASSUME NEW lg, NEW o, Written(lg, o), NEW i \in Keys(lg)
  PROVE  /\ i \in Jobs /\ i <= LastIndex(lg)
         /\ \E k \in DOMAIN lg : /\ LineOf(lg, i) = lg[k] /\ lg[k][BEGIN] = i
                                 /\ \A l \in DOMAIN lg : lg[l][BEGIN] = i => l <= k
<1> DEFINE n == Len(lg)
           S == {k \in DOMAIN lg : lg[k][BEGIN] = i}
           E == {0} \cup {lg[k][END] - 1 : k \in DOMAIN lg}
<1>1. /\ lg \in Seq(LineType) /\ n \in Nat /\ DOMAIN lg = 1 .. n
      /\ \A k \in DOMAIN lg : /\ lg[k][BEGIN] \in Cells /\ lg[k][END] \in Cells
                              /\ lg[k][BEGIN] < lg[k][END]
  BY LinesAre
<1>2. S \in SUBSET (1 .. n) /\ S # {}
  BY <1>1 DEF Keys
<1>3. Max(S) \in S /\ \A l \in S : l <= Max(S)
  <2> HIDE DEF S, n
  <2> QED
    BY <1>1, <1>2, MaxIsGreatest
<1>4. LineOf(lg, i) = lg[Max(S)]
  BY DEF LineOf
<1>5. \A k \in DOMAIN lg : lg[k][END] - 1 \in Jobs
  BY <1>1, NAssumption DEF Cells, Jobs
<1>6. E \in SUBSET Cells /\ E # {}
  BY <1>5, NAssumption DEF Cells, Jobs
<1>7. \A x \in E : x <= LastIndex(lg)
  <2>1. LastIndex(lg) = Max(E)
    BY DEF LastIndex
  <2> HIDE DEF E
  <2> QED
    BY <1>6, <2>1, MaxOfCells
<1>8. PICK k \in DOMAIN lg : k = Max(S) /\ lg[k][BEGIN] = i
  BY <1>3
<1>9. lg[k][END] - 1 \in E
  BY <1>8
<1>10. i <= lg[k][END] - 1 /\ lg[k][END] - 1 <= LastIndex(lg)
  <2> HIDE DEF E
  <2> QED
    BY <1>1, <1>7, <1>8, <1>9, NAssumption DEF Cells
<1>11. i \in Jobs /\ i \in Int
  BY <1>1, <1>8, NAssumption DEF Cells, Jobs
<1>12. LastIndex(lg) \in Int
  <2>1. LastIndex(lg) = Max(E)
    BY DEF LastIndex
  <2> HIDE DEF E
  <2>2. Max(E) \in Cells
    BY <1>6, MaxOfCells
  <2> QED
    BY <2>1, <2>2, NAssumption DEF Cells
<1>13. i <= LastIndex(lg)
  <2>1. lg[k][END] - 1 \in Int
    BY <1>5, <1>8, NAssumption DEF Jobs
  <2> QED
    BY <1>10, <1>11, <1>12, <2>1
<1> HIDE DEF S
<1>14. \A l \in DOMAIN lg : lg[l][BEGIN] = i => l <= k
  BY <1>3, <1>8 DEF S
<1> QED
  BY <1>4, <1>8, <1>11, <1>13, <1>14

\* The last index is a number, whatever the log.
LEMMA LastIndexIs ==
  ASSUME NEW lg, NEW o, Written(lg, o)
  PROVE  LastIndex(lg) \in Nat
<1> DEFINE E == {0} \cup {lg[k][END] - 1 : k \in DOMAIN lg}
<1>1. \A k \in DOMAIN lg : /\ lg[k][BEGIN] \in Cells /\ lg[k][END] \in Cells
                           /\ lg[k][BEGIN] < lg[k][END]
  BY LinesAre
<1>2. E \in SUBSET Cells /\ E # {}
  BY <1>1, NAssumption DEF Cells
<1>3. LastIndex(lg) = Max(E)
  BY DEF LastIndex
<1> HIDE DEF E
<1>4. Max(E) \in Cells
  BY <1>2, MaxOfCells
<1> QED
  BY <1>3, <1>4, NAssumption DEF Cells

\* The piece that a good line names is its records.
LEMMA PieceIs ==
  ASSUME NEW lg, NEW o, Written(lg, o), NEW i \in Keys(lg), LineOf(lg, i)[RT] = 0
  PROVE  Piece(lg, o, i) \in Seq(Int) /\ InOrder(Piece(lg, o, i), Of(LineOf(lg, i)))
<1>1. PICK k \in DOMAIN lg : LineOf(lg, i) = lg[k] /\ lg[k][BEGIN] = i
  BY LineOfIs
<1> DEFINE b == lg[k][OUT_B]
           e == lg[k][OUT_E]
           m == lg[k][END]
           p == Piece(lg, o, i)
<1>2. /\ i \in Nat /\ m \in Nat /\ i < m
      /\ o \in Seq(Jobs \cup {FAILED})
      /\ Names(o, b, e, <<i, m>>, 0)
  BY <1>1, LinesAre DEF Written
<1>3. /\ b \in Nat /\ e \in Nat /\ e <= Len(o) /\ Len(o) \in Nat
      /\ SubSeq(o, b + 1, e) = Result(<<i, m>>, 0)
  <2> HIDE DEF b, e, m
  <2>1. Len(o) \in Nat
    BY <1>2
  <2> QED
    BY <1>2, <2>1 DEF Names
<1>4. p = IF b < 0 THEN <<>> ELSE SubSeq(o, b + 1, Min({e, Len(o)}))
  BY <1>1 DEF Piece
<1>5. Result(<<i, m>>, 0) = [k2 \in 1 .. (m - i) |-> i + k2 - 1]
  BY DEF Result
<1>6. Of(LineOf(lg, i)) = i .. (m - 1)
  BY <1>1 DEF Of
<1> HIDE DEF b, e, m, p
<1>7. Min({e, Len(o)}) = e
  <2> DEFINE S == {e, Len(o)}
  <2>1. S \subseteq Nat /\ S # {}
    BY <1>3
  <2>2. Min(S) \in {e, Len(o)} /\ Min(S) <= e
    <3>1. e \in S
      OBVIOUS
    <3>2. Min(S) \in S /\ Min(S) <= e
      <4> HIDE DEF S
      <4> QED
        BY <2>1, <3>1, MinIsLeast
    <3> QED
      BY <3>2
  <2> QED
    BY <1>3, <2>2
<1>8. p = [k2 \in 1 .. (m - i) |-> i + k2 - 1]
  <2>1. ~(b < 0)
    BY <1>3
  <2>2. p = SubSeq(o, b + 1, e)
    BY <1>4, <1>7, <2>1, Zenon
  <2> QED
    BY <1>3, <1>5, <2>2, Zenon
<1>9. m - i \in Nat /\ p \in Seq(Int)
  BY <1>2, <1>8
<1>10. ToSet(p) = i .. (m - 1)
  <2>1. \A j \in i .. (m - 1) : j - i + 1 \in 1 .. (m - i) /\ i + (j - i + 1) - 1 = j
    BY <1>2
  <2>2. \A k2 \in 1 .. (m - i) : i + k2 - 1 \in i .. (m - 1)
    BY <1>2
  <2>3. \A j \in i .. (m - 1) : j \in ToSet(p)
    BY <1>8, <2>1 DEF ToSet
  <2>4. \A j \in ToSet(p) : j \in i .. (m - 1)
    BY <1>8, <2>2 DEF ToSet
  <2> QED
    BY <2>3, <2>4
<1>11. \A k1, k2 \in DOMAIN p : k1 < k2 => p[k1] < p[k2]
  BY <1>2, <1>8
<1> QED
  BY <1>6, <1>9, <1>10, <1>11 DEF InOrder, p

\* When the segments of the good lines that are read do not meet, the sorted
\* output is their records in order.
LEMMA ReorderIs ==
  ASSUME NEW lg, NEW o, Written(lg, o), NEW K,
         K = {i \in Keys(lg) : LineOf(lg, i)[RT] = 0},
         \A i, j \in K : i < j => LineOf(lg, i)[END] <= j
  PROVE  InOrder(Reorder(lg, o), UNION {Of(LineOf(lg, i)) : i \in K})
<1> DEFINE n == LastIndex(lg) + 1
           p == [m \in 1 .. n |->
                   IF m - 1 \in Keys(lg) /\ LineOf(lg, m - 1)[RT] = 0
                   THEN Piece(lg, o, m - 1) ELSE <<>>]
           B == [m \in 1 .. n |-> IF m - 1 \in K THEN Of(LineOf(lg, m - 1)) ELSE {}]
<1>1. n \in Nat \ {0}
  BY LastIndexIs
<1>2. Reorder(lg, o) = FlattenSeq(p)
  BY DEF Reorder
<1> HIDE DEF n
<1>3. \A m \in 1 .. n : p[m] = IF m - 1 \in K THEN Piece(lg, o, m - 1) ELSE <<>>
  OBVIOUS
<1>4. DOMAIN p = 1 .. n /\ p = [m \in 1 .. n |-> p[m]]
  OBVIOUS
<1>5. \A m \in 1 .. n : B[m] = IF m - 1 \in K THEN Of(LineOf(lg, m - 1)) ELSE {}
  OBVIOUS
<1> HIDE DEF p, B
<1>6. InOrder(<<>>, {}) /\ <<>> \in Seq(Int)
  BY DEF InOrder, ToSet
<1>7. \A i \in K : Piece(lg, o, i) \in Seq(Int) /\ InOrder(Piece(lg, o, i), Of(LineOf(lg, i)))
  BY PieceIs
<1>8. \A m \in 1 .. n : p[m] \in Seq(Int) /\ InOrder(p[m], B[m])
  BY <1>3, <1>5, <1>6, <1>7
<1>9. p \in [1 .. n -> Seq(Int)]
  BY <1>4, <1>8
<1>10. ASSUME NEW k \in 1 .. n, NEW l \in 1 .. n, k < l, NEW x \in B[k], NEW y \in B[l]
       PROVE  x < y
  <2>1. /\ k - 1 \in K /\ x \in Of(LineOf(lg, k - 1))
        /\ l - 1 \in K /\ y \in Of(LineOf(lg, l - 1))
    BY <1>5, <1>10
  <2>2. LineOf(lg, k - 1)[END] <= l - 1
    BY <1>1, <1>10, <2>1
  <2>3. /\ LineOf(lg, k - 1)[BEGIN] \in Int /\ LineOf(lg, k - 1)[END] \in Int
        /\ LineOf(lg, l - 1)[BEGIN] = l - 1 /\ LineOf(lg, l - 1)[END] \in Int
    <3>1. k - 1 \in Keys(lg) /\ l - 1 \in Keys(lg)
      BY <2>1
    <3>2. PICK a \in DOMAIN lg : LineOf(lg, k - 1) = lg[a]
      BY <3>1, LineOfIs
    <3>3. PICK b \in DOMAIN lg : LineOf(lg, l - 1) = lg[b] /\ lg[b][BEGIN] = l - 1
      BY <3>1, LineOfIs
    <3> QED
      BY <3>2, <3>3, LinesAre
  <2> QED
    BY <1>1, <2>1, <2>2, <2>3 DEF Of
<1>11. InOrder(FlattenSeq(p), UNION {B[m] : m \in 1 .. n})
  BY <1>1, <1>8, <1>9, <1>10, FlattenInOrder
<1>12. UNION {B[m] : m \in 1 .. n} = UNION {Of(LineOf(lg, i)) : i \in K}
  <2>1. ASSUME NEW i \in K
        PROVE  i + 1 \in 1 .. n /\ (i + 1) - 1 = i
    <3>1. i \in Jobs /\ i <= LastIndex(lg) /\ LastIndex(lg) \in Nat
      BY LineOfIs, LastIndexIs
    <3> QED
      BY <3>1, NAssumption DEF Jobs, n
  <2>2. \A i \in K : B[i + 1] = Of(LineOf(lg, i))
    BY <1>5, <2>1
  <2>3. \A x \in UNION {Of(LineOf(lg, i)) : i \in K} : x \in UNION {B[m] : m \in 1 .. n}
    BY <2>1, <2>2
  <2>4. \A x \in UNION {B[m] : m \in 1 .. n} : x \in UNION {Of(LineOf(lg, i)) : i \in K}
    BY <1>5
  <2> QED
    BY <2>3, <2>4
<1> QED
  BY <1>2, <1>11, <1>12

-----------------------------------------------------------------------------
(* The second invariant.  While Apart holds no record is given again once a  *)
(* good result of it is in the log: a good line is the last one about its    *)
(* records, which the table counts as done as soon as it is marked.          *)

\* A chunk has a record, in the hands of a client as on a line.
ChunkInv ==
    /\ \A c \in Clients : seg[c] # None => seg[c][1] < seg[c][2]
    /\ \A k \in DOMAIN log : log[k][BEGIN] < log[k][END]

\* What a client computes is in progress, and no other client computes it.
Held ==
    \A c \in Clients : seg[c] # None =>
        /\ \A j \in Records(seg[c]) : mon.states[j] = "INPROGRESS"
        /\ \A d \in Clients : d # c /\ seg[d] # None => Records(seg[c]) \cap Records(seg[d]) = {}

GoodIsLast ==
    \A k, l \in DOMAIN log : k < l /\ log[k][RT] = 0 => Of(log[k]) \cap Of(log[l]) = {}

\* The number of lines that the table has been marked with.
Marked == IF pc = "mark" THEN Len(log) - 1 ELSE Len(log)

GoodIsDone ==
    pc # "down" =>
        \A k \in 1 .. Marked : log[k][RT] = 0 => Of(log[k]) \subseteq In(mon, "DONE")

\* Between the log and the table the last line is that of the result.
LineIsCur ==
    pc = "mark" => /\ Len(log) # 0
                   /\ Of(log[Len(log)]) = Records(seg[cur.c])
                   /\ log[Len(log)][RT] = cur.rt

\* Only a failure leaves an entry behind.
EntryIsHeld ==
    bad["fails"] = 0 =>
        /\ cur.rt = 0
        /\ pc # "down" => \A c \in Clients : mon.addr[c] # None => seg[c] = mon.addr[c]

ApartInv == Apart => Held /\ GoodIsLast /\ GoodIsDone /\ LineIsCur /\ EntryIsHeld

\* The five facts it is made of.
Settled == Held /\ GoodIsLast /\ GoodIsDone /\ LineIsCur /\ EntryIsHeld

\* The records of a chunk are records of the input.
LEMMA RecordsAreJobs ==
  ASSUME NEW s \in Segment
  PROVE  Records(s) \subseteq Jobs
  BY NAssumption DEF Segment, Cells, Records, Jobs

\* Faults are only ever added.
LEMMA ApartBefore ==
  ASSUME TypeOK, [Next]_vars, Apart'
  PROVE  Apart
<1>1. bad' = bad \/ \E k \in Faults : bad' = [bad EXCEPT ![k] = @ + 1]
  BY DEF Next, vars, Give, Leave, PutOut, OutFull, PutLog, Mark, NewRound, Crash, Restart,
         Count, Faults
<1>2. bad \in [Faults -> Nat]
  BY DEF TypeOK
<1>3. \A k \in Faults : bad'[k] = 0 => bad[k] = 0
  BY <1>1, <1>2
<1> QED
  BY <1>3 DEF Apart, Faults

\* Every step leaves the chunks with a record.
LEMMA NextChunkInv ==
  ASSUME IInv, ChunkInv, [Next]_vars
  PROVE  ChunkInv'
<1>1. seg \in [Clients -> Segment \cup {None}] /\ log \in Seq(LineType)
  BY DEF IInv, TypeOK, LogInv
<1>2. CASE log' = log /\ \A c \in Clients : seg'[c] = seg[c] \/ seg'[c] = None
  BY <1>2 DEF ChunkInv
<1>3. ASSUME NEW c \in Clients, Give(c)
      PROVE  ChunkInv'
  <2>1. PICK b \in Cells, e \in Cells : b < e /\ seg' = [seg EXCEPT ![c] = <<b, e>>]
    BY <1>3 DEF Give
  <2>2. log' = log
    BY <1>3 DEF Give, files
  <2>3. \A d \in Clients : seg'[d] = IF d = c THEN <<b, e>> ELSE seg[d]
    BY <1>1, <2>1
  <2> QED
    BY <2>1, <2>2, <2>3 DEF ChunkInv
<1>4. CASE PutLog
  <2>1. pc = "log" /\ log' = Append(log, Line) /\ seg' = seg
    BY <1>4 DEF PutLog, table
  <2>2. Line[BEGIN] < Line[END]
    BY <2>1 DEF IInv, EntryInv, ChunkInv, Line, BEGIN, END
  <2>3. \A k \in DOMAIN log' : log'[k] = Line \/ (k \in DOMAIN log /\ log'[k] = log[k])
    <3> HIDE DEF Line
    <3> QED
      BY <1>1, <2>1
  <2> QED
    BY <2>1, <2>2, <2>3 DEF ChunkInv
<1>5. ASSUME NEW c \in Clients, Leave(c)
      PROVE  ChunkInv'
  BY <1>1, <1>2, <1>5 DEF Leave, files
<1>6. CASE Mark
  BY <1>1, <1>2, <1>6 DEF Mark, files
<1>7. CASE Crash
  BY <1>2, <1>7 DEF Crash
<1>8. CASE Restart \/ NewRound \/ UNCHANGED vars
  BY <1>2, <1>8 DEF Restart, NewRound, files, vars
<1>9. ASSUME NEW c \in Clients, PutOut(c) \/ OutFull(c)
      PROVE  ChunkInv'
  BY <1>2, <1>9 DEF PutOut, OutFull, table
<1> QED
  BY <1>3, <1>4, <1>5, <1>6, <1>7, <1>8, <1>9 DEF Next

\* A step on the way to the next line that takes back no record that is done.
LEMMA LinesSettled ==
  ASSUME Settled, log' = log, pc = "wait", pc' \in {"wait", "log"},
         \A j \in Jobs : mon.states[j] = "DONE" => mon'.states[j] = "DONE"
  PROVE  GoodIsLast' /\ GoodIsDone' /\ LineIsCur'
BY DEF Settled, GoodIsLast, GoodIsDone, LineIsCur, Marked, In

\* The chunk that is given was to be done: nobody computes a record of it.
LEMMA GiveSettled ==
  ASSUME IInv, Settled, NEW c \in Clients, Give(c)
  PROVE  Settled'
<1>1. PICK b \in Cells, e \in Cells :
        /\ \A i \in b .. (e - 1) : mon.states[i] = "TODO"
        /\ mon' = add_addr_idx(mon, c, b, e)
        /\ seg' = [seg EXCEPT ![c] = <<b, e>>]
  BY DEF Give
<1> DEFINE s == <<b, e>>
<1>2. /\ mon'.addr = [mon.addr EXCEPT ![c] = <<b, e>>]
      /\ \A j \in Jobs : mon'.states[j] =
            IF j \in Records(<<b, e>>) THEN "INPROGRESS" ELSE mon.states[j]
  BY <1>1, AddAddrIdxKeeps DEF IInv
<1>3. pc = "wait" /\ pc' = "wait" /\ log' = log /\ cur' = cur /\ bad' = bad
  BY DEF Give, files
<1>4. s \in Segment /\ Records(s) \subseteq Jobs /\ \A i \in Records(s) : mon.states[i] = "TODO"
  <2>1. s \in Segment
    BY DEF Segment
  <2> QED
    BY <1>1, <2>1, RecordsAreJobs DEF Records
<1>5. /\ \A d \in Clients : seg'[d] = IF d = c THEN s ELSE seg[d]
      /\ \A d \in Clients : mon'.addr[d] = IF d = c THEN s ELSE mon.addr[d]
  BY <1>1, <1>2 DEF IInv, TypeOK, MonitorType
<1>6. \A j \in Jobs : mon'.states[j] = IF j \in Records(s) THEN "INPROGRESS" ELSE mon.states[j]
  BY <1>2
<1> HIDE DEF s
<1>7. \A d \in Clients : seg[d] # None => Records(seg[d]) \subseteq Jobs
  BY RecordsAreJobs DEF IInv, TypeOK
<1>8. \A d \in Clients : seg[d] # None => Records(seg[d]) \cap Records(s) = {}
  BY <1>4 DEF Settled, Held
<1>9. Held'
  BY <1>4, <1>5, <1>6, <1>7, <1>8 DEF Settled, Held
<1>10. GoodIsLast' /\ GoodIsDone' /\ LineIsCur'
  BY <1>3, <1>4, <1>6, LinesSettled
<1>11. EntryIsHeld'
  BY <1>3, <1>5 DEF Settled, EntryIsHeld
<1> QED
  BY <1>9, <1>10, <1>11 DEF Settled

\* A client that leaves gives back what it computed and nothing else, for no
\* command has failed.
LEMMA LeaveSettled ==
  ASSUME IInv, Settled, NEW c \in Clients, Leave(c), Apart'
  PROVE  Settled'
<1>1. /\ mon.addr[c] # None /\ mon' = exists_addr_idx(mon, c)
      /\ seg' = [seg EXCEPT ![c] = None]
      /\ pc = "wait" /\ pc' = "wait" /\ log' = log /\ cur' = cur
      /\ bad' = [bad EXCEPT !["leaves"] = @ + 1]
  BY DEF Leave, files, Count
<1>2. /\ mon'.addr = [mon.addr EXCEPT ![c] = None]
      /\ \A j \in Jobs : mon'.states[j] =
            IF mon.addr[c] # None /\ j \in Records(mon.addr[c])
            THEN "TODO" ELSE mon.states[j]
  BY <1>1, ExistsAddrIdxKeeps DEF IInv
<1>3. bad["fails"] = 0 /\ bad'["fails"] = 0
  <2>1. bad \in [Faults -> Nat] /\ "leaves" \in Faults /\ "fails" \in Faults
    BY DEF IInv, TypeOK, Faults
  <2>2. bad'["leaves"] # 0 /\ bad'["fails"] = bad["fails"]
    BY <1>1, <2>1
  <2> QED
    BY <2>2 DEF Apart
<1>4. seg[c] = mon.addr[c] /\ seg[c] # None
  BY <1>1, <1>3 DEF Settled, EntryIsHeld
<1>5. \A j \in Jobs : mon'.states[j] = IF j \in Records(seg[c]) THEN "TODO" ELSE mon.states[j]
  BY <1>2, <1>4
<1>6. /\ \A d \in Clients : seg'[d] = IF d = c THEN None ELSE seg[d]
      /\ \A d \in Clients : mon'.addr[d] = IF d = c THEN None ELSE mon.addr[d]
  BY <1>1, <1>2 DEF IInv, TypeOK, MonitorType
<1>7. \A d \in Clients : seg[d] # None => Records(seg[d]) \subseteq Jobs
  BY RecordsAreJobs DEF IInv, TypeOK
<1>8. Held'
  BY <1>4, <1>5, <1>6, <1>7 DEF Settled, Held
<1>9. GoodIsLast' /\ GoodIsDone' /\ LineIsCur'
  <2>1. \A j \in Jobs : mon.states[j] = "DONE" => j \notin Records(seg[c])
    BY <1>4 DEF Settled, Held
  <2> QED
    BY <1>1, <1>5, <2>1, LinesSettled
<1>10. EntryIsHeld'
  BY <1>1, <1>3, <1>6 DEF Settled, EntryIsHeld
<1> QED
  BY <1>8, <1>9, <1>10 DEF Settled

\* The output is written; a failure is counted.
LEMMA PutOutSettled ==
  ASSUME IInv, Settled, NEW c \in Clients, PutOut(c)
  PROVE  Settled'
<1>1. PICK r \in {0, 1} :
        /\ IF r = 1 THEN bad["fails"] < MaxFails /\ Count("fails") ELSE UNCHANGED bad
        /\ cur' = [c |-> c, rt |-> r, ob |-> Tellp(out), oe |-> Tellp(out')]
  BY DEF PutOut
<1>2. pc = "wait" /\ pc' = "log" /\ log' = log /\ mon' = mon /\ seg' = seg
  BY DEF PutOut, table
<1>3. bad'["fails"] = 0 => r = 0 /\ bad["fails"] = 0
  <2>1. bad \in [Faults -> Nat] /\ "fails" \in Faults
    BY DEF IInv, TypeOK, Faults
  <2> QED
    BY <1>1, <2>1 DEF Count
<1>4. Held'
  BY <1>2 DEF Settled, Held
<1>5. GoodIsLast' /\ GoodIsDone' /\ LineIsCur'
  BY <1>2, LinesSettled
<1>6. EntryIsHeld'
  BY <1>1, <1>2, <1>3 DEF Settled, EntryIsHeld
<1> QED
  BY <1>4, <1>5, <1>6 DEF Settled

\* The new line is about records in progress, of which no good line is.
LEMMA PutLogSettled ==
  ASSUME IInv, Settled, PutLog
  PROVE  Settled'
<1> DEFINE n == Len(log)
           s == seg[cur.c]
<1>1. /\ pc = "log" /\ pc' = "mark" /\ log' = Append(log, Line)
      /\ mon' = mon /\ seg' = seg /\ cur' = cur /\ bad' = bad
  BY DEF PutLog, table
<1>2. /\ Of(Line) = Records(s) /\ Line[RT] = cur.rt
  BY DEF Of, Line, Records, BEGIN, END, RT
<1>3. /\ n \in Nat /\ DOMAIN log = 1 .. n /\ DOMAIN log' = 1 .. (n + 1) /\ Len(log') = n + 1
      /\ \A k \in 1 .. n : log'[k] = log[k]
      /\ log'[n + 1] = Line
  <2>1. log \in Seq(LineType)
    BY DEF IInv, LogInv
  <2> HIDE DEF Line
  <2> QED
    BY <1>1, <2>1
<1>4. cur.c \in Clients /\ s # None
  BY <1>1 DEF IInv, EntryInv
<1> HIDE DEF n
<1>5. \A k \in 1 .. n : log[k][RT] = 0 => Of(log[k]) \subseteq In(mon, "DONE")
  BY <1>1 DEF Settled, GoodIsDone, Marked, n
<1>6. Held'
  BY <1>1 DEF Settled, Held
<1>7. \A k \in 1 .. n : log[k][RT] = 0 => Of(log[k]) \cap Records(s) = {}
  BY <1>4, <1>5 DEF Settled, Held, In
<1>8. GoodIsLast'
  <2> SUFFICES ASSUME NEW k \in 1 .. (n + 1), NEW l \in 1 .. (n + 1), k < l,
                      log'[k][RT] = 0
               PROVE  Of(log'[k]) \cap Of(log'[l]) = {}
    BY <1>3 DEF GoodIsLast
  <2>1. k \in 1 .. n /\ log'[k] = log[k]
    BY <1>3
  <2>2. CASE l = n + 1
    <3>1. Of(log'[l]) = Records(s)
      BY <1>2, <1>3, <2>2
    <3> QED
      BY <1>7, <2>1, <3>1
  <2>3. CASE l # n + 1
    <3>1. l \in 1 .. n /\ log'[l] = log[l]
      BY <1>3, <2>3
    <3> QED
      BY <1>3, <2>1, <3>1 DEF Settled, GoodIsLast
  <2> QED
    BY <2>2, <2>3
<1>9. GoodIsDone'
  <2>1. Marked' = n
    BY <1>1, <1>3 DEF Marked
  <2> QED
    BY <1>1, <1>3, <1>5, <2>1 DEF GoodIsDone
<1>10. LineIsCur'
  BY <1>1, <1>2, <1>3 DEF LineIsCur
<1>11. EntryIsHeld'
  BY <1>1 DEF Settled, EntryIsHeld
<1> QED
  BY <1>6, <1>8, <1>9, <1>10, <1>11 DEF Settled

\* The records of the last line were in progress; a good one is marked done.
LEMMA MarkSettled ==
  ASSUME IInv, Settled, Mark
  PROVE  Settled'
<1> DEFINE n == Len(log)
           s == seg[cur.c]
<1>1. /\ pc = "mark" /\ pc' = "wait" /\ cur' = Nothing /\ log' = log /\ bad' = bad
      /\ seg' = [seg EXCEPT ![cur.c] = None]
  BY DEF Mark, files
<1>2. /\ \A c \in Clients : c # cur.c => mon'.addr[c] = mon.addr[c]
      /\ cur.rt = 0 => mon'.addr[cur.c] = None
      /\ \A j \in Jobs : mon'.states[j] =
            IF j \in Records(s) THEN IF cur.rt = 0 THEN "DONE" ELSE "FAIL"
            ELSE mon.states[j]
  BY MarkTags
<1>3. cur.c \in Clients /\ s # None /\ Records(s) \subseteq Jobs
  BY <1>1, RecordsAreJobs DEF IInv, EntryInv, TypeOK
<1>4. n \in Nat /\ n # 0 /\ DOMAIN log = 1 .. n
      /\ Of(log[n]) = Records(s) /\ log[n][RT] = cur.rt
  BY <1>1 DEF IInv, LogInv, Settled, LineIsCur
<1>5. \A c \in Clients : seg'[c] = IF c = cur.c THEN None ELSE seg[c]
  BY <1>1 DEF IInv, TypeOK
<1> HIDE DEF n
<1>6. Held'
  <2>1. \A c \in Clients : seg[c] # None => Records(seg[c]) \subseteq Jobs
    BY RecordsAreJobs DEF IInv, TypeOK
  <2> QED
    BY <1>2, <1>3, <1>5, <2>1 DEF Settled, Held
<1>7. GoodIsLast' /\ LineIsCur'
  BY <1>1 DEF Settled, GoodIsLast, LineIsCur
<1>8. GoodIsDone'
  <2> SUFFICES ASSUME NEW k \in 1 .. n, log[k][RT] = 0, NEW j \in Of(log[k])
               PROVE  j \in Jobs /\ mon'.states[j] = "DONE"
    BY <1>1 DEF GoodIsDone, Marked, In, n
  <2>1. CASE k = n
    BY <1>2, <1>3, <1>4, <2>1
  <2>2. CASE k # n
    <3>1. k \in 1 .. (n - 1)
      BY <1>4, <2>2
    <3>2. j \in Jobs /\ mon.states[j] = "DONE"
      BY <1>1, <3>1 DEF Settled, GoodIsDone, Marked, In, n
    <3>3. j \notin Records(s)
      BY <1>3, <3>2 DEF Settled, Held
    <3> QED
      BY <1>2, <3>2, <3>3
  <2> QED
    BY <2>1, <2>2
<1>9. EntryIsHeld'
  BY <1>1, <1>2, <1>5 DEF Settled, EntryIsHeld, Nothing
<1> QED
  BY <1>6, <1>7, <1>8, <1>9 DEF Settled

\* A new round turns over failed records only.
LEMMA NewRoundSettled ==
  ASSUME IInv, Settled, NewRound
  PROVE  Settled'
<1>1. /\ pc = "wait" /\ pc' = "wait" /\ log' = log /\ cur' = cur /\ bad' = bad /\ seg' = seg
      /\ mon' = chgstate(mon, "FAIL", "TODO")
  BY DEF NewRound, files
<1>2. /\ mon'.addr = mon.addr
      /\ \A j \in Jobs : mon.states[j] # "FAIL" => mon'.states[j] = mon.states[j]
  BY <1>1, ChgStateKeeps DEF IInv, State
<1>3. \A c \in Clients : seg[c] # None => Records(seg[c]) \subseteq Jobs
  BY RecordsAreJobs DEF IInv, TypeOK
<1>4. Held'
  BY <1>1, <1>2, <1>3 DEF Settled, Held
<1>5. GoodIsLast' /\ GoodIsDone' /\ LineIsCur'
  BY <1>1, <1>2, LinesSettled
<1>6. EntryIsHeld'
  BY <1>1, <1>2 DEF Settled, EntryIsHeld
<1> QED
  BY <1>4, <1>5, <1>6 DEF Settled

\* A server that is down computes nothing, and its lines are as they were.
LEMMA CrashSettled ==
  ASSUME IInv, Settled, Crash
  PROVE  Settled'
<1>1. /\ pc' = "down" /\ log' = log /\ cur' = Nothing
      /\ \A c \in Clients : seg'[c] = None
  BY DEF Crash
<1> QED
  BY <1>1 DEF Settled, Held, GoodIsLast, GoodIsDone, LineIsCur, EntryIsHeld, Nothing

\* A good line is the last one about its records: reading the log finds them.
LEMMA GoodIsRead ==
  ASSUME log \in Seq(LineType), GoodIsLast, NEW k \in DOMAIN log, log[k][RT] = 0,
         NEW j \in Of(log[k])
  PROVE  LastLine(log, j) = "ok"
<1> DEFINE n == Len(log)
           A == {i \in DOMAIN log : log[i][BEGIN] <= j /\ j < log[i][END]}
<1>1. n \in Nat /\ DOMAIN log = 1 .. n
  OBVIOUS
<1>2. \A i \in DOMAIN log : log[i][BEGIN] \in Int /\ log[i][END] \in Int
  <2>1. \A i \in 1 .. n : log[i] \in LineType
    BY <1>1, ElementOfSeq
  <2>2. \A l \in LineType : l[BEGIN] \in Int /\ l[END] \in Int
    BY NAssumption DEF LineType, Cells
  <2> HIDE DEF n
  <2> QED
    BY <1>1, <2>1, <2>2
<1>3. \A i \in DOMAIN log : i \in A <=> j \in Of(log[i])
  <2>1. j \in Int
    BY <1>2 DEF Of
  <2> QED
    BY <1>2, <2>1 DEF Of
<1>4. LastLine(log, j) = IF A = {} THEN "none"
                         ELSE IF log[Max(A)][RT] = 0 THEN "ok" ELSE "fail"
  BY DEF LastLine
<1>5. k \in A /\ A \in SUBSET (1 .. n)
  BY <1>1, <1>3
<1> HIDE DEF A, n
<1>6. Max(A) \in A /\ k <= Max(A)
  BY <1>1, <1>5, MaxIsGreatest
<1>7. ~(k < Max(A))
  BY <1>1, <1>3, <1>5, <1>6 DEF GoodIsLast
<1>8. Max(A) = k
  BY <1>1, <1>5, <1>6, <1>7
<1> QED
  BY <1>4, <1>5, <1>8

\* A server that starts again counts the records of every good line.
LEMMA RestartSettled ==
  ASSUME IInv, ChunkInv, Settled, Restart
  PROVE  Settled'
<1>1. /\ pc = "down" /\ pc' = "wait" /\ log' = log /\ cur' = cur /\ bad' = bad /\ seg' = seg
      /\ mon' = ReadLog(log)
  BY DEF Restart
<1>2. log \in Seq(LineType) /\ DOMAIN log = 1 .. Len(log) /\ \A c \in Clients : seg[c] = None
  BY <1>1 DEF IInv, LogInv, EntryInv
<1>3. TableOf(mon', log)
  BY <1>1, ReadLogIs DEF IInv, LogInv
<1>4. Held' /\ GoodIsLast' /\ LineIsCur'
  BY <1>1, <1>2 DEF Settled, Held, GoodIsLast, LineIsCur
<1>5. GoodIsDone'
  <2> SUFFICES ASSUME NEW k \in DOMAIN log, log[k][RT] = 0, NEW j \in Of(log[k])
               PROVE  j \in Jobs /\ mon'.states[j] = "DONE"
    BY <1>1, <1>2 DEF GoodIsDone, Marked, In
  <2>1. LastLine(log, j) = "ok"
    BY <1>2, GoodIsRead DEF Settled
  <2>2. j \in Jobs
    <3>1. log[k] \in LineType
      BY <1>2, ElementOfSeq
    <3> QED
      BY <3>1, NAssumption DEF LineType, Cells, Jobs, Of
  <2> QED
    BY <1>3, <2>1, <2>2 DEF TableOf
<1>6. EntryIsHeld'
  BY <1>1, <1>2, <1>3 DEF Settled, EntryIsHeld, TableOf
<1> QED
  BY <1>4, <1>5, <1>6 DEF Settled

\* Every step keeps the invariant.
LEMMA NextApartInv ==
  ASSUME IInv, ChunkInv, ApartInv, [Next]_vars
  PROVE  ApartInv'
<1> SUFFICES ASSUME Apart'
             PROVE  Settled'
  BY DEF ApartInv, Settled
<1>1. Settled
  BY ApartBefore DEF ApartInv, Settled, IInv
<1>2. ASSUME NEW c \in Clients, OutFull(c)
      PROVE  Settled'
  <2>1. bad'["full"] # 0
    BY <1>2 DEF OutFull, Count, Faults, IInv, TypeOK
  <2> QED
    BY <2>1 DEF Apart
<1>3. CASE UNCHANGED vars
  BY <1>1, <1>3 DEF vars, Settled, Held, GoodIsLast, GoodIsDone, Marked, LineIsCur, EntryIsHeld
<1> QED
  BY <1>1, <1>2, <1>3, GiveSettled, LeaveSettled, PutOutSettled, PutLogSettled, MarkSettled,
     NewRoundSettled, CrashSettled, RestartSettled DEF Next

-----------------------------------------------------------------------------
(* The sorted output is that of the good lines; when the check is quiet it   *)
(* is that of the first records.                                             *)

\* The records of the good lines of a log.
Good(lg) == UNION {Of(lg[k]) : k \in {l \in DOMAIN lg : lg[l][RT] = 0}}

AllInv == IInv /\ ChunkInv /\ OutInv /\ ApartInv

\* Both files are what the lemmas about the sorted output ask for.
LEMMA FilesAreWritten == AllInv /\ bad["full"] = 0 => Written(log, out)
  BY DEF AllInv, IInv, TypeOK, LogInv, ChunkInv, OutInv, LinesNameResults, Written

SortedIsGood == Apart => InOrder(Sorted, Good(log))

\* Good lines do not meet, and each is the one its begin index finds.
LEMMA GoodIsSorted == AllInv => SortedIsGood
<1> SUFFICES ASSUME AllInv, Apart
             PROVE  InOrder(Sorted, Good(log))
  BY DEF SortedIsGood
<1> DEFINE K == {i \in Keys(log) : LineOf(log, i)[RT] = 0}
           U == UNION {Of(LineOf(log, i)) : i \in K}
<1>1. Written(log, out) /\ GoodIsLast
  BY FilesAreWritten DEF AllInv, ApartInv, Apart
<1>2. \A k \in DOMAIN log : /\ log[k][BEGIN] \in Nat /\ log[k][END] \in Nat
                            /\ log[k][BEGIN] < log[k][END]
                            /\ log[k][BEGIN] \in Of(log[k])
                            /\ log[k][BEGIN] \in Keys(log)
  BY <1>1, LinesAre DEF Of, Keys
<1>3. ASSUME NEW k \in DOMAIN log, NEW l \in DOMAIN log, k # l,
             log[k][RT] = 0, log[l][RT] = 0
      PROVE  Of(log[k]) \cap Of(log[l]) = {}
  <2>1. k \in Nat /\ l \in Nat
    BY <1>1, LinesAre
  <2>2. k < l \/ l < k
    BY <1>3, <2>1
  <2> QED
    BY <1>1, <1>3, <2>2 DEF GoodIsLast
<1>4. ASSUME NEW i \in K, NEW j \in K, i < j
      PROVE  LineOf(log, i)[END] <= j
  <2>1. PICK k \in DOMAIN log : LineOf(log, i) = log[k] /\ log[k][BEGIN] = i
    BY <1>1, LineOfIs
  <2>2. PICK l \in DOMAIN log : LineOf(log, j) = log[l] /\ log[l][BEGIN] = j
    BY <1>1, LineOfIs
  <2>3. i \in Nat /\ j \in Nat /\ k # l /\ log[k][RT] = 0 /\ log[l][RT] = 0
    BY <1>2, <1>4, <2>1, <2>2
  <2>4. j \notin Of(log[k])
    BY <1>2, <1>3, <2>2, <2>3
  <2> QED
    BY <1>2, <1>4, <2>1, <2>3, <2>4 DEF Of
<1>5. InOrder(Reorder(log, out), U)
  <2> HIDE DEF K
  <2>1. K = {i \in Keys(log) : LineOf(log, i)[RT] = 0}
    BY DEF K
  <2> QED
    BY <1>1, <1>4, <2>1, ReorderIs
<1>6. ASSUME NEW l \in DOMAIN log, log[l][RT] = 0
      PROVE  log[l][BEGIN] \in K /\ LineOf(log, log[l][BEGIN]) = log[l]
  <2> DEFINE i == log[l][BEGIN]
  <2>1. i \in Keys(log)
    BY <1>2
  <2>2. PICK k \in DOMAIN log : LineOf(log, i) = log[k] /\ log[k][BEGIN] = i /\ l <= k
    BY <1>1, <2>1, LineOfIs
  <2>3. i \in Of(log[k]) /\ i \in Of(log[l])
    BY <1>2, <2>2
  <2>4. ~(l < k)
    BY <1>1, <1>6, <2>3 DEF GoodIsLast
  <2>5. k = l
    <3>1. k \in Nat /\ l \in Nat
      BY <1>1, LinesAre
    <3> QED
      BY <2>2, <2>4, <3>1
  <2> QED
    BY <1>6, <2>1, <2>2, <2>5
<1>7. \A i \in K : \E k \in DOMAIN log : LineOf(log, i) = log[k] /\ log[k][RT] = 0
  <2> SUFFICES ASSUME NEW i \in K
               PROVE  \E k \in DOMAIN log : LineOf(log, i) = log[k] /\ log[k][RT] = 0
    OBVIOUS
  <2>1. PICK k \in DOMAIN log : LineOf(log, i) = log[k]
    BY <1>1, LineOfIs
  <2> QED
    BY <2>1
<1>8. U = Good(log)
  <2> HIDE DEF K
  <2>1. \A x \in U : x \in Good(log)
    BY <1>7 DEF Good
  <2>2. \A x \in Good(log) : x \in U
    BY <1>6 DEF Good
  <2> QED
    BY <2>1, <2>2
<1> QED
  BY <1>5, <1>8 DEF Sorted

\* The segments of a log that the check is quiet about follow each other from
\* the first record on.
LEMMA QuietTiles ==
  ASSUME NEW lg, NEW o, Written(lg, o), Warnings(lg) = {}
  PROVE  \E n \in 0 .. N : InOrder(Reorder(lg, o), 0 .. (n - 1))
<1> DEFINE K == Keys(lg)
           D(i) == LineOf(lg, i)[END]
           U == UNION {Of(LineOf(lg, i)) : i \in K}
<1>1. \A i \in K : i = EndBefore(lg, i) /\ LineOf(lg, i)[RT] = 0
  BY LineOfIs DEF Warnings
<1>2. /\ K \subseteq Nat /\ K \subseteq Cells
      /\ \A i \in K : /\ D(i) \in Nat /\ D(i) <= N /\ i < D(i)
                      /\ Of(LineOf(lg, i)) = i .. (D(i) - 1)
  <2>1. ASSUME NEW i \in K
        PROVE  /\ i \in Nat /\ i \in Cells
               /\ D(i) \in Nat /\ D(i) <= N /\ i < D(i)
               /\ Of(LineOf(lg, i)) = i .. (D(i) - 1)
    <3>1. PICK k \in DOMAIN lg : LineOf(lg, i) = lg[k] /\ lg[k][BEGIN] = i
      BY LineOfIs
    <3> QED
      BY <3>1, LinesAre, NAssumption DEF Cells, Of
  <2> QED
    BY <2>1
<1>3. ASSUME NEW j \in K
      PROVE  \/ j = 0 /\ \A k \in K : ~(k < j)
             \/ \E p \in K : p < j /\ D(p) = j /\ \A k \in K : k < j => k <= p
  <2> DEFINE A == {k \in K : k < j}
  <2>1. j = IF A = {} THEN 0 ELSE D(Max(A))
    BY <1>1, <1>3 DEF EndBefore
  <2>2. CASE A = {}
    BY <2>1, <2>2
  <2>3. CASE A # {}
    <3>1. A \in SUBSET Cells
      BY <1>2
    <3>2. Max(A) \in A /\ \A k \in A : k <= Max(A)
      <4> HIDE DEF A
      <4> QED
        BY <2>3, <3>1, MaxOfCells
    <3> QED
      BY <2>1, <2>3, <3>2
  <2> QED
    BY <2>2, <2>3
<1> HIDE DEF K, D
<1>4. ASSUME NEW i0 \in K, NEW j0 \in K, i0 < j0
      PROVE  D(i0) <= j0
  <2> DEFINE T == {j \in Nat : j \in K /\ \E i \in K : i < j /\ ~(D(i) <= j)}
  <2>1. ASSUME T # {}
        PROVE  FALSE
    <3> DEFINE j == Min(T)
    <3>1. j \in T /\ \A y \in T : j <= y
      BY <2>1, MinIsLeast
    <3>2. j \in Nat /\ j \in K
      BY <3>1
    <3>3. PICK i \in K : i < j /\ ~(D(i) <= j)
      BY <3>1
    <3>4. \A y \in Nat : y < j => y \notin T
      BY <3>1
    <3> HIDE DEF j
    <3>5. PICK p \in K : p < j /\ D(p) = j /\ \A k \in K : k < j => k <= p
      BY <1>3, <3>2, <3>3
    <3>6. i \in Nat /\ p \in Nat /\ D(i) \in Nat /\ i <= p
      BY <1>2, <3>3, <3>5
    <3>7. i # p
      BY <3>2, <3>3, <3>5
    <3>8. i < p
      BY <3>6, <3>7
    <3>9. D(i) <= p
      BY <3>4, <3>5, <3>6, <3>8
    <3> QED
      BY <3>2, <3>3, <3>5, <3>6, <3>9
  <2> QED
    BY <1>2, <1>4, <2>1
<1>5. InOrder(Reorder(lg, o), U)
  <2>1. K = {i \in Keys(lg) : LineOf(lg, i)[RT] = 0}
    BY <1>1 DEF K
  <2>2. \A i, j \in K : i < j => LineOf(lg, i)[END] <= j
    BY <1>4 DEF D
  <2> QED
    BY <2>1, <2>2, ReorderIs
<1>6. CASE K = {}
  <2>1. U = 0 .. (0 - 1) /\ 0 \in 0 .. N
    BY <1>6, NAssumption
  <2> QED
    BY <1>5, <2>1
<1>7. CASE K # {}
  <2> DEFINE M == Max(K)
             n == D(M)
  <2>1. M \in K /\ \A k \in K : k <= M
    BY <1>2, <1>7, MaxOfCells
  <2> HIDE DEF M
  <2>2. n \in Nat /\ n <= N /\ M < n /\ M \in Nat
    BY <1>2, <2>1
  <2>3. 0 \in K
    <3> DEFINE m == Min(K)
    <3>1. m \in K /\ \A k \in K : m <= k
      BY <1>2, <1>7, MinIsLeast
    <3> HIDE DEF m
    <3>2. \A k \in K : k \in Nat /\ m \in Nat /\ ~(k < m)
      BY <1>2, <3>1
    <3> QED
      BY <1>3, <3>1, <3>2
  <2>4. ASSUME NEW x \in U
        PROVE  x \in 0 .. (n - 1)
    <3>1. PICK i \in K : x \in i .. (D(i) - 1)
      BY <1>2
    <3>2. i \in Nat /\ D(i) \in Nat /\ i <= M
      BY <1>2, <2>1
    <3>3. D(i) <= n
      <4>1. CASE i = M
        BY <2>2, <4>1
      <4>2. CASE i # M
        <5>1. i < M
          BY <2>2, <3>2, <4>2
        <5>2. D(i) <= M
          BY <1>4, <2>1, <5>1
        <5> QED
          BY <2>2, <3>2, <5>2
      <4> QED
        BY <4>1, <4>2
    <3> HIDE DEF n
    <3> QED
      BY <2>2, <3>1, <3>2, <3>3
  <2>5. ASSUME NEW x \in 0 .. (n - 1)
        PROVE  x \in U
    <3> DEFINE A == {k \in K : k <= x}
               B == {k \in K : x < k}
               i == Max(A)
    <3>0. x \in Nat /\ x < n
      <4> HIDE DEF n
      <4> QED
        BY <2>2
    <3>1. i \in K /\ i <= x /\ \A k \in K : k <= x => k <= i
      <4>1. A # {} /\ A \in SUBSET Cells
        <5>1. 0 <= x
          BY <3>0
        <5>2. 0 \in A
          BY <2>3, <5>1
        <5> QED
          BY <1>2, <5>2
      <4> HIDE DEF A
      <4>2. i \in A /\ \A k \in A : k <= i
        BY <4>1, MaxOfCells
      <4> QED
        BY <4>2 DEF A
    <3> HIDE DEF i
    <3>2. i \in Nat /\ D(i) \in Nat
      BY <1>2, <3>1
    <3>3. ASSUME ~(x < D(i))
          PROVE  FALSE
      <4>1. i # M
        BY <3>0, <3>3
      <4>2. x < M
        BY <2>1, <2>2, <3>0, <3>1, <3>2, <4>1
      <4>3. B # {} /\ B \subseteq Nat
        BY <1>2, <2>1, <4>2
      <4> DEFINE j == Min(B)
      <4>4. j \in B /\ \A k \in B : j <= k
        <5> HIDE DEF B
        <5> QED
          BY <4>3, MinIsLeast
      <4> HIDE DEF j
      <4>5. j \in K /\ x < j /\ j \in Nat /\ \A k \in K : x < k => j <= k
        BY <4>3, <4>4
      <4>6. PICK p \in K : p < j /\ D(p) = j /\ \A k \in K : k < j => k <= p
        <5>1. i < j
          BY <3>0, <3>1, <3>2, <4>5
        <5> QED
          BY <1>3, <3>1, <4>5, <5>1
      <4>7. p \in Nat /\ p <= x
        BY <1>2, <3>0, <4>5, <4>6
      <4>8. p <= i /\ i <= p
        <5>1. i < j
          BY <3>0, <3>1, <3>2, <4>5
        <5> QED
          BY <3>1, <4>6, <4>7, <5>1
      <4>9. p = i
        BY <3>2, <4>7, <4>8
      <4> QED
        BY <3>3, <4>5, <4>6, <4>9
    <3>4. x \in i .. (D(i) - 1)
      BY <3>0, <3>1, <3>2, <3>3
    <3> QED
      BY <1>2, <3>1, <3>4
  <2>6. U = 0 .. (n - 1)
    <3> HIDE DEF n, U
    <3> QED
      BY <2>4, <2>5
  <2>7. n \in 0 .. N
    <3> HIDE DEF n
    <3> QED
      BY <2>2, NAssumption
  <2> QED
    BY <1>5, <2>6, <2>7
<1> QED
  BY <1>6, <1>7

-----------------------------------------------------------------------------
(* The steps of the abstract store.                                          *)

\* The stored records are those of the good lines, before a step and after it.
StoredIsGood ==
    /\ Store!Stored = Good(log)
    /\ \A S : S = Good(log') => Store!Store(S)

\* The sorted output is the store's.
LEMMA SortedIsStored ==
  ASSUME InOrder(Sorted, Good(log)), InOrder(Sorted', Good(log'))
  PROVE  StoredIsGood
BY DEF StoredIsGood, Store!Stored, Store!Store, Store!InOrder, Store!ToSet, InOrder, ToSet

\* A step that leaves the log alone and gives nothing: chunks may come back.
LEMMA DropStep ==
  ASSUME StoredIsGood, log' = log,
         \A c \in Clients : seg'[c] = seg[c] \/ seg'[c] = None
  PROVE  Store!Next
<1>1. Out' \subseteq Out
  BY DEF Out
<1>2. Good(log') = Good(log)
  BY DEF Good
<1>3. Store!Store(Store!Stored)
  BY <1>2 DEF StoredIsGood
<1>4. Store!Drop
  <2> HIDE DEF Out
  <2> QED
    BY <1>1, <1>3 DEF Store!Drop
<1> QED
  BY <1>4 DEF Store!Next

\* The chunk that a client is given was to be done: it is stored nowhere and
\* nobody computes it.
LEMMA GiveStep ==
  ASSUME IInv, Settled, StoredIsGood, NEW c \in Clients, Give(c)
  PROVE  Store!Next
<1>1. PICK b \in Cells, e \in Cells :
        /\ b < e
        /\ \A i \in b .. (e - 1) : mon.states[i] = "TODO"
        /\ seg' = [seg EXCEPT ![c] = <<b, e>>]
  BY DEF Give
<1> DEFINE s == <<b, e>>
           ch == Records(s)
<1>2. pc = "wait" /\ seg[c] = None /\ log' = log
  BY DEF Give, files
<1>3. s \in Segment /\ s # None /\ ch \subseteq Jobs /\ b \in ch
  <2>1. s \in Segment
    BY DEF Segment
  <2>2. None \notin Segment
    BY NoneAssumption DEF Segment
  <2>3. b \in ch
    BY <1>1, NAssumption DEF Records, Cells
  <2> QED
    BY <2>1, <2>2, <2>3, RecordsAreJobs
<1>4. \A j \in ch : j \in Jobs /\ mon.states[j] = "TODO"
  BY <1>1, <1>3 DEF Records
<1>5. \A d \in Clients : seg'[d] = IF d = c THEN s ELSE seg[d]
  BY <1>1 DEF IInv, TypeOK
<1> HIDE DEF s
<1>6. Out' = Out \cup {ch}
  BY <1>2, <1>3, <1>5 DEF Out
<1>7. \A d \in Out : d \cap ch = {}
  BY <1>4 DEF Out, Settled, Held
<1>8. ch \cap Good(log) = {}
  <2>1. \A j \in Good(log) : j \in Jobs /\ mon.states[j] = "DONE"
    BY <1>2 DEF Good, Settled, GoodIsDone, Marked, In, IInv, LogInv
  <2> QED
    BY <1>4, <2>1
<1>9. Store!Store(Store!Stored)
  BY <1>2 DEF StoredIsGood, Good
<1>10. Store!Give(ch)
  <2> HIDE DEF ch, Out
  <2>1. ch # {}
    BY <1>3
  <2>2. ch \cap Store!Stored = {}
    BY <1>8 DEF StoredIsGood
  <2> QED
    BY <1>2, <1>6, <1>7, <1>9, <2>1, <2>2 DEF Store!Give
<1> QED
  BY <1>3, <1>10 DEF Store!Next

\* The line of a result: its chunk is stored when it is good, and only then.
LEMMA LineStep ==
  ASSUME IInv, Settled, Settled', StoredIsGood, PutLog
  PROVE  Store!Next
<1> DEFINE n == Len(log)
           ch == Records(seg[cur.c])
<1>1. pc = "log" /\ log' = Append(log, Line) /\ seg' = seg
  BY DEF PutLog, table
<1>2. Of(Line) = ch /\ Line[RT] = cur.rt /\ cur.rt \in {0, 1}
  BY DEF Of, Line, Records, BEGIN, END, RT, IInv, TypeOK
<1>3. /\ n \in Nat /\ DOMAIN log = 1 .. n /\ DOMAIN log' = 1 .. (n + 1) /\ Len(log') = n + 1
      /\ \A k \in 1 .. n : log'[k] = log[k]
      /\ log'[n + 1] = Line
  <2>1. log \in Seq(LineType)
    BY DEF IInv, LogInv
  <2> HIDE DEF Line
  <2> QED
    BY <1>1, <2>1
<1>4. cur.c \in Clients /\ seg[cur.c] # None
  BY <1>1 DEF IInv, EntryInv
<1> HIDE DEF n
<1>5. ch \in Out /\ Out' = Out
  BY <1>1, <1>4 DEF Out
<1>6. Good(log') = Good(log) \cup (IF cur.rt = 0 THEN ch ELSE {})
  <2>1. \A x \in Good(log') : x \in Good(log) \/ (cur.rt = 0 /\ x \in ch)
    <3> SUFFICES ASSUME NEW k \in 1 .. (n + 1), log'[k][RT] = 0, NEW x \in Of(log'[k])
                 PROVE  x \in Good(log) \/ (cur.rt = 0 /\ x \in ch)
      BY <1>3 DEF Good
    <3>1. CASE k = n + 1
      BY <1>2, <1>3, <3>1
    <3>2. CASE k # n + 1
      <4>1. k \in 1 .. n
        BY <1>3, <3>2
      <4> QED
        BY <1>3, <4>1 DEF Good
    <3> QED
      BY <3>1, <3>2
  <2>2. \A x \in Good(log) : x \in Good(log')
    <3>1. \A k \in DOMAIN log : k \in DOMAIN log' /\ log'[k] = log[k]
      BY <1>3
    <3> QED
      BY <3>1 DEF Good
  <2>3. cur.rt = 0 => \A x \in ch : x \in Good(log')
    <3>1. n + 1 \in DOMAIN log'
      BY <1>3
    <3> QED
      BY <1>2, <1>3, <3>1 DEF Good
  <2> QED
    BY <2>1, <2>2, <2>3
<1> HIDE DEF ch
<1>7. CASE cur.rt = 0
  <2>1. ch \cap Good(log) = {}
    <3> SUFFICES ASSUME NEW k \in 1 .. n, log[k][RT] = 0
                 PROVE  Of(log[k]) \cap ch = {}
      BY <1>3 DEF Good
    <3>1. k \in DOMAIN log' /\ n + 1 \in DOMAIN log' /\ k < n + 1
      BY <1>3
    <3> QED
      BY <1>2, <1>3, <3>1 DEF Settled, GoodIsLast
  <2>2. Store!Store(Store!Stored \cup ch)
    BY <1>6, <1>7 DEF StoredIsGood
  <2>3. Store!Commit(ch)
    BY <1>3, <1>5, <2>1, <2>2 DEF Store!Commit, StoredIsGood, n
  <2> QED
    BY <1>5, <2>3 DEF Store!Next
<1>8. CASE cur.rt # 0
  <2>1. Good(log') = Store!Stored
    BY <1>6, <1>8 DEF StoredIsGood
  <2>2. Store!Store(Store!Stored)
    BY <2>1 DEF StoredIsGood
  <2>3. Store!Fail
    BY <1>3, <1>5, <2>2 DEF Store!Fail, n
  <2> QED
    BY <2>3 DEF Store!Next
<1> QED
  BY <1>7, <1>8

-----------------------------------------------------------------------------
(* The theorems.                                                             *)

\* The inductive invariant holds in every reachable state.
THEOREM Invariance == Spec => []IInv
BY InitIInv, NextIInv, PTL DEF Spec

\* Every variable of the two files, the table and the stores keeps its type.
THEOREM TypeCorrect == Spec => []TypeOK
<1>1. IInv => TypeOK
  BY DEF IInv
<1> QED
  BY Invariance, <1>1, PTL

\* A server started on the files of one that is killed, at any moment, counts
\* every result that one had counted, but for those that a failure just logged
\* takes back (Monitor::restart).
THEOREM RestartKeepsAllDone == Spec => []RestartKeepsDone
<1>1. IInv => RestartKeepsDone
  <2> SUFFICES ASSUME IInv, pc # "down", NEW j \in In(mon, "DONE") \ Failing
               PROVE  j \in In(ReadLog(log), "DONE")
    BY DEF RestartKeepsDone
  <2>1. j \in Jobs /\ LastLine(log, j) = "ok"
    BY DEF IInv, DoneInLog, In
  <2>2. TableOf(ReadLog(log), log)
    BY ReadLogIs DEF IInv, LogInv
  <2> QED
    BY <2>1, <2>2 DEF TableOf, In
<1> QED
  BY Invariance, <1>1, PTL

\* Reading the log line by line makes the table of the last return value of
\* each record, which is what Paraload takes a restart to read.
THEOREM RestartReadsLastLines == Spec => RestartAgrees
<1> DEFINE Lines(lg) == [j \in Jobs |-> LastLine(lg, j)]
<1>1. ASSUME IInv, [Next]_vars, pc = "down", pc' = "wait"
      PROVE  mon' = restart(Lines(log))
  <2>1. Restart
    BY <1>1 DEF Next, vars, Give, Leave, PutOut, OutFull, PutLog, Mark, NewRound, Crash
  <2>2. TableOf(mon', log)
    BY <1>1, <2>1, ReadLogIs DEF Restart, IInv, LogInv
  <2>3. Lines(log) \in [Jobs -> {"none", "ok", "fail"}]
    BY DEF LastLine
  <2> HIDE DEF Lines
  <2>4. /\ MonitorOK(restart(Lines(log)))
        /\ restart(Lines(log)).addr = [c \in Clients |-> None]
        /\ \A j \in Jobs : restart(Lines(log)).states[j] =
              IF Lines(log)[j] = "ok" THEN "DONE" ELSE "TODO"
    BY <2>3, RestartKeeps
  <2>5. \A j \in Jobs : Lines(log)[j] = LastLine(log, j)
    BY DEF Lines
  <2>6. \A j \in Jobs : mon'.states[j] = restart(Lines(log)).states[j]
    BY <2>2, <2>4, <2>5 DEF TableOf
  <2> QED
    BY <2>2, <2>4, <2>6, SameTable DEF TableOf
<1>2. IInv /\ [Next]_vars =>
        [pc = "down" /\ pc' = "wait" => mon' = restart(Lines(log))]_vars
  BY <1>1
<1> QED
  BY Invariance, <1>2, PTL DEF Spec, RestartAgrees

\* While the device was never full, each line of the log names by its offsets
\* the whole result of its records, good or failed, wherever a crash cut the
\* output between two results (paraload.cpp 229-235).
THEOREM OffsetsNameResults == Spec => []LinesNameResults
<1>1. Init => OutInv
  BY DEF Init, OutInv, LinesNameResults
<1>2. OutInv => LinesNameResults
  BY DEF OutInv
<1> QED
  BY Invariance, <1>1, <1>2, NextOut, PTL DEF Spec

\* The invariant of the sorted output holds in every reachable state.
THEOREM AllInvariance == Spec => []AllInv
<1>1. Init => ChunkInv /\ OutInv /\ ApartInv
  <2>1. Init => ChunkInv /\ OutInv
    BY DEF Init, ChunkInv, OutInv, LinesNameResults
  <2>2. Init => ApartInv
    BY DEF Init, ApartInv, Held, GoodIsLast, GoodIsDone, Marked, LineIsCur, EntryIsHeld,
           Nothing, NewMonitor
  <2> QED
    BY <2>1, <2>2
<1>2. AllInv /\ [Next]_vars => AllInv'
  BY NextIInv, NextChunkInv, NextOut, NextApartInv DEF AllInv
<1> QED
  BY InitIInv, <1>1, <1>2, PTL DEF Spec, AllInv

\* While no command failed or no client left, and the device was never full, the
\* sorted output is, whenever the server waits and after any crash, the good
\* result of each record that is done, once, in the order of the input.
THEOREM SortedIsDone == Spec => []DoneIsSorted
<1>1. AllInv => DoneIsSorted
  <2> SUFFICES ASSUME AllInv, Apart, pc = "wait"
               PROVE  InOrder(Sorted, In(mon, "DONE"))
    BY DEF DoneIsSorted
  <2>1. InOrder(Sorted, Good(log))
    BY GoodIsSorted DEF SortedIsGood
  <2>2. log \in Seq(LineType) /\ DOMAIN log = 1 .. Len(log)
    BY DEF AllInv, IInv, LogInv
  <2>3. ASSUME NEW j \in Good(log)
        PROVE  j \in In(mon, "DONE")
    BY <2>2 DEF AllInv, ApartInv, GoodIsDone, Marked, Good
  <2>4. ASSUME NEW j \in In(mon, "DONE")
        PROVE  j \in Good(log)
    <3> DEFINE A == {k \in DOMAIN log : log[k][BEGIN] <= j /\ j < log[k][END]}
    <3>1. j \in Jobs /\ LastLine(log, j) = "ok"
      BY DEF AllInv, IInv, DoneInLog, Failing, In
    <3>2. LastLine(log, j) = IF A = {} THEN "none"
                             ELSE IF log[Max(A)][RT] = 0 THEN "ok" ELSE "fail"
      BY DEF LastLine
    <3>3. A # {} /\ log[Max(A)][RT] = 0
      BY <3>1, <3>2
    <3>4. Len(log) \in Nat /\ A \in SUBSET (1 .. Len(log))
      BY <2>2
    <3>5. Max(A) \in A
      <4> HIDE DEF A
      <4> QED
        BY <3>3, <3>4, MaxIsGreatest
    <3>6. PICK k \in DOMAIN log : log[k][RT] = 0 /\ log[k][BEGIN] <= j /\ j < log[k][END]
      BY <3>3, <3>5
    <3>7. log[k][BEGIN] \in Nat /\ log[k][END] \in Nat
      BY FilesAreWritten, LinesAre DEF Apart
    <3>8. j \in Of(log[k])
      BY <3>1, <3>6, <3>7, NAssumption DEF Of, Jobs
    <3> QED
      BY <3>6, <3>8 DEF Good
  <2>5. Good(log) = In(mon, "DONE")
    BY <2>3, <2>4
  <2> QED
    BY <2>1, <2>5
<1> QED
  BY AllInvariance, <1>1, PTL

\* When the check of pld-reorder.pl warns of nothing and the device was never
\* full, the sorted output is the good result of the first records, each once,
\* whatever failed, left or crashed on the way.
THEOREM QuietIsRight == Spec => []QuietCheckIsRight
<1>1. AllInv => QuietCheckIsRight
  BY FilesAreWritten, QuietTiles DEF QuietCheckIsRight, Sorted
<1> QED
  BY AllInvariance, <1>1, PTL

\* The two files implement the abstract store: as long as Apart holds, a step
\* stores the whole chunk of one client, for the first time and with its line
\* in the log, or leaves the stored results alone.
THEOREM ImplementsStore == Spec => StoreSpec
<1>1. Init => Store!Init
  <2> SUFFICES ASSUME Init
               PROVE  Sorted = <<>>
    BY DEF Init, Store!Init, Out
  <2> DEFINE p == [n \in 1 .. 1 |-> <<>>]
             E == {0} \cup {log[k][END] - 1 : k \in DOMAIN log}
  <2>1. log = <<>> /\ DOMAIN log = {}
    BY DEF Init
  <2>2. LastIndex(log) = 0
    <3>1. E = {0} /\ LastIndex(log) = Max(E)
      BY <2>1 DEF LastIndex
    <3>2. 0 \in Cells
      BY NAssumption DEF Cells
    <3> HIDE DEF E
    <3>3. Max(E) \in E
      BY <3>1, <3>2, MaxOfCells
    <3> QED
      BY <3>1, <3>3
  <2>3. Sorted = FlattenSeq(p)
    <3>1. Keys(log) = {}
      BY <2>1 DEF Keys
    <3> QED
      BY <2>2, <3>1 DEF Sorted, Reorder
  <2>4. Len(p) = 1 /\ p[1] = <<>>
    OBVIOUS
  <2> HIDE DEF p
  <2>5. FlattenSeq(p) = <<>>
    <3>1. Len(p) \in Nat \ {0}
      BY <2>4
    <3>2. PICK f : FlattenSeq(p) = f[Len(p)] /\ f[1] = p[1]
      BY <3>1, FlattenIs
    <3> QED
      BY <2>4, <3>2
  <2> QED
    BY <2>3, <2>5
<1>2. AllInv => SortedIsGood
  BY GoodIsSorted
<1>3. AllInv /\ AllInv' /\ SortedIsGood /\ SortedIsGood' /\ [Next]_vars =>
        [Apart' => [Store!Next]_<<Sorted, Len(log), Out>>]_vars
  <2> SUFFICES ASSUME AllInv, AllInv', SortedIsGood, SortedIsGood', [Next]_vars, Apart'
               PROVE  Store!Next
    OBVIOUS
  <2>1. IInv /\ Apart
    BY ApartBefore DEF AllInv, IInv
  <2>2. Settled /\ Settled'
    BY <2>1 DEF AllInv, ApartInv, Settled
  <2>3. StoredIsGood
    BY <2>1, SortedIsStored DEF SortedIsGood
  <2>4. \A c \in Clients : seg[c] \in Segment \cup {None}
    BY <2>1 DEF IInv, TypeOK
  <2>5. ASSUME NEW c \in Clients, Give(c)
        PROVE  Store!Next
    BY <2>1, <2>2, <2>3, <2>5, GiveStep
  <2>6. ASSUME NEW c \in Clients, Leave(c) \/ PutOut(c)
        PROVE  Store!Next
    <3>1. log' = log /\ (seg' = seg \/ seg' = [seg EXCEPT ![c] = None])
      BY <2>6 DEF Leave, PutOut, files, table
    <3>2. \A d \in Clients : seg'[d] = seg[d] \/ seg'[d] = None
      BY <2>1, <3>1 DEF IInv, TypeOK
    <3> QED
      BY <2>3, <3>1, <3>2, DropStep
  <2>7. ASSUME NEW c \in Clients, OutFull(c)
        PROVE  Store!Next
    <3>1. bad'["full"] # 0
      BY <2>1, <2>7 DEF OutFull, Count, Faults, IInv, TypeOK
    <3> QED
      BY <3>1 DEF Apart
  <2>8. CASE PutLog
    BY <2>1, <2>2, <2>3, <2>8, LineStep
  <2>9. CASE Mark
    <3>1. log' = log /\ seg' = [seg EXCEPT ![cur.c] = None]
      BY <2>9 DEF Mark, files
    <3>2. \A d \in Clients : seg'[d] = seg[d] \/ seg'[d] = None
      BY <2>1, <3>1 DEF IInv, TypeOK
    <3> QED
      BY <2>3, <3>1, <3>2, DropStep
  <2>10. CASE NewRound \/ Crash \/ Restart \/ UNCHANGED vars
    <3>1. log' = log /\ (seg' = seg \/ seg' = [c \in Clients |-> None])
      BY <2>10 DEF NewRound, Crash, Restart, files, vars
    <3>2. \A d \in Clients : seg'[d] = seg[d] \/ seg'[d] = None
      BY <3>1
    <3> QED
      BY <2>3, <3>1, <3>2, DropStep
  <2> QED
    BY <2>5, <2>6, <2>7, <2>8, <2>9, <2>10 DEF Next
<1> QED
  BY AllInvariance, <1>1, <1>2, <1>3, PTL DEF Spec, StoreSpec
=============================================================================
