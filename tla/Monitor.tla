------------------------------ MODULE Monitor ------------------------------
(* The job table of the server, class Monitor (Monitor.cpp).  A Monitor is   *)
(* a value: the record of its three pieces of state, and one operator per    *)
(* member function that returns the Monitor the call leaves behind.          *)
(*                                                                           *)
(*   states  the state of every record of the input; the vector has N + 1    *)
(*           cells, the last one a sentinel that the constructor leaves TODO *)
(*   count   the four counters todo, inprogress, done and fail               *)
(*   addr    current_addr_idx, the segment each connected peer was given,    *)
(*           keyed by the (address, port) of the connection                  *)
EXTENDS Integers, FiniteSets

CONSTANTS
    N,          \* number of records in the input file (Index::getsize)
    Clients,    \* the (address, port) pairs peers may connect from
    None        \* no segment

Jobs    == 0 .. (N - 1)
Cells   == 0 .. N
State   == {"TODO", "INPROGRESS", "DONE", "FAIL"}
Segment == Cells \X Cells      \* <<b, e>> stands for the records b .. e-1

ASSUME NAssumption    == N \in Nat
ASSUME NoneAssumption == None \notin Segment \cup Clients

MonitorType == [states : [Cells -> State],
                count  : [State -> Int],
                addr   : [Clients -> Segment \cup {None}]]

\* The records a segment stands for.
Records(seg) == seg[1] .. (seg[2] - 1)

\* The records that are in state t.
In(m, t) == {i \in Jobs : m.states[i] = t}

NewMonitor ==
    [states |-> [i \in Cells |-> "TODO"],
     count  |-> [t \in State |-> IF t = "TODO" THEN N ELSE 0],
     addr   |-> [c \in Clients |-> None]]

-----------------------------------------------------------------------------
\* Variant of Retag that forgets to take failed records out of their counter.
RetagKeepsFail(m, S, s) ==
    [states |-> [i \in Cells |-> IF i \in S THEN s ELSE m.states[i]],
     count  |-> [t \in State |->
         m.count[t] - (IF t = "FAIL" THEN 0
                       ELSE Cardinality({i \in S : m.states[i] = t}))
                    + (IF t = s THEN Cardinality(S) ELSE 0)],
     addr   |-> m.addr]

\* The common body of tag_segment and chgstate: put the cells of S in state s
\* and move them from the counter of their old state to the one of s.
Retag(m, S, s) ==
    [states |-> [i \in Cells |-> IF i \in S THEN s ELSE m.states[i]],
     count  |-> [t \in State |->
         m.count[t] - Cardinality({i \in S : m.states[i] = t})
                    + (IF t = s THEN Cardinality(S) ELSE 0)],
     addr   |-> m.addr]

tag_segment(m, s, b, e) ==
    IF b > N \/ e > N THEN m ELSE Retag(m, b .. (e - 1), s)

chgstate(m, s1, s2) == Retag(m, {i \in Cells : m.states[i] = s1}, s2)

\* Variant of restart that takes return value 0 for a failure.
restart_inverted(log) ==
    LET bad == Retag(NewMonitor, {i \in Jobs : log[i] = "ok"}, "TODO")
    IN  Retag(bad, {i \in Jobs : log[i] = "fail"}, "DONE")

\* Called by restart with the return value of the last line the log file has
\* for each record: every line tags its own segment, so the last one decides.
restart(log) ==
    LET bad == Retag(NewMonitor, {i \in Jobs : log[i] = "fail"}, "TODO")
    IN  Retag(bad, {i \in Jobs : log[i] = "ok"}, "DONE")

-----------------------------------------------------------------------------
\* Variant of add_addr_idx that keeps the entry a peer already has.
add_addr_idx_emplace(m, c, b, e) ==
    tag_segment(IF m.addr[c] = None THEN [m EXCEPT !.addr[c] = <<b, e>>] ELSE m,
                "INPROGRESS", b, e)

\* Hand <<b, e>> to peer c.  A segment the peer already had is overwritten.
add_addr_idx(m, c, b, e) ==
    tag_segment([m EXCEPT !.addr[c] = <<b, e>>], "INPROGRESS", b, e)

\* Variant of rem_addr_idx that forgets to erase the entry.
rem_addr_idx_no_erase(m, c) ==
    LET seg == IF m.addr[c] = None THEN <<0, 0>> ELSE m.addr[c]
    IN  tag_segment(m, "DONE", seg[1], seg[2])

\* The result of peer c is in.  operator[] makes the empty segment (0,0) for a
\* peer that has none; erase removes the entry in both cases.
rem_addr_idx(m, c) ==
    LET seg == IF m.addr[c] = None THEN <<0, 0>> ELSE m.addr[c]
    IN  tag_segment([m EXCEPT !.addr[c] = None], "DONE", seg[1], seg[2])

\* Variant of exists_addr_idx that erases the entry but leaves the records
\* of the lost segment in progress.
exists_addr_idx_no_tag(m, c) ==
    IF m.addr[c] = None THEN m ELSE [m EXCEPT !.addr[c] = None]

\* Variant of exists_addr_idx that gives the records back but keeps the entry.
exists_addr_idx_no_erase(m, c) ==
    IF m.addr[c] = None THEN m
    ELSE tag_segment(m, "TODO", m.addr[c][1], m.addr[c][2])

\* Peer c is gone: its segment, if it has one, is to be done again.  The
\* caller also gets the first record of the segment, which is m.addr[c][1].
exists_addr_idx(m, c) ==
    IF m.addr[c] = None THEN m
    ELSE tag_segment([m EXCEPT !.addr[c] = None], "TODO",
                     m.addr[c][1], m.addr[c][2])
=============================================================================
