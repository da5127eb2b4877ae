---------------------------- MODULE MonitorProofs ----------------------------
(* Facts about the operators of Monitor, for every number of records.        *)
EXTENDS Monitor, SumProofs

(***************************************************************************)
(* What every call on a Monitor may rely on and keeps: the type, the       *)
(* sentinel cell that stays TODO, and counters that count.                 *)
(***************************************************************************)
Counted(m) == \A t \in State : m.count[t] = Cardinality(In(m, t))

MonitorOK(m) == m \in MonitorType /\ m.states[N] = "TODO" /\ Counted(m)

-----------------------------------------------------------------------------
\* Subsets of the records are finite, and their sizes are natural numbers.
LEMMA JobsFinite ==
  ASSUME NEW S \in SUBSET Jobs
  PROVE  IsFiniteSet(S) /\ Cardinality(S) \in Nat
<1>1. IsFiniteSet(Jobs)
  BY NAssumption, FS_Interval DEF Jobs
<1>2. IsFiniteSet(S)
  BY <1>1, FS_Subset
<1> QED
  BY <1>2, FS_CardinalityType

-----------------------------------------------------------------------------
\* Retag moves records between states and keeps the counters right.
LEMMA RetagKeeps ==
  ASSUME NEW m, MonitorOK(m), NEW S \in SUBSET Jobs, NEW s \in State
  PROVE  /\ MonitorOK(Retag(m, S, s))
         /\ Retag(m, S, s).addr = m.addr
         /\ \A j \in Cells : Retag(m, S, s).states[j] = IF j \in S THEN s ELSE m.states[j]
<1> DEFINE r == Retag(m, S, s)
<1>1. m \in MonitorType
  BY DEF MonitorOK
<1>2. /\ r.states = [i \in Cells |-> IF i \in S THEN s ELSE m.states[i]]
      /\ r.count  = [t \in State |->
            m.count[t] - Cardinality({i \in S : m.states[i] = t})
                       + (IF t = s THEN Cardinality(S) ELSE 0)]
      /\ r.addr = m.addr
      /\ r = [states |-> r.states, count |-> r.count, addr |-> m.addr]
  BY DEF Retag
<1>3. \A t \in State : Cardinality({i \in S : m.states[i] = t}) \in Nat
  <2> TAKE t \in State
  <2> {i \in S : m.states[i] = t} \in SUBSET Jobs
    OBVIOUS
  <2> QED
    BY JobsFinite
<1>4. r \in MonitorType
  <2>1. r.states \in [Cells -> State]
    BY <1>1, <1>2 DEF MonitorType
  <2>2. r.count \in [State -> Int]
    BY <1>1, <1>2, <1>3, JobsFinite DEF MonitorType
  <2> QED
    BY <1>1, <1>2, <2>1, <2>2 DEF MonitorType
<1>5. r.states[N] = "TODO"
  BY <1>2, NAssumption DEF MonitorOK, Jobs, Cells
<1>6. Counted(r)
  <2> SUFFICES ASSUME NEW t \in State
               PROVE  r.count[t] = Cardinality(In(r, t))
    BY DEF Counted
  <2> DEFINE A == In(m, t)
             B == {i \in S : m.states[i] = t}
  <2>1. A \in SUBSET Jobs /\ B \in SUBSET Jobs /\ A \ B \in SUBSET Jobs /\ A \cap B = B
    BY DEF In
  <2>2. Cardinality(A) = m.count[t]
    BY DEF MonitorOK, Counted
  <2>3. Cardinality(A \ B) = Cardinality(A) - Cardinality(B)
    BY <2>1, JobsFinite, FS_Difference
  <2>4. CASE t = s
    <3>1. In(r, t) = (A \ B) \cup S
      BY <1>2, <2>4, NAssumption DEF In, Jobs, Cells
    <3>2. (A \ B) \cap S = {}
      BY DEF In
    <3>3. Cardinality((A \ B) \cup S) = Cardinality(A \ B) + Cardinality(S) - Cardinality((A \ B) \cap S)
      BY <2>1, JobsFinite, FS_Union
    <3>4. Cardinality((A \ B) \cap S) = 0
      BY <3>2, FS_EmptySet
    <3>5. m.count[t] \in Int /\ Cardinality(B) \in Nat /\ Cardinality(S) \in Nat
      BY <1>1, <2>1, JobsFinite DEF MonitorType
    <3> QED
      BY <1>2, <2>2, <2>3, <2>4, <3>1, <3>3, <3>4, <3>5
  <2>5. CASE t # s
    <3>1. In(r, t) = A \ B
      BY <1>2, <2>5, NAssumption DEF In, Jobs, Cells
    <3>2. m.count[t] \in Int /\ Cardinality(B) \in Nat
      BY <1>1, <2>1, JobsFinite DEF MonitorType
    <3> QED
      BY <1>2, <2>2, <2>3, <2>5, <3>1, <3>2
  <2> QED
    BY <2>4, <2>5
<1> QED
  BY <1>2, <1>4, <1>5, <1>6 DEF MonitorOK

-----------------------------------------------------------------------------
\* A call of tag_segment on a segment of the input tags its records.
LEMMA TagSegmentKeeps ==
  ASSUME NEW m, MonitorOK(m), NEW s \in State, NEW seg \in Segment
  PROVE  /\ MonitorOK(tag_segment(m, s, seg[1], seg[2]))
         /\ tag_segment(m, s, seg[1], seg[2]).addr = m.addr
         /\ \A j \in Jobs : tag_segment(m, s, seg[1], seg[2]).states[j] =
                               IF j \in Records(seg) THEN s ELSE m.states[j]
<1>1. seg[1] \in 0 .. N /\ seg[2] \in 0 .. N
  BY DEF Segment, Cells
<1>2. tag_segment(m, s, seg[1], seg[2]) = Retag(m, Records(seg), s)
  BY <1>1, NAssumption DEF tag_segment, Records
<1>3. Records(seg) \in SUBSET Jobs
  BY <1>1, NAssumption DEF Records, Jobs
<1>4. Jobs \subseteq Cells
  BY NAssumption DEF Jobs, Cells
<1> QED
  BY <1>2, <1>3, <1>4, RetagKeeps

\* A call of chgstate that starts a new round moves the failed records.
LEMMA ChgStateKeeps ==
  ASSUME NEW m, MonitorOK(m)
  PROVE  /\ MonitorOK(chgstate(m, "FAIL", "TODO"))
         /\ chgstate(m, "FAIL", "TODO").addr = m.addr
         /\ \A j \in Jobs : chgstate(m, "FAIL", "TODO").states[j] =
                               IF m.states[j] = "FAIL" THEN "TODO" ELSE m.states[j]
<1> DEFINE S == {i \in Cells : m.states[i] = "FAIL"}
<1>1. S \in SUBSET Jobs
  BY NAssumption DEF MonitorOK, Cells, Jobs
<1>2. "TODO" \in State /\ Jobs \subseteq Cells
  BY NAssumption DEF State, Jobs, Cells
<1> QED
  BY <1>1, <1>2, RetagKeeps DEF chgstate

\* An empty job table.
LEMMA NewMonitorOK ==
  MonitorOK(NewMonitor)
<1>1. In(NewMonitor, "TODO") = Jobs
  BY NAssumption DEF In, NewMonitor, Jobs, Cells
<1>2. \A t \in State : t # "TODO" => In(NewMonitor, t) = {}
  BY NAssumption DEF In, NewMonitor, Jobs, Cells
<1>3. Cardinality(Jobs) = N /\ Cardinality({}) = 0
  BY NAssumption, FS_Interval, FS_EmptySet DEF Jobs
<1>4. Counted(NewMonitor)
  BY <1>1, <1>2, <1>3 DEF Counted, NewMonitor
<1>5. NewMonitor \in MonitorType
  BY NAssumption DEF NewMonitor, MonitorType, State
<1> QED
  BY <1>4, <1>5, NAssumption DEF MonitorOK, NewMonitor, Cells

\* What restart reads back from the log file.
LEMMA RestartKeeps ==
  ASSUME NEW lg \in [Jobs -> {"none", "ok", "fail"}]
  PROVE  /\ MonitorOK(restart(lg))
         /\ restart(lg).addr = [c \in Clients |-> None]
         /\ \A j \in Jobs : restart(lg).states[j] =
                               IF lg[j] = "ok" THEN "DONE" ELSE "TODO"
<1> DEFINE bad == Retag(NewMonitor, {i \in Jobs : lg[i] = "fail"}, "TODO")
<1>0. "TODO" \in State /\ "DONE" \in State /\ Jobs \subseteq Cells
  BY NAssumption DEF State, Jobs, Cells
<1>1. /\ MonitorOK(bad)
      /\ bad.addr = NewMonitor.addr
      /\ \A j \in Jobs : bad.states[j] = "TODO"
  <2> DEFINE B == {i \in Jobs : lg[i] = "fail"}
  <2>1. B \in SUBSET Jobs
    OBVIOUS
  <2>2. \A j \in Jobs : NewMonitor.states[j] = "TODO"
    BY <1>0 DEF NewMonitor
  <2> HIDE DEF B
  <2>3. /\ MonitorOK(Retag(NewMonitor, B, "TODO"))
        /\ Retag(NewMonitor, B, "TODO").addr = NewMonitor.addr
        /\ \A j \in Cells : Retag(NewMonitor, B, "TODO").states[j] =
                               IF j \in B THEN "TODO" ELSE NewMonitor.states[j]
    BY <1>0, <2>1, NewMonitorOK, RetagKeeps
  <2> QED
    BY <1>0, <2>2, <2>3 DEF B
<1>2. {i \in Jobs : lg[i] = "ok"} \in SUBSET Jobs
  OBVIOUS
<1>3. restart(lg) = Retag(bad, {i \in Jobs : lg[i] = "ok"}, "DONE")
  BY DEF restart
<1>4. NewMonitor.addr = [c \in Clients |-> None]
  BY DEF NewMonitor
<1> HIDE DEF bad
<1> QED
  BY <1>0, <1>1, <1>2, <1>3, <1>4, RetagKeeps

-----------------------------------------------------------------------------
\* The three calls on current_addr_idx.
LEMMA AddAddrIdxKeeps ==
  ASSUME NEW m, MonitorOK(m), NEW c \in Clients, NEW b \in Cells, NEW e \in Cells
  PROVE  /\ MonitorOK(add_addr_idx(m, c, b, e))
         /\ add_addr_idx(m, c, b, e).addr = [m.addr EXCEPT ![c] = <<b, e>>]
         /\ \A j \in Jobs : add_addr_idx(m, c, b, e).states[j] =
                               IF j \in Records(<<b, e>>) THEN "INPROGRESS" ELSE m.states[j]
<1> DEFINE m2 == [m EXCEPT !.addr[c] = <<b, e>>]
<1>1. <<b, e>> \in Segment /\ "INPROGRESS" \in State
  BY DEF Segment, State
<1>2. MonitorOK(m2) /\ m2.states = m.states /\ m2.addr = [m.addr EXCEPT ![c] = <<b, e>>]
  BY <1>1 DEF MonitorOK, MonitorType, Counted, In
<1>3. add_addr_idx(m, c, b, e) = tag_segment(m2, "INPROGRESS", b, e)
  BY DEF add_addr_idx
<1> HIDE DEF m2
<1>4. \A sg \in Segment :
        /\ MonitorOK(tag_segment(m2, "INPROGRESS", sg[1], sg[2]))
        /\ tag_segment(m2, "INPROGRESS", sg[1], sg[2]).addr = m2.addr
        /\ \A j \in Jobs : tag_segment(m2, "INPROGRESS", sg[1], sg[2]).states[j] =
                             IF j \in Records(sg) THEN "INPROGRESS" ELSE m2.states[j]
  BY <1>1, <1>2, TagSegmentKeeps
<1> QED
  BY <1>1, <1>2, <1>3, <1>4

\* A result is in: the records of the peer's entry are done, the entry is gone.
LEMMA RemAddrIdxKeeps ==
  ASSUME NEW m, MonitorOK(m), NEW c \in Clients
  PROVE  /\ MonitorOK(rem_addr_idx(m, c))
         /\ rem_addr_idx(m, c).addr = [m.addr EXCEPT ![c] = None]
         /\ \A j \in Jobs : rem_addr_idx(m, c).states[j] =
                               IF m.addr[c] # None /\ j \in Records(m.addr[c])
                               THEN "DONE" ELSE m.states[j]
<1> DEFINE m2  == [m EXCEPT !.addr[c] = None]
           sg0 == IF m.addr[c] = None THEN <<0, 0>> ELSE m.addr[c]
<1>1. m.addr[c] \in Segment \cup {None} /\ "DONE" \in State
  BY DEF MonitorOK, MonitorType, State
<1>2. sg0 \in Segment
  BY <1>1, NAssumption DEF Segment, Cells
<1>3. MonitorOK(m2) /\ m2.states = m.states /\ m2.addr = [m.addr EXCEPT ![c] = None]
  BY DEF MonitorOK, MonitorType, Counted, In
<1>4. rem_addr_idx(m, c) = tag_segment(m2, "DONE", sg0[1], sg0[2])
  BY DEF rem_addr_idx
<1>5. \A j \in Jobs : j \in Records(sg0) <=> m.addr[c] # None /\ j \in Records(m.addr[c])
  BY DEF Records
<1> HIDE DEF m2, sg0
<1> QED
  BY <1>1, <1>2, <1>3, <1>4, <1>5, TagSegmentKeeps

\* A peer is gone: the records of its entry, done or not, are to be done again.
LEMMA ExistsAddrIdxKeeps ==
  ASSUME NEW m, MonitorOK(m), NEW c \in Clients
  PROVE  /\ MonitorOK(exists_addr_idx(m, c))
         /\ exists_addr_idx(m, c).addr = [m.addr EXCEPT ![c] = None]
         /\ \A j \in Jobs : exists_addr_idx(m, c).states[j] =
                               IF m.addr[c] # None /\ j \in Records(m.addr[c])
                               THEN "TODO" ELSE m.states[j]
<1> DEFINE m2 == [m EXCEPT !.addr[c] = None]
<1>1. m.addr[c] \in Segment \cup {None} /\ "TODO" \in State
  BY DEF MonitorOK, MonitorType, State
<1>2. MonitorOK(m2) /\ m2.states = m.states /\ m2.addr = [m.addr EXCEPT ![c] = None]
  BY DEF MonitorOK, MonitorType, Counted, In
<1>3. CASE m.addr[c] = None
  <2>1. exists_addr_idx(m, c) = m /\ m.addr = [m.addr EXCEPT ![c] = None]
    BY <1>3 DEF exists_addr_idx, MonitorOK, MonitorType
  <2> QED
    BY <1>3, <2>1
<1>4. CASE m.addr[c] # None
  <2>1. exists_addr_idx(m, c) = tag_segment(m2, "TODO", m.addr[c][1], m.addr[c][2])
    BY <1>4 DEF exists_addr_idx
  <2> HIDE DEF m2
  <2> QED
    BY <1>1, <1>2, <1>4, <2>1, TagSegmentKeeps
<1> QED
  BY <1>3, <1>4

=============================================================================
