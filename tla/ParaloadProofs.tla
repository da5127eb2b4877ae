--------------------------- MODULE ParaloadProofs ---------------------------
(* Safety of the server for every number of records and peers, every policy, *)
(* any commands failing, and any number of deaths, losses and restarts; and, *)
(* in the second half, what it promises only while some faults do not occur. *)
EXTENDS ParaloadLease, MonitorProofs

-----------------------------------------------------------------------------
\* The chunk made from a cursor inside the input: it starts and ends inside
\* the input, not before the cursor, and all its records are to be done.
LEMMA MakeChunkGives ==
  ASSUME NEW m, NEW f \in FetchType
  PROVE  /\ make_chunk(m, f) \in [begin : Cells, end : Cells]
         /\ f.end <= make_chunk(m, f).begin
         /\ make_chunk(m, f).begin <= make_chunk(m, f).end
         /\ \A j \in make_chunk(m, f).begin .. (make_chunk(m, f).end - 1) :
               m.states[j] = "TODO"
         /\ \A j \in f.end .. (make_chunk(m, f).begin - 1) : m.states[j] # "TODO"
<1> DEFINE b == FirstTodo(m, f.end)
           e == ChunkEnd(m, b)
           A == {i \in f.end .. N : i = N \/ m.states[i] = "TODO"}
           B == {x \in b .. N : x = N \/ m.states[x] # "TODO" \/ Work[x] - Work[b] >= Limit}
<1>1. f.end \in 0 .. N
  BY DEF FetchType, Cells
<1>2. A \subseteq Nat /\ N \in A
  BY <1>1, NAssumption
<1>3. b \in A /\ \A y \in A : b <= y
  <2>1. b = Min(A)
    BY DEF FirstTodo
  <2> HIDE DEF A, b
  <2> QED
    BY <1>2, <2>1, MinIsLeast
<1>4. b \in 0 .. N /\ f.end <= b
  BY <1>1, <1>3, NAssumption
<1> HIDE DEF b
<1>5. B \subseteq Nat /\ N \in B
  BY <1>4, NAssumption
<1>6. e \in B /\ \A y \in B : e <= y
  <2>1. e = Min(B)
    BY DEF ChunkEnd
  <2> HIDE DEF B, e
  <2> QED
    BY <1>5, <2>1, MinIsLeast
<1>7. e \in 0 .. N /\ b <= e
  BY <1>4, <1>6, NAssumption
<1> HIDE DEF e
<1>8. make_chunk(m, f) = [begin |-> b, end |-> e]
  BY DEF make_chunk, b, e
<1>9. \A j \in b .. (e - 1) : m.states[j] = "TODO"
  <2> SUFFICES ASSUME NEW j \in b .. (e - 1), m.states[j] # "TODO"
               PROVE  FALSE
    OBVIOUS
  <2>1. j \in B
    BY <1>4, <1>7, NAssumption
  <2> QED
    BY <1>4, <1>6, <1>7, <2>1
<1>10. \A j \in f.end .. (b - 1) : m.states[j] # "TODO"
  <2> SUFFICES ASSUME NEW j \in f.end .. (b - 1), m.states[j] = "TODO"
               PROVE  FALSE
    OBVIOUS
  <2>1. j \in A
    BY <1>1, <1>4, NAssumption
  <2> QED
    BY <1>1, <1>3, <1>4, <2>1
<1> QED
  BY <1>4, <1>7, <1>8, <1>9, <1>10 DEF Cells

\* Rewinding keeps the cursor inside the input.
LEMMA RewindKeeps ==
  ASSUME NEW f \in FetchType, NEW offset \in Cells \cup {NPOS}
  PROVE  rewind(f, offset) \in FetchType
BY NAssumption DEF FetchType, rewind, ULess, NPOS, Cells

-----------------------------------------------------------------------------
(* The inductive invariant.  PeerInv ties what the server knows of a peer to *)
(* where the process of that peer is: a process that has a chunk has the     *)
(* entry the server made for it, and is either running its command or has    *)
(* sent PLD_PUT; a peer without a connection has no entry.                   *)

PeerInv ==
    \A c \in Clients :
        /\ proc[c] \in {"idle", "running", "wait"} => conn[c] = "open"
        /\ proc[c] = "auth" => conn[c] = "backlog"
        /\ conn[c] # "open" => mon.addr[c] = None /\ word[c] = "none"
        /\ seg[c] # None =>
              /\ mon.addr[c] = seg[c]
              /\ \/ proc[c] = "running" /\ word[c] = "none"
                 \/ proc[c] = "wait" /\ word[c] = "PUT"
        /\ proc[c] = "running" \/ (word[c] = "PUT" /\ proc[c] # "off") => seg[c] # None

IInv == TypeOK /\ MonitorOK(mon) /\ PeerInv /\ DoneIsLogged

-----------------------------------------------------------------------------
\* What the head of the principal loop does to the state it is given: failed
\* records may become records to be done, and nothing else changes state.
LEMMA LoopHeadKeeps ==
  ASSUME NEW m, MonitorOK(m), NEW f \in FetchType, NEW r \in 0 .. Rounds
  PROVE  LET s == LoopHead(m, f, r)
         IN  /\ MonitorOK(s.mon)
             /\ s.mon.addr = m.addr
             /\ \A j \in Jobs : \/ s.mon.states[j] = m.states[j]
                                \/ m.states[j] = "FAIL" /\ s.mon.states[j] = "TODO"
             /\ s.fetch \in FetchType
             /\ s.round \in 0 .. Rounds
             /\ s.phase \in {"main", "drain"}
             /\ s.stop \in BOOLEAN
<1> DEFINE again == NewRound(m, f)
           m2    == IF again THEN chgstate(m, "FAIL", "TODO") ELSE m
           f2    == IF again THEN rewind(f, 0) ELSE f
           r2    == IF again THEN r + 1 ELSE r
<1>1. /\ MonitorOK(m2)
      /\ m2.addr = m.addr
      /\ \A j \in Jobs : \/ m2.states[j] = m.states[j]
                         \/ m.states[j] = "FAIL" /\ m2.states[j] = "TODO"
  <2>1. CASE again
    BY <2>1, ChgStateKeeps
  <2>2. CASE ~again
    BY <2>2
  <2> QED
    BY <2>1, <2>2
<1>2. f2 \in FetchType
  <2>1. 0 \in Cells \cup {NPOS}
    BY NAssumption DEF Cells
  <2> QED
    BY <2>1, RewindKeeps
<1>3. LoopHead(m, f, r) =
        IF r < Rounds /\ m.count["DONE"] # N
        THEN [mon |-> m2, fetch |-> f2, round |-> r2, phase |-> "main",
              stop |-> m2.count["TODO"] = 0]
        ELSE [mon |-> m, fetch |-> f, round |-> r, phase |-> "drain", stop |-> TRUE]
  BY DEF LoopHead
<1> HIDE DEF m2, f2
<1>4. CASE r < Rounds /\ m.count["DONE"] # N
  <2>1. r2 \in 0 .. Rounds
    BY <1>4, RoundsAssumption
  <2> HIDE DEF r2
  <2>2. LoopHead(m, f, r) = [mon |-> m2, fetch |-> f2, round |-> r2, phase |-> "main",
                             stop |-> m2.count["TODO"] = 0]
    BY <1>3, <1>4
  <2>3. (m2.count["TODO"] = 0) \in BOOLEAN
    OBVIOUS
  <2> QED
    BY <1>1, <1>2, <2>1, <2>2, <2>3
<1>5. CASE ~(r < Rounds /\ m.count["DONE"] # N)
  <2>1. LoopHead(m, f, r) = [mon |-> m, fetch |-> f, round |-> r, phase |-> "drain",
                             stop |-> TRUE]
    BY <1>3, <1>5
  <2> QED
    BY <2>1
<1> QED
  BY <1>4, <1>5

\* The same for the step of the server that ends with it.
LEMMA GoRoundKeeps ==
  ASSUME TypeOK, NEW m, MonitorOK(m), NEW f \in FetchType, GoRound(m, f)
  PROVE  /\ MonitorOK(mon')
         /\ mon'.addr = m.addr
         /\ \A j \in Jobs : \/ mon'.states[j] = m.states[j]
                            \/ m.states[j] = "FAIL" /\ mon'.states[j] = "TODO"
         /\ fetch' \in FetchType
         /\ round' \in 0 .. Rounds
         /\ phase' \in {"main", "drain", "exited"}
         /\ stop' \in BOOLEAN
<1>1. CASE phase = "main"
  <2> DEFINE s == LoopHead(m, f, round)
  <2>1. round \in 0 .. Rounds
    BY DEF TypeOK
  <2>2. /\ mon' = s.mon
        /\ fetch' = s.fetch
        /\ round' = s.round
        /\ phase' = s.phase
        /\ stop' = s.stop
    BY <1>1 DEF GoRound
  <2>3. /\ MonitorOK(s.mon)
        /\ s.mon.addr = m.addr
        /\ \A j \in Jobs : \/ s.mon.states[j] = m.states[j]
                           \/ m.states[j] = "FAIL" /\ s.mon.states[j] = "TODO"
        /\ s.fetch \in FetchType
        /\ s.round \in 0 .. Rounds
        /\ s.phase \in {"main", "drain"}
        /\ s.stop \in BOOLEAN
    BY <2>1, LoopHeadKeeps
  <2> HIDE DEF s
  <2> QED
    BY <2>2, <2>3
<1>2. CASE phase # "main"
  BY <1>2 DEF GoRound, TypeOK
<1> QED
  BY <1>1, <1>2
-----------------------------------------------------------------------------
\* The invariant holds at the start of the server.
LEMMA InitIInv ==
  Init => IInv
<1> SUFFICES ASSUME Init PROVE IInv
  OBVIOUS
<1> DEFINE s == LoopHead(NewMonitor, NewFetch, 0)
<1>1. NewFetch \in FetchType /\ 0 \in 0 .. Rounds
  BY NAssumption, RoundsAssumption DEF NewFetch, FetchType, Cells
<1>2. /\ MonitorOK(s.mon)
      /\ s.mon.addr = NewMonitor.addr
      /\ \A j \in Jobs : \/ s.mon.states[j] = NewMonitor.states[j]
                         \/ NewMonitor.states[j] = "FAIL" /\ s.mon.states[j] = "TODO"
      /\ s.fetch \in FetchType
      /\ s.round \in 0 .. Rounds
      /\ s.phase \in {"main", "drain"}
      /\ s.stop \in BOOLEAN
  BY <1>1, NewMonitorOK, LoopHeadKeeps
<1>3. mon = s.mon /\ fetch = s.fetch /\ round = s.round /\ phase = s.phase /\ stop = s.stop
  BY DEF Init
<1> HIDE DEF s
<1>4. TypeOK
  BY <1>2, <1>3 DEF Init, TypeOK, MonitorOK
<1>5. PeerInv
  BY <1>2, <1>3 DEF Init, PeerInv, NewMonitor
<1>6. DoneIsLogged
  BY <1>2, <1>3, NAssumption DEF DoneIsLogged, In, NewMonitor, Jobs, Cells
<1> QED
  BY <1>2, <1>3, <1>4, <1>5, <1>6 DEF IInv

\* The steps of a client process leave the server and its files alone.
LEMMA ClientIInv ==
  ASSUME IInv, NEW c \in Clients,
         Start(c) \/ Ask(c) \/ Quit(c) \/ Probe(c) \/ Finish(c) \/ Die(c) \/ Refused(c)
  PROVE  IInv'
<1> USE DEF IInv
<1>1. UNCHANGED <<server, disk>>
  BY DEF Start, Ask, Quit, Probe, Finish, Die, Refused
<1>2. MonitorOK(mon') /\ DoneIsLogged'
  BY <1>1 DEF server, disk, DoneIsLogged
<1>3. TypeOK'
  <2>1. CASE Start(c)
    BY <2>1 DEF Start, TypeOK, server, disk
  <2>2. CASE Ask(c)
    BY <2>2 DEF Ask, TypeOK, server, disk
  <2>3. CASE Quit(c)
    BY <2>3 DEF Quit, TypeOK, server, net, disk
  <2>4. CASE Probe(c)
    BY <2>4 DEF Probe, TypeOK, server, disk
  <2>5. CASE Finish(c)
    <3>1. PICK r \in {"ok", "fail"} :
            /\ rt' = [rt EXCEPT ![c] = r]
            /\ fails' = IF r = "fail" /\ FailsAllowed # -1
                        THEN [fails EXCEPT ![c] = @ + 1] ELSE fails
      BY <2>5 DEF Finish
    <3>2. fails' \in [Clients -> Nat]
      BY <3>1 DEF TypeOK
    <3> QED
      BY <2>5, <3>1, <3>2 DEF Finish, TypeOK, server, disk
  <2>6. CASE Die(c)
    BY <2>6 DEF Die, Fault, TypeOK, server, net, disk
  <2>7. CASE Refused(c)
    BY <2>7 DEF Refused, TypeOK, server, disk
  <2> QED
    BY <2>1, <2>2, <2>3, <2>4, <2>5, <2>6, <2>7
<1>4. PeerInv'
  <2>1. CASE Start(c)
    BY <2>1 DEF Start, PeerInv, TypeOK, server
  <2>2. CASE Ask(c)
    BY <2>2 DEF Ask, PeerInv, TypeOK, server
  <2>3. CASE Quit(c)
    BY <2>3 DEF Quit, PeerInv, TypeOK, server, net
  <2>4. CASE Probe(c)
    BY <2>4 DEF Probe, PeerInv, TypeOK, server
  <2>5. CASE Finish(c)
    BY <2>5 DEF Finish, PeerInv, TypeOK, server
  <2>6. CASE Die(c)
    BY <2>6 DEF Die, PeerInv, TypeOK, server, net
  <2>7. CASE Refused(c)
    BY <2>7 DEF Refused, PeerInv, TypeOK, server
  <2> QED
    BY <2>1, <2>2, <2>3, <2>4, <2>5, <2>6, <2>7
<1> QED
  BY <1>2, <1>3, <1>4

\* What is left to show of a server step that ends at the head of the loop:
\* the Monitor m the handler leaves is sound and its done records are logged,
\* and the rest of the state is of the right type.
LEMMA ServerStepIInv ==
  ASSUME IInv, NEW m, MonitorOK(m), NEW f \in FetchType, GoRound(m, f),
         \A j \in Jobs : m.states[j] = "DONE" => log'[j] = "ok",
         conn' \in [Clients -> {"none", "backlog", "open"}],
         word' \in [Clients -> {"none", "GET", "PUT", "PROBE"}],
         proc' \in [Clients -> {"off", "auth", "idle", "running", "wait"}],
         seg' \in [Clients -> Segment \cup {None}],
         rt' \in [Clients -> {"ok", "fail"}],
         log' \in [Jobs -> {"none", "ok", "fail"}],
         oks' \in [Jobs -> 0 .. 2],
         faults' \in [{"deaths", "corrupt", "lost", "restarts"} -> Nat],
         UNCHANGED <<fails, starts>>
  PROVE  TypeOK' /\ MonitorOK(mon') /\ DoneIsLogged' /\ mon'.addr = m.addr
<1>1. /\ MonitorOK(mon')
      /\ mon'.addr = m.addr
      /\ \A j \in Jobs : \/ mon'.states[j] = m.states[j]
                         \/ m.states[j] = "FAIL" /\ mon'.states[j] = "TODO"
      /\ fetch' \in FetchType
      /\ round' \in 0 .. Rounds
      /\ phase' \in {"main", "drain", "exited"}
      /\ stop' \in BOOLEAN
  BY GoRoundKeeps DEF IInv
<1>2. TypeOK'
  BY <1>1 DEF TypeOK, IInv, MonitorOK
<1>3. DoneIsLogged'
  BY <1>1 DEF DoneIsLogged, In
<1> QED
  BY <1>1, <1>2, <1>3

\* PLD_CON, and the connections S_auth turns away.
LEMMA HandleConnectIInv ==
  ASSUME IInv, NEW c \in Clients, HandleConnect(c)
  PROVE  IInv'
<1> USE DEF IInv
<1>1. UNCHANGED <<word, seg, rt, fails, log, oks, starts, faults>> /\ conn[c] = "backlog"
  BY DEF HandleConnect, disk
<1>2. mon.addr[c] = None /\ seg[c] = None /\ word[c] = "none" /\ proc[c] \notin {"idle", "running", "wait"}
  BY <1>1, NoneAssumption DEF PeerInv
<1>3. CASE /\ conn' = [conn EXCEPT ![c] = "open"]
           /\ proc' = IF Alive(c) THEN [proc EXCEPT ![c] = "idle"] ELSE proc
           /\ GoRound(mon, fetch)
  <2>1. TypeOK' /\ MonitorOK(mon') /\ DoneIsLogged' /\ mon'.addr = mon.addr
    BY <1>1, <1>3, ServerStepIInv DEF TypeOK, DoneIsLogged, In
  <2>2. PeerInv'
    BY <1>1, <1>2, <1>3, <2>1 DEF PeerInv, TypeOK, Alive
  <2> QED
    BY <2>1, <2>2
<1>4. CASE /\ conn' = [conn EXCEPT ![c] = "none"]
           /\ proc' = [proc EXCEPT ![c] = "off"]
           /\ UNCHANGED server
  <2>1. MonitorOK(mon') /\ DoneIsLogged'
    BY <1>1, <1>4 DEF server, DoneIsLogged
  <2>2. TypeOK'
    BY <1>1, <1>4 DEF server, TypeOK
  <2>3. PeerInv'
    BY <1>1, <1>2, <1>4 DEF PeerInv, TypeOK, server
  <2> QED
    BY <2>1, <2>2, <2>3
<1> QED
  BY <1>3, <1>4 DEF HandleConnect

\* PLD_DEC of a peer that is gone or told to stop: it holds no chunk.
LEMMA DisconnectIInv ==
  ASSUME IInv, NEW c \in Clients, Disconnect(c), seg[c] = None,
         proc' = [proc EXCEPT ![c] = "off"],
         UNCHANGED <<seg, rt, fails, disk, starts, faults>>
  PROVE  IInv'
<1> USE DEF IInv
<1> DEFINE m == exists_addr_idx(mon, c)
           f == IF phase = "main" /\ mon.addr[c] # None
                THEN rewind(fetch, mon.addr[c][1] - 1) ELSE fetch
<1>1. /\ MonitorOK(m)
      /\ m.addr = [mon.addr EXCEPT ![c] = None]
      /\ \A j \in Jobs : m.states[j] = IF mon.addr[c] # None /\ j \in Records(mon.addr[c])
                                       THEN "TODO" ELSE mon.states[j]
  BY ExistsAddrIdxKeeps
<1>2. f \in FetchType
  <2>1. mon.addr[c] \in Segment \cup {None}
    BY DEF TypeOK, MonitorType
  <2>2. mon.addr[c] # None => mon.addr[c][1] - 1 \in Cells \cup {NPOS}
    BY <2>1, NAssumption DEF Segment, Cells, NPOS
  <2> QED
    BY <2>2, RewindKeeps DEF TypeOK
<1>3. /\ GoRound(m, f)
      /\ conn' = [conn EXCEPT ![c] = "none"]
      /\ word' = [word EXCEPT ![c] = "none"]
  BY DEF Disconnect
<1> HIDE DEF m, f
<1>4. \A j \in Jobs : m.states[j] = "DONE" => log'[j] = "ok"
  BY <1>1 DEF DoneIsLogged, In, disk
<1>5. TypeOK' /\ MonitorOK(mon') /\ DoneIsLogged' /\ mon'.addr = m.addr
  BY <1>1, <1>2, <1>3, <1>4, ServerStepIInv DEF TypeOK, disk
<1>6. PeerInv'
  BY <1>1, <1>3, <1>5 DEF PeerInv, TypeOK, MonitorType
<1> QED
  BY <1>5, <1>6
\* The end of file of a peer that is gone, and a PLD_GET answered with STOP.
LEMMA HangupIInv ==
  ASSUME IInv, NEW c \in Clients, Hangup(c)
  PROVE  IInv'
<1>1. seg[c] = None /\ proc[c] = "off"
  BY DEF Hangup, Alive, IInv, PeerInv
<1>2. proc' = [proc EXCEPT ![c] = "off"]
  BY <1>1 DEF Hangup, client, IInv, TypeOK
<1> QED
  BY <1>1, <1>2, DisconnectIInv DEF Hangup, client

\* A client that is told to stop had no chunk.
LEMMA HandleStopIInv ==
  ASSUME IInv, NEW c \in Clients, HandleStop(c)
  PROVE  IInv'
<1>1. seg[c] = None
  BY DEF HandleStop, IInv, PeerInv
<1> QED
  BY <1>1, DisconnectIInv DEF HandleStop

\* PLD_GET: the entry made for the peer is the chunk its process gets.
LEMMA HandleGetIInv ==
  ASSUME IInv, NEW c \in Clients, HandleGet(c)
  PROVE  IInv'
<1> USE DEF IInv
<1> DEFINE f == make_chunk(mon, fetch)
           m == add_addr_idx(mon, c, f.begin, f.end)
<1>1. /\ conn[c] = "open" /\ word[c] = "GET" /\ seg[c] = None
      /\ word' = [word EXCEPT ![c] = "none"]
      /\ UNCHANGED <<conn, rt, fails, log, oks, starts>>
  BY DEF HandleGet, PeerInv, disk
<1>2. PICK r \in S_get(c) :
        IF r = "ok"
        THEN GoRound(m, f) /\ TakeChunk(c, f)
        ELSE /\ GoRound(mon, rewind(f, f.begin))
             /\ Fault("lost")
             /\ UNCHANGED <<proc, seg>>
  BY DEF HandleGet
<1>3. f \in [begin : Cells, end : Cells]
  BY MakeChunkGives DEF TypeOK
<1> HIDE DEF f
<1>4. f \in FetchType /\ f.begin \in Cells /\ f.end \in Cells /\ <<f.begin, f.end>> \in Segment
  BY <1>3 DEF FetchType, Segment
<1>5. /\ MonitorOK(m)
      /\ m.addr = [mon.addr EXCEPT ![c] = <<f.begin, f.end>>]
      /\ \A j \in Jobs : m.states[j] = IF j \in Records(<<f.begin, f.end>>)
                                       THEN "INPROGRESS" ELSE mon.states[j]
  BY <1>4, AddAddrIdxKeeps
<1> HIDE DEF m
<1>6. CASE r = "ok"
  <2>1. GoRound(m, f) /\ TakeChunk(c, f)
    BY <1>2, <1>6
  <2>2. \/ /\ proc[c] # "off"
           /\ proc' = [proc EXCEPT ![c] = "running"]
           /\ seg' = [seg EXCEPT ![c] = <<f.begin, f.end>>]
           /\ UNCHANGED faults
        \/ /\ proc' = [proc EXCEPT ![c] = "off"]
           /\ UNCHANGED seg
           /\ Fault("corrupt")
        \/ proc[c] = "off" /\ UNCHANGED <<proc, seg, faults>>
    BY <2>1 DEF TakeChunk, Alive
  <2>3. /\ proc' \in [Clients -> {"off", "auth", "idle", "running", "wait"}]
        /\ seg' \in [Clients -> Segment \cup {None}]
        /\ faults' \in [{"deaths", "corrupt", "lost", "restarts"} -> Nat]
    BY <1>4, <2>2 DEF TypeOK, Fault
  <2>4. \A j \in Jobs : m.states[j] = "DONE" => log'[j] = "ok"
    BY <1>1, <1>5 DEF DoneIsLogged, In
  <2>5. TypeOK' /\ MonitorOK(mon') /\ DoneIsLogged' /\ mon'.addr = m.addr
    BY <1>1, <1>4, <1>5, <2>1, <2>3, <2>4, ServerStepIInv DEF TypeOK
  <2>6. PeerInv'
    BY <1>1, <1>5, <2>2, <2>5, NoneAssumption, <1>4 DEF PeerInv, TypeOK, MonitorType
  <2> QED
    BY <2>5, <2>6
<1>7. CASE r # "ok"
  <2>1. /\ GoRound(mon, rewind(f, f.begin))
        /\ Fault("lost")
        /\ UNCHANGED <<proc, seg>>
    BY <1>2, <1>7
  <2>2. rewind(f, f.begin) \in FetchType
    BY <1>4, RewindKeeps
  <2>3. /\ faults' \in [{"deaths", "corrupt", "lost", "restarts"} -> Nat]
        /\ word' \in [Clients -> {"none", "GET", "PUT", "PROBE"}]
    BY <1>1, <2>1 DEF TypeOK, Fault
  <2>4. \A j \in Jobs : mon.states[j] = "DONE" => log'[j] = "ok"
    BY <1>1 DEF DoneIsLogged, In
  <2>5. TypeOK' /\ MonitorOK(mon') /\ DoneIsLogged' /\ mon'.addr = mon.addr
    BY <1>1, <2>1, <2>2, <2>3, <2>4, ServerStepIInv DEF TypeOK
  <2>6. PeerInv'
    BY <1>1, <2>1, <2>5 DEF PeerInv, TypeOK
  <2> QED
    BY <2>5, <2>6
<1> QED
  BY <1>6, <1>7

\* PLD_PUT: the records marked done are those of the log line just written.
LEMMA HandlePutIInv ==
  ASSUME IInv, NEW c \in Clients, HandlePut(c)
  PROVE  IInv'
<1> USE DEF IInv
<1> DEFINE m == IF rt[c] = "ok" THEN rem_addr_idx(mon, c)
                ELSE tag_segment(mon, "FAIL", seg[c][1], seg[c][2])
<1>1. /\ conn[c] = "open" /\ word[c] = "PUT"
      /\ word' = [word EXCEPT ![c] = "none"]
      /\ proc' = IF Alive(c) THEN [proc EXCEPT ![c] = "idle"] ELSE proc
      /\ seg' = [seg EXCEPT ![c] = None]
      /\ rt' = [rt EXCEPT ![c] = "ok"]
      /\ UNCHANGED <<conn, fails, starts>>
  BY DEF HandlePut
<1>2. PICK r \in S_put(c) :
        /\ IF r = "ok" THEN WriteLog(c) /\ GoRound(m, fetch)
           ELSE GoRound(mon, fetch) /\ UNCHANGED disk
        /\ IF r = "nok" /\ Alive(c) THEN Fault("corrupt") ELSE UNCHANGED faults
  BY DEF HandlePut
<1>3. /\ word' \in [Clients -> {"none", "GET", "PUT", "PROBE"}]
      /\ proc' \in [Clients -> {"off", "auth", "idle", "running", "wait"}]
      /\ seg' \in [Clients -> Segment \cup {None}]
      /\ rt' \in [Clients -> {"ok", "fail"}]
      /\ faults' \in [{"deaths", "corrupt", "lost", "restarts"} -> Nat]
  BY <1>1, <1>2 DEF TypeOK, Fault
<1>4. CASE r = "ok"
  <2>1. WriteLog(c) /\ GoRound(m, fetch) /\ Alive(c)
    BY <1>2, <1>4 DEF S_put
  <2>2. seg[c] # None /\ seg[c] \in Segment /\ mon.addr[c] = seg[c]
    BY <1>1, <2>1 DEF PeerInv, Alive, TypeOK
  <2>3. log' = [j \in Jobs |-> IF j \in Records(seg[c]) THEN rt[c] ELSE log[j]]
    BY <2>1 DEF WriteLog
  <2>4. log' \in [Jobs -> {"none", "ok", "fail"}] /\ oks' \in [Jobs -> 0 .. 2]
    BY <2>1 DEF WriteLog, TypeOK
  <2>5. CASE rt[c] = "ok"
    <3>1. m = rem_addr_idx(mon, c)
      BY <2>5
    <3> HIDE DEF m
    <3>2. /\ MonitorOK(m)
          /\ m.addr = [mon.addr EXCEPT ![c] = None]
          /\ \A j \in Jobs : m.states[j] = IF j \in Records(seg[c]) THEN "DONE" ELSE mon.states[j]
      BY <2>2, <3>1, RemAddrIdxKeeps
    <3>3. \A j \in Jobs : m.states[j] = "DONE" => log'[j] = "ok"
      BY <2>3, <2>5, <3>2 DEF DoneIsLogged, In
    <3>4. TypeOK' /\ MonitorOK(mon') /\ DoneIsLogged' /\ mon'.addr = m.addr
      BY <1>1, <1>3, <2>1, <2>4, <3>2, <3>3, ServerStepIInv DEF TypeOK
    <3>5. PeerInv'
      BY <1>1, <3>2, <3>4 DEF PeerInv, TypeOK, MonitorType, Alive
    <3> QED
      BY <3>4, <3>5
  <2>6. CASE rt[c] # "ok"
    <3>1. m = tag_segment(mon, "FAIL", seg[c][1], seg[c][2]) /\ "FAIL" \in State
      BY <2>6 DEF State
    <3> HIDE DEF m
    <3>2. /\ MonitorOK(m)
          /\ m.addr = mon.addr
          /\ \A j \in Jobs : m.states[j] = IF j \in Records(seg[c]) THEN "FAIL" ELSE mon.states[j]
      BY <2>2, <3>1, TagSegmentKeeps
    <3>3. \A j \in Jobs : m.states[j] = "DONE" => log'[j] = "ok"
      BY <2>3, <3>2 DEF DoneIsLogged, In
    <3>4. TypeOK' /\ MonitorOK(mon') /\ DoneIsLogged' /\ mon'.addr = m.addr
      BY <1>1, <1>3, <2>1, <2>4, <3>2, <3>3, ServerStepIInv DEF TypeOK
    <3>5. PeerInv'
      BY <1>1, <3>2, <3>4 DEF PeerInv, TypeOK, MonitorType, Alive
    <3> QED
      BY <3>4, <3>5
  <2> QED
    BY <2>5, <2>6
<1>5. CASE r # "ok"
  <2>1. GoRound(mon, fetch) /\ UNCHANGED disk
    BY <1>2, <1>5
  <2>2. \A j \in Jobs : mon.states[j] = "DONE" => log'[j] = "ok"
    BY <2>1 DEF DoneIsLogged, In, disk
  <2>3. TypeOK' /\ MonitorOK(mon') /\ DoneIsLogged' /\ mon'.addr = mon.addr
    BY <1>1, <1>3, <2>1, <2>2, ServerStepIInv DEF TypeOK, disk
  <2>4. PeerInv'
    BY <1>1, <2>3 DEF PeerInv, TypeOK, Alive
  <2> QED
    BY <2>3, <2>4
<1> QED
  BY <1>4, <1>5

\* The steps that only go round the loop, and the end of the drain loop.
LEMMA OtherIInv ==
  ASSUME IInv, (\E c \in Clients : HandleProbe(c)) \/ Elapsed \/ ServerExit
  PROVE  IInv'
<1> USE DEF IInv
<1>1. ASSUME NEW c \in Clients, HandleProbe(c)
      PROVE  IInv'
  <2>1. /\ conn[c] = "open" /\ word[c] = "PROBE" /\ GoRound(mon, fetch)
        /\ word' = [word EXCEPT ![c] = "none"]
        /\ proc' = [proc EXCEPT ![c] = "off"]
        /\ UNCHANGED <<conn, seg, rt, fails, log, oks, starts, faults>>
    BY <1>1 DEF HandleProbe, disk
  <2>2. \A j \in Jobs : mon.states[j] = "DONE" => log'[j] = "ok"
    BY <2>1 DEF DoneIsLogged, In
  <2>3. TypeOK' /\ MonitorOK(mon') /\ DoneIsLogged' /\ mon'.addr = mon.addr
    BY <2>1, <2>2, ServerStepIInv DEF TypeOK
  <2>4. PeerInv'
    BY <2>1, <2>3 DEF PeerInv, TypeOK
  <2> QED
    BY <2>3, <2>4
<1>2. CASE Elapsed
  <2>1. GoRound(mon, fetch) /\ UNCHANGED <<conn, word, proc, seg, rt, fails, log, oks, starts, faults>>
    BY <1>2 DEF Elapsed, net, client, disk
  <2>2. \A j \in Jobs : mon.states[j] = "DONE" => log'[j] = "ok"
    BY <2>1 DEF DoneIsLogged, In
  <2>3. TypeOK' /\ MonitorOK(mon') /\ DoneIsLogged' /\ mon'.addr = mon.addr
    BY <2>1, <2>2, ServerStepIInv DEF TypeOK
  <2>4. PeerInv'
    BY <2>1, <2>3 DEF PeerInv
  <2> QED
    BY <2>3, <2>4
<1>3. CASE ServerExit
  <2>1. UNCHANGED <<mon, fetch, round, stop, conn, word, proc, seg, rt, fails, log, oks, starts, faults>> /\ phase' = "exited"
    BY <1>3 DEF ServerExit, net, client, disk
  <2>2. TypeOK'
    BY <2>1 DEF TypeOK
  <2>3. PeerInv' /\ DoneIsLogged' /\ MonitorOK(mon')
    BY <2>1 DEF PeerInv, DoneIsLogged
  <2> QED
    BY <2>2, <2>3
<1> QED
  BY <1>1, <1>2, <1>3

\* The server starts again from its log.
LEMMA RestartIInv ==
  ASSUME IInv, Restart
  PROVE  IInv'
<1> USE DEF IInv
<1> DEFINE m == restart(log)
           s == LoopHead(m, NewFetch, 0)
<1>1. /\ MonitorOK(m)
      /\ m.addr = [c \in Clients |-> None]
      /\ \A j \in Jobs : m.states[j] = IF log[j] = "ok" THEN "DONE" ELSE "TODO"
  BY RestartKeeps DEF TypeOK
<1> HIDE DEF m
<1>2. NewFetch \in FetchType /\ 0 \in 0 .. Rounds
  BY NAssumption, RoundsAssumption DEF NewFetch, FetchType, Cells
<1>3. /\ MonitorOK(s.mon)
      /\ s.mon.addr = m.addr
      /\ \A j \in Jobs : \/ s.mon.states[j] = m.states[j]
                         \/ m.states[j] = "FAIL" /\ s.mon.states[j] = "TODO"
      /\ s.fetch \in FetchType
      /\ s.round \in 0 .. Rounds
      /\ s.phase \in {"main", "drain"}
      /\ s.stop \in BOOLEAN
  BY <1>1, <1>2, LoopHeadKeeps
<1>4. mon' = s.mon /\ fetch' = s.fetch /\ round' = s.round /\ phase' = s.phase /\ stop' = s.stop
  BY DEF Restart, m
<1> HIDE DEF s
<1>5. TypeOK'
  BY <1>3, <1>4 DEF Restart, TypeOK, MonitorOK, Fault, disk
<1>6. PeerInv'
  BY <1>1, <1>3, <1>4 DEF Restart, PeerInv
<1>7. DoneIsLogged'
  BY <1>1, <1>3, <1>4 DEF DoneIsLogged, In, Restart, disk
<1> QED
  BY <1>3, <1>4, <1>5, <1>6, <1>7

\* A step that changes no variable.
LEMMA StutterIInv ==
  ASSUME IInv, UNCHANGED vars
  PROVE  IInv'
BY DEF IInv, vars, TypeOK, PeerInv, DoneIsLogged

\* Every step keeps the inductive invariant.
LEMMA NextIInv ==
  IInv /\ [Next]_vars => IInv'
<1> SUFFICES ASSUME IInv, [Next]_vars PROVE IInv'
  OBVIOUS
<1>1. ASSUME NEW c \in Clients, ServerStep(c)
      PROVE  IInv'
  BY <1>1, HandleConnectIInv, HandleGetIInv, HandlePutIInv, HandleStopIInv, HangupIInv, OtherIInv
     DEF ServerStep
<1>2. ASSUME NEW c \in Clients, ClientStep(c) \/ Start(c) \/ Die(c) \/ Refused(c)
      PROVE  IInv'
  BY <1>2, ClientIInv DEF ClientStep
<1> QED
  BY <1>1, <1>2, OtherIInv, RestartIInv, StutterIInv DEF Next

-----------------------------------------------------------------------------
\* The inductive invariant holds in every state of every behaviour.
THEOREM Invariance ==
  Spec => []IInv
<1>1. Spec => Init /\ [][Next]_vars
  BY DEF Spec
<1> QED
  BY <1>1, InitIInv, NextIInv, PTL

\* Type correctness: the cursor stays inside the input or at the single value
\* rewind makes of the predecessor of record 0, and the rounds inside ROUND.
THEOREM TypeCorrect ==
  Spec => []TypeOK
<1>1. IInv => TypeOK
  BY DEF IInv
<1> QED
  BY <1>1, Invariance, PTL

\* The counters the principal loop decides on are right in every state.
THEOREM CountersCorrect ==
  Spec => []CountersMatch
<1>1. IInv => CountersMatch
  BY DEF IInv, MonitorOK, Counted, CountersMatch
<1> QED
  BY <1>1, Invariance, PTL

\* What the server marks done is what the client computed and the log names.
THEOREM EntryCorrect ==
  Spec => []EntryIsClientsSegment
<1>1. IInv => EntryIsClientsSegment
  BY DEF IInv, PeerInv, EntryIsClientsSegment
<1> QED
  BY <1>1, Invariance, PTL

\* A restart finds in the log every record the server counted as done.
THEOREM DoneLogged ==
  Spec => []DoneIsLogged
<1>1. IInv => DoneIsLogged
  BY DEF IInv
<1> QED
  BY <1>1, Invariance, PTL

-----------------------------------------------------------------------------
(* No record is orphaned as long as no result is corrupted.  NoOrphan is not *)
(* inductive: a failed PLD_PUT leaves the entry of the peer in place, and    *)
(* the next PLD_GET overwrites it.  The peer that answers for a record in    *)
(* progress has to be one whose entry is not such a leftover: it is neither  *)
(* between two chunks nor asking for the next one.                           *)

Answers(c, j) ==
    /\ conn[c] = "open"
    /\ mon.addr[c] # None
    /\ j \in Records(mon.addr[c])
    /\ word[c] # "GET"
    /\ proc[c] # "idle"

OwnInv == \A j \in In(mon, "INPROGRESS") : \E c \in Clients : Answers(c, j)

\* A step that concerns peer c keeps OwnInv if every record that is in
\* progress after it has c as its peer then, or did not have c before.
LEMMA OwnStep ==
  ASSUME IInv, OwnInv, NEW c \in Clients, NEW m,
         mon'.addr = m.addr,
         \A j \in Jobs : mon'.states[j] = "INPROGRESS" => m.states[j] = "INPROGRESS",
         \A d \in Clients \ {c} : /\ conn'[d] = conn[d]
                                  /\ word'[d] = word[d]
                                  /\ proc'[d] = proc[d]
                                  /\ m.addr[d] = mon.addr[d],
         \A j \in Jobs : m.states[j] = "INPROGRESS" =>
             \/ Answers(c, j)'
             \/ mon.states[j] = "INPROGRESS" /\ ~Answers(c, j)
  PROVE  OwnInv'
<1> SUFFICES ASSUME NEW j \in Jobs, mon'.states[j] = "INPROGRESS"
             PROVE  \E d \in Clients : Answers(d, j)'
  BY DEF OwnInv, In
<1>1. CASE Answers(c, j)'
  BY <1>1
<1>2. CASE ~Answers(c, j)'
  <2>1. mon.states[j] = "INPROGRESS" /\ ~Answers(c, j)
    BY <1>2
  <2>2. PICK d \in Clients : Answers(d, j)
    BY <2>1 DEF OwnInv, In
  <2>3. d \in Clients \ {c}
    BY <2>1, <2>2
  <2> QED
    BY <2>2, <2>3 DEF Answers
<1> QED
  BY <1>1, <1>2

\* The start of the loop puts no record in progress.
LEMMA GoRoundProgress ==
  ASSUME TypeOK, NEW m, MonitorOK(m), NEW f \in FetchType, GoRound(m, f)
  PROVE  /\ mon'.addr = m.addr
         /\ \A j \in Jobs : mon'.states[j] = "INPROGRESS" => m.states[j] = "INPROGRESS"
<1>1. /\ mon'.addr = m.addr
      /\ \A j \in Jobs : \/ mon'.states[j] = m.states[j]
                         \/ m.states[j] = "FAIL" /\ mon'.states[j] = "TODO"
  BY GoRoundKeeps
<1> QED
  BY <1>1

\* The steps of a client process: one that computes goes on to send PLD_PUT,
\* one that dies is no longer between two chunks.
LEMMA ClientOwn ==
  ASSUME IInv, OwnInv, NEW c \in Clients,
         Start(c) \/ Ask(c) \/ Quit(c) \/ Probe(c) \/ Finish(c) \/ Die(c) \/ Refused(c)
  PROVE  OwnInv'
<1> USE DEF IInv, TypeOK
<1>1. mon' = mon
  BY DEF Start, Ask, Quit, Probe, Finish, Die, Refused, server
<1>2. \A d \in Clients \ {c} : conn'[d] = conn[d] /\ word'[d] = word[d] /\ proc'[d] = proc[d]
  BY DEF Start, Ask, Quit, Probe, Finish, Die, Refused, net
<1>3. \A j \in Jobs : Answers(c, j) => Answers(c, j)'
  <2>1. CASE Start(c) \/ Refused(c)
    BY <2>1, <1>1 DEF Start, Refused, Answers
  <2>2. CASE Ask(c) \/ Probe(c)
    BY <2>2, <1>1 DEF Ask, Probe, Answers
  <2>3. CASE Quit(c) \/ Die(c)
    BY <2>3, <1>1 DEF Quit, Die, Answers, net
  <2>4. CASE Finish(c)
    BY <2>4, <1>1 DEF Finish, Answers
  <2> QED
    BY <2>1, <2>2, <2>3, <2>4
<1> QED
  BY <1>1, <1>2, <1>3, OwnStep

\* PLD_DEC: the records of the entry are no longer in progress.
LEMMA DisconnectOwn ==
  ASSUME IInv, OwnInv, NEW c \in Clients, Disconnect(c),
         \A d \in Clients \ {c} : proc'[d] = proc[d]
  PROVE  OwnInv'
<1> DEFINE m == exists_addr_idx(mon, c)
           f == IF phase = "main" /\ mon.addr[c] # None
                THEN rewind(fetch, mon.addr[c][1] - 1) ELSE fetch
<1>1. /\ MonitorOK(m)
      /\ m.addr = [mon.addr EXCEPT ![c] = None]
      /\ \A j \in Jobs : m.states[j] = IF mon.addr[c] # None /\ j \in Records(mon.addr[c])
                                       THEN "TODO" ELSE mon.states[j]
  BY ExistsAddrIdxKeeps DEF IInv
<1>2. f \in FetchType
  <2>1. mon.addr[c] \in Segment \cup {None}
    BY DEF IInv, TypeOK, MonitorType
  <2>2. mon.addr[c] # None => mon.addr[c][1] - 1 \in Cells \cup {NPOS}
    BY <2>1, NAssumption DEF Segment, Cells, NPOS
  <2> QED
    BY <2>2, RewindKeeps DEF IInv, TypeOK
<1>3. /\ GoRound(m, f)
      /\ conn' = [conn EXCEPT ![c] = "none"]
      /\ word' = [word EXCEPT ![c] = "none"]
  BY DEF Disconnect
<1> HIDE DEF m, f
<1>4. /\ mon'.addr = m.addr
      /\ \A j \in Jobs : mon'.states[j] = "INPROGRESS" => m.states[j] = "INPROGRESS"
  BY <1>1, <1>2, <1>3, GoRoundProgress DEF IInv
<1>5. \A d \in Clients \ {c} : /\ conn'[d] = conn[d]
                               /\ word'[d] = word[d]
                               /\ m.addr[d] = mon.addr[d]
  BY <1>1, <1>3 DEF IInv, TypeOK, MonitorType
<1>6. \A j \in Jobs : m.states[j] = "INPROGRESS" =>
          mon.states[j] = "INPROGRESS" /\ ~Answers(c, j)
  BY <1>1 DEF Answers
<1> QED
  BY <1>4, <1>5, <1>6, OwnStep

\* PLD_GET: a peer that asks answers for nothing; then it does for its chunk.
LEMMA HandleGetOwn ==
  ASSUME faults'["corrupt"] = 0, IInv, OwnInv, NEW c \in Clients, HandleGet(c)
  PROVE  OwnInv'
<1> DEFINE f == make_chunk(mon, fetch)
           m == add_addr_idx(mon, c, f.begin, f.end)
<1>1. /\ conn[c] = "open" /\ word[c] = "GET"
      /\ word' = [word EXCEPT ![c] = "none"]
      /\ conn' = conn
  BY DEF HandleGet
<1>2. PICK r \in S_get(c) :
        IF r = "ok"
        THEN GoRound(m, f) /\ TakeChunk(c, f)
        ELSE /\ GoRound(mon, rewind(f, f.begin))
             /\ UNCHANGED <<proc, seg>>
  BY DEF HandleGet
<1>3. f \in [begin : Cells, end : Cells]
  BY MakeChunkGives DEF IInv, TypeOK
<1> HIDE DEF f
<1>4. f \in FetchType /\ f.begin \in Cells /\ f.end \in Cells /\ <<f.begin, f.end>> \in Segment
  BY <1>3 DEF FetchType, Segment
<1>5. /\ MonitorOK(m)
      /\ m.addr = [mon.addr EXCEPT ![c] = <<f.begin, f.end>>]
      /\ \A j \in Jobs : m.states[j] = IF j \in Records(<<f.begin, f.end>>)
                                       THEN "INPROGRESS" ELSE mon.states[j]
  BY <1>4, AddAddrIdxKeeps DEF IInv
<1> HIDE DEF m
<1>6. \A j \in Jobs : ~Answers(c, j)
  BY <1>1 DEF Answers
<1>7. \A d \in Clients \ {c} : conn'[d] = conn[d] /\ word'[d] = word[d]
  BY <1>1 DEF IInv, TypeOK
<1>8. CASE r = "ok"
  <2>1. GoRound(m, f) /\ TakeChunk(c, f)
    BY <1>2, <1>8
  <2>2. ~Fault("corrupt")
    BY DEF Fault, IInv, TypeOK
  <2>3. proc' = IF Alive(c) THEN [proc EXCEPT ![c] = "running"] ELSE proc
    BY <2>1, <2>2 DEF TakeChunk, C_get
  <2>4. proc'[c] # "idle" /\ \A d \in Clients \ {c} : proc'[d] = proc[d]
    BY <2>3 DEF Alive, IInv, TypeOK
  <2>5. /\ mon'.addr = m.addr
        /\ \A j \in Jobs : mon'.states[j] = "INPROGRESS" => m.states[j] = "INPROGRESS"
    BY <1>4, <1>5, <2>1, GoRoundProgress DEF IInv
  <2>6. \A d \in Clients \ {c} : m.addr[d] = mon.addr[d]
    BY <1>5 DEF IInv, TypeOK, MonitorType
  <2>7. mon'.addr[c] = <<f.begin, f.end>> /\ mon'.addr[c] # None
    BY <1>4, <1>5, <2>5, NoneAssumption DEF IInv, TypeOK, MonitorType
  <2>8. \A j \in Jobs : m.states[j] = "INPROGRESS" =>
            Answers(c, j)' \/ (mon.states[j] = "INPROGRESS" /\ ~Answers(c, j))
    BY <1>1, <1>5, <1>6, <2>4, <2>7 DEF Answers, IInv, TypeOK
  <2> QED
    BY <1>7, <2>4, <2>5, <2>6, <2>8, OwnStep
<1>9. CASE r # "ok"
  <2>1. GoRound(mon, rewind(f, f.begin)) /\ UNCHANGED proc
    BY <1>2, <1>9
  <2>2. rewind(f, f.begin) \in FetchType
    BY <1>4, RewindKeeps
  <2>3. /\ mon'.addr = mon.addr
        /\ \A j \in Jobs : mon'.states[j] = "INPROGRESS" => mon.states[j] = "INPROGRESS"
    BY <2>1, <2>2, GoRoundProgress DEF IInv
  <2> QED
    BY <1>6, <1>7, <2>1, <2>3, OwnStep
<1> QED
  BY <1>8, <1>9

\* PLD_PUT: the records of the entry are done or failed.
LEMMA HandlePutOwn ==
  ASSUME faults'["corrupt"] = 0, IInv, OwnInv, NEW c \in Clients, HandlePut(c)
  PROVE  OwnInv'
<1> DEFINE m == IF rt[c] = "ok" THEN rem_addr_idx(mon, c)
                ELSE tag_segment(mon, "FAIL", seg[c][1], seg[c][2])
<1>1. /\ conn[c] = "open" /\ word[c] = "PUT"
      /\ word' = [word EXCEPT ![c] = "none"]
      /\ proc' = IF Alive(c) THEN [proc EXCEPT ![c] = "idle"] ELSE proc
      /\ conn' = conn
  BY DEF HandlePut
<1>2. PICK r \in S_put(c) :
        /\ IF r = "ok" THEN GoRound(m, fetch) ELSE GoRound(mon, fetch)
        /\ IF r = "nok" /\ Alive(c) THEN Fault("corrupt") ELSE UNCHANGED faults
  BY DEF HandlePut
<1>3. \A d \in Clients \ {c} : conn'[d] = conn[d] /\ word'[d] = word[d] /\ proc'[d] = proc[d]
  BY <1>1 DEF IInv, TypeOK
<1>4. fetch \in FetchType /\ MonitorOK(mon)
  BY DEF IInv, TypeOK
<1>5. CASE Alive(c)
  <2>1. ~Fault("corrupt")
    BY DEF Fault, IInv, TypeOK
  <2>2. GoRound(m, fetch)
    BY <1>2, <1>5, <2>1 DEF S_put
  <2>3. seg[c] # None /\ seg[c] \in Segment /\ mon.addr[c] = seg[c]
    BY <1>1, <1>5 DEF IInv, PeerInv, Alive, TypeOK
  <2>4. /\ MonitorOK(m)
        /\ \A d \in Clients \ {c} : m.addr[d] = mon.addr[d]
        /\ \A j \in Jobs : m.states[j] = "INPROGRESS" =>
              mon.states[j] = "INPROGRESS" /\ j \notin Records(seg[c])
    <3>1. CASE rt[c] = "ok"
      <4>1. m = rem_addr_idx(mon, c)
        BY <3>1
      <4> HIDE DEF m
      <4>2. /\ MonitorOK(m)
            /\ m.addr = [mon.addr EXCEPT ![c] = None]
            /\ \A j \in Jobs : m.states[j] = IF j \in Records(seg[c]) THEN "DONE" ELSE mon.states[j]
        BY <1>4, <2>3, <4>1, RemAddrIdxKeeps
      <4> QED
        BY <4>2 DEF IInv, TypeOK, MonitorType
    <3>2. CASE rt[c] # "ok"
      <4>1. m = tag_segment(mon, "FAIL", seg[c][1], seg[c][2]) /\ "FAIL" \in State
        BY <3>2 DEF State
      <4> HIDE DEF m
      <4>2. /\ MonitorOK(m)
            /\ m.addr = mon.addr
            /\ \A j \in Jobs : m.states[j] = IF j \in Records(seg[c]) THEN "FAIL" ELSE mon.states[j]
        BY <1>4, <2>3, <4>1, TagSegmentKeeps
      <4> QED
        BY <4>2
    <3> QED
      BY <3>1, <3>2
  <2> HIDE DEF m
  <2>5. /\ mon'.addr = m.addr
        /\ \A j \in Jobs : mon'.states[j] = "INPROGRESS" => m.states[j] = "INPROGRESS"
    BY <1>4, <2>2, <2>4, GoRoundProgress DEF IInv
  <2>6. \A j \in Jobs : m.states[j] = "INPROGRESS" =>
            mon.states[j] = "INPROGRESS" /\ ~Answers(c, j)
    BY <2>3, <2>4 DEF Answers
  <2> QED
    BY <1>3, <2>4, <2>5, <2>6, OwnStep
<1>6. CASE ~Alive(c)
  <2>1. GoRound(mon, fetch)
    BY <1>2, <1>6 DEF S_put
  <2>2. /\ mon'.addr = mon.addr
        /\ \A j \in Jobs : mon'.states[j] = "INPROGRESS" => mon.states[j] = "INPROGRESS"
    BY <1>4, <2>1, GoRoundProgress DEF IInv
  <2>3. \A j \in Jobs : Answers(c, j) => Answers(c, j)'
    BY <1>1, <1>6, <2>2 DEF Answers, Alive, IInv, TypeOK
  <2> QED
    BY <1>3, <2>2, <2>3, OwnStep
<1> QED
  BY <1>5, <1>6

\* PLD_CON and PLD_PING or PLD_INFO: an accepted peer has no entry yet.
LEMMA ConnectProbeOwn ==
  ASSUME IInv, OwnInv, NEW c \in Clients, HandleConnect(c) \/ HandleProbe(c)
  PROVE  OwnInv'
<1>1. /\ mon'.addr = mon.addr
      /\ \A j \in Jobs : mon'.states[j] = "INPROGRESS" => mon.states[j] = "INPROGRESS"
  <2>1. GoRound(mon, fetch) \/ UNCHANGED server
    BY DEF HandleConnect, HandleProbe
  <2> QED
    BY <2>1, GoRoundProgress DEF IInv, TypeOK, server
<1>2. \A d \in Clients \ {c} : conn'[d] = conn[d] /\ word'[d] = word[d] /\ proc'[d] = proc[d]
  BY DEF HandleConnect, HandleProbe, IInv, TypeOK
<1>3. \A j \in Jobs : Answers(c, j) => Answers(c, j)'
  <2>1. CASE HandleConnect(c)
    BY <2>1 DEF HandleConnect, Answers
  <2>2. CASE HandleProbe(c)
    BY <1>1, <2>2 DEF HandleProbe, Answers, IInv, TypeOK
  <2> QED
    BY <2>1, <2>2
<1> QED
  BY <1>1, <1>2, <1>3, OwnStep

\* So does every step for OwnInv, as long as no transfer has been corrupted.
LEMMA NextOwn ==
  ASSUME faults'["corrupt"] = 0, IInv, OwnInv, [Next]_vars
  PROVE  OwnInv'
<1>1. ASSUME NEW c \in Clients, ServerStep(c)
      PROVE  OwnInv'
  <2>1. CASE HandleConnect(c) \/ HandleProbe(c)
    BY <2>1, ConnectProbeOwn
  <2>2. CASE HandleGet(c)
    BY <2>2, HandleGetOwn
  <2>3. CASE HandlePut(c)
    BY <2>3, HandlePutOwn
  <2>4. CASE HandleStop(c) \/ Hangup(c)
    <3>1. Disconnect(c) /\ \A d \in Clients \ {c} : proc'[d] = proc[d]
      BY <2>4 DEF HandleStop, Hangup, client, IInv, TypeOK
    <3> QED
      BY <3>1, DisconnectOwn
  <2> QED
    BY <1>1, <2>1, <2>2, <2>3, <2>4 DEF ServerStep
<1>2. ASSUME NEW c \in Clients, ClientStep(c) \/ Start(c) \/ Die(c) \/ Refused(c)
      PROVE  OwnInv'
  BY <1>2, ClientOwn DEF ClientStep
<1>3. CASE Elapsed
  <2>1. GoRound(mon, fetch) /\ UNCHANGED <<conn, word, proc>>
    BY <1>3 DEF Elapsed, net, client
  <2>2. /\ mon'.addr = mon.addr
        /\ \A j \in Jobs : mon'.states[j] = "INPROGRESS" => mon.states[j] = "INPROGRESS"
    BY <2>1, GoRoundProgress DEF IInv, TypeOK
  <2> QED
    BY <2>1, <2>2 DEF OwnInv, In, Answers
<1>4. CASE ServerExit \/ UNCHANGED vars
  BY <1>4 DEF ServerExit, net, client, vars, OwnInv, In, Answers
<1>5. CASE Restart
  <2> DEFINE m == restart(log)
             s == LoopHead(m, NewFetch, 0)
  <2>1. MonitorOK(m) /\ \A j \in Jobs : m.states[j] = IF log[j] = "ok" THEN "DONE" ELSE "TODO"
    BY RestartKeeps DEF IInv, TypeOK
  <2> HIDE DEF m
  <2>2. NewFetch \in FetchType /\ 0 \in 0 .. Rounds
    BY NAssumption, RoundsAssumption DEF NewFetch, FetchType, Cells
  <2>3. \A j \in Jobs : \/ s.mon.states[j] = m.states[j]
                        \/ m.states[j] = "FAIL" /\ s.mon.states[j] = "TODO"
    BY <2>1, <2>2, LoopHeadKeeps
  <2>4. mon' = s.mon
    BY <1>5 DEF Restart, m
  <2> HIDE DEF s
  <2> QED
    BY <2>1, <2>3, <2>4 DEF OwnInv, In
<1> QED
  BY <1>1, <1>2, <1>3, <1>4, <1>5 DEF Next

\* No step takes a corrupted transfer back.
LEMMA CorruptGrows ==
  ASSUME IInv, [Next]_vars
  PROVE  faults["corrupt"] <= faults'["corrupt"]
<1>1. faults' = faults \/ \E k \in {"deaths", "corrupt", "lost", "restarts"} : Fault(k)
  <2>1. ASSUME NEW c \in Clients, ServerStep(c)
        PROVE  faults' = faults \/ \E k \in {"deaths", "corrupt", "lost", "restarts"} : Fault(k)
    BY <2>1 DEF ServerStep, HandleConnect, HandleGet, TakeChunk, HandlePut,
                HandleProbe, HandleStop, Hangup
  <2>2. ASSUME NEW c \in Clients, ClientStep(c) \/ Start(c) \/ Die(c) \/ Refused(c)
        PROVE  faults' = faults \/ \E k \in {"deaths", "corrupt", "lost", "restarts"} : Fault(k)
    BY <2>2 DEF ClientStep, Ask, Quit, Probe, Finish, Start, Die, Refused
  <2>3. CASE Elapsed \/ ServerExit \/ Restart \/ UNCHANGED vars
    BY <2>3 DEF Elapsed, ServerExit, Restart, vars
  <2> QED
    BY <2>1, <2>2, <2>3 DEF Next
<1> QED
  BY <1>1 DEF IInv, TypeOK, Fault

\* While no result is corrupted, every record in progress belongs to the entry
\* of a connected peer: no record is lost whoever dies, whatever fails.
THEOREM NothingOrphaned == Spec => []NoOrphan
<1> DEFINE Owned == faults["corrupt"] = 0 => OwnInv
<1>1. Init => Owned
  <2> SUFFICES ASSUME Init PROVE OwnInv
    OBVIOUS
  <2> DEFINE s == LoopHead(NewMonitor, NewFetch, 0)
  <2>1. NewFetch \in FetchType /\ 0 \in 0 .. Rounds
    BY NAssumption, RoundsAssumption DEF NewFetch, FetchType, Cells
  <2>2. \A j \in Jobs : \/ s.mon.states[j] = NewMonitor.states[j]
                        \/ NewMonitor.states[j] = "FAIL" /\ s.mon.states[j] = "TODO"
    BY <2>1, NewMonitorOK, LoopHeadKeeps
  <2>3. mon = s.mon
    BY DEF Init
  <2> HIDE DEF s
  <2> QED
    BY <2>2, <2>3, NAssumption DEF OwnInv, In, NewMonitor, Jobs, Cells
<1>2. IInv /\ Owned /\ [Next]_vars => Owned'
  BY NextOwn, CorruptGrows DEF IInv, TypeOK
<1>3. Owned => NoOrphan
  BY DEF OwnInv, NoOrphan, Answers, Open
<1> HIDE DEF Owned
<1>4. Spec => Init /\ [][Next]_vars
  BY DEF Spec
<1> QED
  BY <1>1, <1>2, <1>3, <1>4, Invariance, PTL

-----------------------------------------------------------------------------
(* What the server promises while no command returns non-zero (FailingJobs   *)
(* is empty), for every number of records and peers, every policy, and any   *)
(* number of deaths, corrupted transfers, failed sends and restarts: a       *)
(* record has one holder, stays done, is written once, and the server leaves *)
(* its loop with all results.  With no transfer corrupted it implements      *)
(* JobLease.                                                                 *)

-----------------------------------------------------------------------------
(* The effect of a step on the records.  When no command fails, a step of    *)
(* the system is one of five: it leaves the records alone, hands a chunk to  *)
(* a peer, stores the result of a peer, loses a peer, or reloads the log.    *)

\* The records of the entry of peer c.
Held(c) == {j \in Jobs : mon.addr[c] # None /\ j \in Records(mon.addr[c])}

\* The entry of peer c becomes e and the records of S go to state s.
Moves(c, e, S, s) ==
    /\ mon'.addr = [mon.addr EXCEPT ![c] = e]
    /\ \A j \in Jobs : mon'.states[j] = IF j \in S THEN s ELSE mon.states[j]

Keeps ==
    /\ mon'.addr = mon.addr
    /\ \A j \in Jobs : mon'.states[j] = mon.states[j]
    /\ UNCHANGED disk
    /\ UNCHANGED fetch \/ Fault("lost")

Takes(c) ==
    /\ word[c] = "GET"
    /\ fetch' = make_chunk(mon, fetch)
    /\ \E sg \in Segment :
         /\ sg = <<fetch'.begin, fetch'.end>>
         /\ Records(sg) \subseteq In(mon, "TODO")
         /\ Moves(c, sg, Records(sg), "INPROGRESS")
    /\ UNCHANGED disk

Stores(c) ==
    /\ Moves(c, None, Held(c), "DONE")
    /\ log' = [j \in Jobs |-> IF j \in Held(c) THEN "ok" ELSE log[j]]
    /\ oks' = [j \in Jobs |-> IF j \in Held(c) /\ oks[j] < 2 THEN oks[j] + 1 ELSE oks[j]]
    /\ UNCHANGED fetch

Loses(c) ==
    /\ Moves(c, None, Held(c), "TODO")
    /\ UNCHANGED disk
    /\ fetch' = IF phase = "main" /\ mon.addr[c] # None
                THEN rewind(fetch, mon.addr[c][1] - 1) ELSE fetch

Reloads ==
    /\ mon'.addr = [c \in Clients |-> None]
    /\ \A j \in Jobs : mon'.states[j] = IF log[j] = "ok" THEN "DONE" ELSE "TODO"
    /\ UNCHANGED disk
    /\ fetch' = NewFetch

\* A step that leaves the principal loop before the last round has all results.
LeavesDone ==
    phase' # "main" =>
        \/ phase # "main" /\ UNCHANGED round
        \/ round' >= Rounds
        \/ In(mon, "DONE")' = Jobs

\* No record, no result under way and no line of the log is a failed one.
NoFail ==
    /\ \A j \in Jobs : mon.states[j] # "FAIL" /\ log[j] # "fail"
    /\ \A c \in Clients : rt[c] = "ok"

-----------------------------------------------------------------------------
\* A set of records as large as the set of all records is that set.
LEMMA AllJobs ==
  ASSUME NEW S \in SUBSET Jobs, Cardinality(S) = N
  PROVE  S = Jobs
<1>1. Cardinality(Jobs) = N
  BY NAssumption, FS_Interval DEF Jobs
<1>2. IsFiniteSet(Jobs)
  BY JobsFinite
<1> QED
  BY <1>1, <1>2, FS_Subset

\* The head of the loop starts no new round when no record has failed: it only
\* decides whether the loop goes on, and leaves it for one of two reasons.
LEMMA LoopHeadNoFail ==
  ASSUME NEW m, MonitorOK(m), \A j \in Jobs : m.states[j] # "FAIL",
         NEW f \in FetchType, NEW r \in 0 .. Rounds
  PROVE  LET s == LoopHead(m, f, r)
         IN  /\ s.mon = m /\ s.fetch = f /\ s.round = r
             /\ s.phase # "main" => r >= Rounds \/ In(m, "DONE") = Jobs
<1>1. "FAIL" \in State /\ "DONE" \in State
  BY DEF State
<1>2. In(m, "FAIL") = {}
  BY DEF In
<1>3. m.count["FAIL"] = 0
  BY <1>1, <1>2, FS_EmptySet DEF MonitorOK, Counted
<1>4. ~NewRound(m, f)
  BY <1>3 DEF NewRound
<1>5. m.count["DONE"] = N => In(m, "DONE") = Jobs
  <2>1. In(m, "DONE") \in SUBSET Jobs /\ m.count["DONE"] = Cardinality(In(m, "DONE"))
    BY <1>1 DEF In, MonitorOK, Counted
  <2> QED
    BY <2>1, AllJobs
<1>6. LoopHead(m, f, r) =
        IF r < Rounds /\ m.count["DONE"] # N
        THEN [mon |-> m, fetch |-> f, round |-> r, phase |-> "main",
              stop |-> m.count["TODO"] = 0]
        ELSE [mon |-> m, fetch |-> f, round |-> r, phase |-> "drain", stop |-> TRUE]
  BY <1>4 DEF LoopHead
<1>7. CASE r < Rounds /\ m.count["DONE"] # N
  <2>1. LoopHead(m, f, r) = [mon |-> m, fetch |-> f, round |-> r, phase |-> "main",
                             stop |-> m.count["TODO"] = 0]
    BY <1>6, <1>7
  <2> QED
    BY <2>1
<1>8. CASE ~(r < Rounds /\ m.count["DONE"] # N)
  <2>1. LoopHead(m, f, r) = [mon |-> m, fetch |-> f, round |-> r, phase |-> "drain",
                             stop |-> TRUE]
    BY <1>6, <1>8
  <2> QED
    BY <1>5, <1>8, <2>1, RoundsAssumption
<1> QED
  BY <1>7, <1>8

\* The same for the step of the server that ends with it.
LEMMA GoRoundNoFail ==
  ASSUME TypeOK, NEW m, MonitorOK(m), \A j \in Jobs : m.states[j] # "FAIL",
         NEW f \in FetchType, GoRound(m, f)
  PROVE  /\ mon' = m
         /\ phase = "main" => fetch' = f
         /\ phase # "main" => UNCHANGED fetch
         /\ LeavesDone
<1>1. CASE phase = "main"
  <2> DEFINE s == LoopHead(m, f, round)
  <2>1. round \in 0 .. Rounds
    BY DEF TypeOK
  <2>2. /\ mon' = s.mon
        /\ fetch' = s.fetch
        /\ round' = s.round
        /\ phase' = s.phase
    BY <1>1 DEF GoRound
  <2>3. /\ s.mon = m /\ s.fetch = f /\ s.round = round
        /\ s.phase # "main" => round >= Rounds \/ In(m, "DONE") = Jobs
    BY <2>1, LoopHeadNoFail
  <2> HIDE DEF s
  <2>4. mon' = m /\ In(mon, "DONE")' = In(m, "DONE")
    BY <2>2, <2>3 DEF In
  <2> QED
    BY <1>1, <2>2, <2>3, <2>4 DEF LeavesDone
<1>2. CASE phase # "main"
  BY <1>2 DEF GoRound, LeavesDone
<1> QED
  BY <1>1, <1>2

-----------------------------------------------------------------------------
\* A client process leaves the records alone, and its command does not fail.
LEMMA ClientEffect ==
  ASSUME FailingJobs = {}, IInv, NoFail, NEW c \in Clients,
         ClientStep(c) \/ Start(c) \/ Die(c) \/ Refused(c)
  PROVE  NoFail' /\ Keeps /\ LeavesDone
<1>1. UNCHANGED <<server, disk>>
  BY DEF ClientStep, Start, Ask, Quit, Probe, Finish, Die, Refused
<1>2. \A d \in Clients : rt'[d] = "ok"
  <2>1. CASE Finish(c)
    <3>1. ~MayFail(seg[c])
      BY DEF MayFail
    <3>2. PICK r \in IF MayFail(seg[c]) THEN {"ok", "fail"} ELSE {"ok"} :
             rt' = [rt EXCEPT ![c] = r]
      BY <2>1 DEF Finish
    <3> QED
      BY <3>1, <3>2 DEF NoFail, IInv, TypeOK
  <2>2. CASE Die(c)
    BY <2>2 DEF Die, NoFail, IInv, TypeOK
  <2>3. CASE Ask(c) \/ Quit(c) \/ Probe(c) \/ Start(c) \/ Refused(c)
    BY <2>3 DEF Ask, Quit, Probe, Start, Refused, NoFail
  <2> QED
    BY <2>1, <2>2, <2>3 DEF ClientStep
<1> QED
  BY <1>1, <1>2 DEF NoFail, Keeps, LeavesDone, server, disk

\* A step of the server that only goes round its loop.
LEMMA RoundEffect ==
  ASSUME IInv, NoFail, GoRound(mon, fetch) \/ UNCHANGED server,
         UNCHANGED <<disk, rt>>
  PROVE  NoFail' /\ Keeps /\ LeavesDone
<1>1. fetch \in FetchType /\ MonitorOK(mon) /\ \A j \in Jobs : mon.states[j] # "FAIL"
  BY DEF IInv, TypeOK, NoFail
<1>2. UNCHANGED <<mon, fetch>> /\ LeavesDone
  BY <1>1, GoRoundNoFail DEF IInv, server, LeavesDone
<1> QED
  BY <1>2 DEF NoFail, Keeps, disk

\* PLD_DEC.
LEMMA DisconnectEffect ==
  ASSUME IInv, NoFail, NEW c \in Clients, Disconnect(c), UNCHANGED <<disk, rt>>
  PROVE  NoFail' /\ Loses(c) /\ LeavesDone
<1> DEFINE m == exists_addr_idx(mon, c)
           f == IF phase = "main" /\ mon.addr[c] # None
                THEN rewind(fetch, mon.addr[c][1] - 1) ELSE fetch
<1>1. /\ MonitorOK(m)
      /\ m.addr = [mon.addr EXCEPT ![c] = None]
      /\ \A j \in Jobs : m.states[j] = IF mon.addr[c] # None /\ j \in Records(mon.addr[c])
                                       THEN "TODO" ELSE mon.states[j]
  BY ExistsAddrIdxKeeps DEF IInv
<1>2. f \in FetchType
  <2>1. mon.addr[c] \in Segment \cup {None}
    BY DEF IInv, TypeOK, MonitorType
  <2>2. mon.addr[c] # None => mon.addr[c][1] - 1 \in Cells \cup {NPOS}
    BY <2>1, NAssumption DEF Segment, Cells, NPOS
  <2> QED
    BY <2>2, RewindKeeps DEF IInv, TypeOK
<1>3. GoRound(m, f)
  BY DEF Disconnect
<1>4. f = IF phase = "main" /\ mon.addr[c] # None
          THEN rewind(fetch, mon.addr[c][1] - 1) ELSE fetch
  OBVIOUS
<1> HIDE DEF m, f
<1>5. \A j \in Jobs : m.states[j] # "FAIL"
  BY <1>1 DEF NoFail
<1>6. mon' = m /\ (phase = "main" => fetch' = f) /\ LeavesDone
      /\ (phase # "main" => UNCHANGED fetch)
  BY <1>1, <1>2, <1>3, <1>5, GoRoundNoFail DEF IInv
<1> QED
  BY <1>1, <1>4, <1>5, <1>6 DEF NoFail, Loses, Moves, Held, disk

\* PLD_GET: the records of the chunk were all to be done.
LEMMA HandleGetEffect ==
  ASSUME IInv, NoFail, NEW c \in Clients, HandleGet(c)
  PROVE  NoFail' /\ (Keeps \/ Takes(c)) /\ LeavesDone
<1> DEFINE f == make_chunk(mon, fetch)
           m == add_addr_idx(mon, c, f.begin, f.end)
<1>1. phase = "main" /\ word[c] = "GET" /\ UNCHANGED <<rt, disk>>
  BY DEF HandleGet
<1>2. PICK r \in S_get(c) :
        IF r = "ok" THEN GoRound(m, f)
        ELSE GoRound(mon, rewind(f, f.begin)) /\ Fault("lost")
  BY DEF HandleGet
<1>3. /\ f \in [begin : Cells, end : Cells]
      /\ \A j \in f.begin .. (f.end - 1) : mon.states[j] = "TODO"
  BY MakeChunkGives DEF IInv, TypeOK
<1>4. f = make_chunk(mon, fetch)
  OBVIOUS
<1> HIDE DEF f
<1>5. f \in FetchType /\ f.begin \in Cells /\ f.end \in Cells /\ <<f.begin, f.end>> \in Segment
  BY <1>3 DEF FetchType, Segment
<1>6. /\ MonitorOK(m)
      /\ m.addr = [mon.addr EXCEPT ![c] = <<f.begin, f.end>>]
      /\ \A j \in Jobs : m.states[j] = IF j \in Records(<<f.begin, f.end>>)
                                       THEN "INPROGRESS" ELSE mon.states[j]
  BY <1>5, AddAddrIdxKeeps DEF IInv
<1> HIDE DEF m
<1>7. CASE r = "ok"
  <2>1. \A j \in Jobs : m.states[j] # "FAIL"
    BY <1>6 DEF NoFail
  <2>2. mon' = m /\ fetch' = f /\ LeavesDone
    BY <1>1, <1>2, <1>5, <1>6, <1>7, <2>1, GoRoundNoFail DEF IInv
  <2>3. Records(<<f.begin, f.end>>) \subseteq In(mon, "TODO")
    BY <1>3, <1>5, NAssumption DEF Records, In, Jobs, Cells
  <2>4. Takes(c)
    BY <1>1, <1>4, <1>5, <1>6, <2>2, <2>3 DEF Takes, Moves
  <2> QED
    BY <1>1, <2>1, <2>2, <2>4 DEF NoFail, disk
<1>8. CASE r # "ok"
  <2>1. rewind(f, f.begin) \in FetchType
    BY <1>5, RewindKeeps
  <2>2. mon' = mon /\ Fault("lost") /\ LeavesDone
    BY <1>2, <1>8, <2>1, GoRoundNoFail DEF IInv, NoFail
  <2> QED
    BY <1>1, <2>2 DEF NoFail, Keeps, disk
<1> QED
  BY <1>7, <1>8

\* PLD_PUT: a result that arrives whole is a good one, for the records of the
\* entry of its peer.
LEMMA HandlePutEffect ==
  ASSUME IInv, NoFail, NEW c \in Clients, HandlePut(c)
  PROVE  /\ NoFail' /\ LeavesDone
         /\ \/ Alive(c) /\ Stores(c)
            \/ Keeps /\ (Alive(c) => Fault("corrupt"))
<1> DEFINE m == rem_addr_idx(mon, c)
<1>1. /\ conn[c] = "open" /\ word[c] = "PUT"
      /\ rt' = [rt EXCEPT ![c] = "ok"] /\ rt[c] = "ok"
  BY DEF HandlePut, NoFail
<1>2. PICK r \in S_put(c) :
        IF r = "ok" THEN WriteLog(c) /\ GoRound(m, fetch)
        ELSE /\ GoRound(mon, fetch) /\ UNCHANGED disk
             /\ Alive(c) => Fault("corrupt")
  BY <1>1 DEF HandlePut, S_put
<1>3. \A d \in Clients : rt'[d] = "ok"
  BY <1>1 DEF NoFail, IInv, TypeOK
<1>4. fetch \in FetchType /\ MonitorOK(mon) /\ \A j \in Jobs : mon.states[j] # "FAIL"
  BY DEF IInv, TypeOK, NoFail
<1>5. /\ MonitorOK(m)
      /\ m.addr = [mon.addr EXCEPT ![c] = None]
      /\ \A j \in Jobs : m.states[j] = IF mon.addr[c] # None /\ j \in Records(mon.addr[c])
                                       THEN "DONE" ELSE mon.states[j]
  BY <1>4, RemAddrIdxKeeps
<1> HIDE DEF m
<1>6. CASE r = "ok"
  <2>1. WriteLog(c) /\ GoRound(m, fetch) /\ Alive(c)
    BY <1>2, <1>6 DEF S_put
  <2>2. seg[c] # None /\ mon.addr[c] = seg[c]
    BY <1>1, <2>1 DEF IInv, PeerInv, Alive
  <2>3. \A j \in Jobs : j \in Records(seg[c]) <=> j \in Held(c)
    BY <2>2 DEF Held
  <2>4. /\ log' = [j \in Jobs |-> IF j \in Held(c) THEN "ok" ELSE log[j]]
        /\ oks' = [j \in Jobs |-> IF j \in Held(c) /\ oks[j] < 2 THEN oks[j] + 1 ELSE oks[j]]
    BY <1>1, <2>1, <2>3 DEF WriteLog
  <2>5. \A j \in Jobs : m.states[j] # "FAIL"
    BY <1>4, <1>5
  <2>6. UNCHANGED fetch /\ mon' = m /\ LeavesDone
    BY <1>4, <1>5, <2>1, <2>5, GoRoundNoFail DEF IInv
  <2>7. Stores(c)
    BY <1>5, <2>4, <2>6 DEF Stores, Moves, Held
  <2> QED
    BY <1>3, <2>1, <2>4, <2>5, <2>6, <2>7 DEF NoFail
<1>7. CASE r # "ok"
  <2>1. UNCHANGED <<mon, fetch, disk>> /\ LeavesDone
    BY <1>2, <1>4, <1>7, GoRoundNoFail DEF IInv
  <2> QED
    BY <1>2, <1>3, <1>7, <2>1 DEF NoFail, Keeps, disk
<1> QED
  BY <1>6, <1>7

\* The server starts again from its log.
LEMMA RestartEffect ==
  ASSUME IInv, NoFail, Restart
  PROVE  NoFail' /\ Reloads /\ LeavesDone
<1> DEFINE m == restart(log)
           s == LoopHead(m, NewFetch, 0)
<1>1. /\ MonitorOK(m)
      /\ m.addr = [c \in Clients |-> None]
      /\ \A j \in Jobs : m.states[j] = IF log[j] = "ok" THEN "DONE" ELSE "TODO"
  BY RestartKeeps DEF IInv, TypeOK
<1> HIDE DEF m
<1>2. NewFetch \in FetchType /\ 0 \in 0 .. Rounds
  BY NAssumption, RoundsAssumption DEF NewFetch, FetchType, Cells
<1>3. \A j \in Jobs : m.states[j] # "FAIL"
  BY <1>1
<1>4. /\ s.mon = m /\ s.fetch = NewFetch /\ s.round = 0
      /\ s.phase # "main" => 0 >= Rounds \/ In(m, "DONE") = Jobs
  BY <1>1, <1>2, <1>3, LoopHeadNoFail
<1>5. mon' = s.mon /\ fetch' = s.fetch /\ round' = s.round /\ phase' = s.phase
  BY DEF Restart, m
<1> HIDE DEF s
<1>6. UNCHANGED disk /\ rt' = [c \in Clients |-> "ok"]
  BY DEF Restart
<1>7. LeavesDone
  BY <1>4, <1>5 DEF In, LeavesDone
<1> QED
  BY <1>1, <1>3, <1>4, <1>5, <1>6, <1>7 DEF NoFail, Reloads, disk

\* Every step is one of the five.
LEMMA StepEffect ==
  ASSUME FailingJobs = {}, IInv, NoFail, [Next]_vars
  PROVE  /\ NoFail' /\ LeavesDone
         /\ \/ Keeps \/ Reloads
            \/ \E c \in Clients : Takes(c) \/ Stores(c) \/ Loses(c)
<1>1. ASSUME NEW c \in Clients, ServerStep(c)
      PROVE  NoFail' /\ LeavesDone /\ (Keeps \/ Takes(c) \/ Stores(c) \/ Loses(c))
  <2>1. CASE HandleConnect(c) \/ HandleProbe(c)
    BY <2>1, RoundEffect DEF HandleConnect, HandleProbe
  <2>2. CASE HandleGet(c)
    BY <2>2, HandleGetEffect
  <2>3. CASE HandlePut(c)
    BY <2>3, HandlePutEffect
  <2>4. CASE HandleStop(c) \/ Hangup(c)
    BY <2>4, DisconnectEffect DEF HandleStop, Hangup, client
  <2> QED
    BY <1>1, <2>1, <2>2, <2>3, <2>4 DEF ServerStep
<1>2. ASSUME NEW c \in Clients, ClientStep(c) \/ Start(c) \/ Die(c) \/ Refused(c)
      PROVE  NoFail' /\ LeavesDone /\ Keeps
  BY <1>2, ClientEffect
<1>3. CASE Elapsed
  BY <1>3, RoundEffect DEF Elapsed, client
<1>4. CASE ServerExit
  BY <1>4 DEF ServerExit, client, disk, NoFail, Keeps, LeavesDone
<1>5. CASE Restart
  BY <1>5, RestartEffect
<1>6. CASE UNCHANGED vars
  BY <1>6 DEF vars, disk, NoFail, Keeps, LeavesDone
<1> QED
  BY <1>1, <1>2, <1>3, <1>4, <1>5, <1>6 DEF Next

-----------------------------------------------------------------------------
(* The inductive invariant: besides OneHolder, a record is written exactly   *)
(* when its last log line is a good one, and it is done then, so that the    *)
(* records a restart finds in the log are the records that were done.        *)

WrittenIsDone ==
    \A j \in Jobs : /\ oks[j] <= 1
                    /\ oks[j] = 1 => log[j] = "ok"
                    /\ log[j] = "ok" => mon.states[j] = "DONE"

LInv == NoFail /\ OneHolder /\ WrittenIsDone /\ ExitMeansDone

\* A record that is done stays done; with the effects above that is because
\* only records to be done are handed out and only held ones are given back.
LEMMA StepKeepsDone ==
  ASSUME FailingJobs = {}, IInv, LInv, [Next]_vars,
         NEW j \in Jobs, mon.states[j] = "DONE"
  PROVE  mon'.states[j] = "DONE"
<1>1. \A c \in Clients : j \notin Held(c)
  BY DEF LInv, OneHolder, Holders, Held
<1>2. CASE Keeps
  BY <1>2 DEF Keeps
<1>3. CASE Reloads
  BY <1>3 DEF Reloads, IInv, DoneIsLogged, In
<1>4. ASSUME NEW c \in Clients, Takes(c)
      PROVE  mon'.states[j] = "DONE"
  BY <1>4 DEF Takes, Moves, In
<1>5. ASSUME NEW c \in Clients, Stores(c) \/ Loses(c)
      PROVE  mon'.states[j] = "DONE"
  BY <1>1, <1>5 DEF Stores, Loses, Moves
<1> QED
  BY <1>2, <1>3, <1>4, <1>5, StepEffect DEF LInv

\* No step makes a second holder of a record.
LEMMA StepOneHolder ==
  ASSUME FailingJobs = {}, IInv, LInv, [Next]_vars
  PROVE  OneHolder'
<1> USE DEF LInv
<1>0. mon.addr \in [Clients -> Segment \cup {None}]
  BY DEF IInv, TypeOK, MonitorType
<1>1. CASE Keeps
  BY <1>1 DEF Keeps, OneHolder, Holders
<1>2. CASE Reloads
  BY <1>2 DEF Reloads, OneHolder, Holders
<1>3. ASSUME NEW c \in Clients, Takes(c)
      PROVE  OneHolder'
  <2>1. PICK sg \in Segment :
          /\ Records(sg) \subseteq In(mon, "TODO")
          /\ Moves(c, sg, Records(sg), "INPROGRESS")
    BY <1>3 DEF Takes
  <2>2. \A j \in Records(sg) : Holders(j) = {}
    BY <2>1 DEF In, OneHolder
  <2>3. mon'.addr[c] = sg /\ \A d \in Clients \ {c} : mon'.addr[d] = mon.addr[d]
    BY <1>0, <2>1 DEF Moves
  <2> QED
    BY <2>1, <2>2, <2>3 DEF Moves, OneHolder, Holders
<1>4. ASSUME NEW c \in Clients, Stores(c) \/ Loses(c)
      PROVE  OneHolder'
  <2>1. /\ mon'.addr = [mon.addr EXCEPT ![c] = None]
        /\ \A j \in Jobs : j \in Held(c) \/ mon'.states[j] = mon.states[j]
    BY <1>4 DEF Stores, Loses, Moves
  <2>2. mon'.addr[c] = None /\ \A d \in Clients \ {c} : mon'.addr[d] = mon.addr[d]
    BY <1>0, <2>1
  <2>3. \A j \in Jobs : \A d \in Clients : d \in Holders(j)' => d \in Holders(j) /\ d # c
    BY <2>2 DEF Holders
  <2>4. \A j \in Jobs : \A d \in Clients \ {c} : d \in Holders(j) => j \notin Held(c)
    BY DEF Holders, Held, OneHolder
  <2>5. \A j \in Jobs : \A d \in Holders(j)' : d \in Clients
    BY DEF Holders
  <2> QED
    BY <2>1, <2>3, <2>4, <2>5 DEF OneHolder
<1> QED
  BY <1>1, <1>2, <1>3, <1>4, StepEffect

\* A result is stored for records that have no good line in the log yet.
LEMMA StepWritten ==
  ASSUME FailingJobs = {}, IInv, LInv, [Next]_vars
  PROVE  WrittenIsDone'
<1>0. oks \in [Jobs -> 0 .. 2]
  BY DEF IInv, TypeOK
<1>1. WrittenIsDone
  BY DEF LInv
<1>2. CASE UNCHANGED disk
  BY <1>1, <1>2, StepKeepsDone DEF WrittenIsDone, disk
<1>3. ASSUME NEW c \in Clients, Stores(c)
      PROVE  WrittenIsDone'
  <2> SUFFICES ASSUME NEW j \in Jobs
               PROVE  /\ oks'[j] <= 1
                      /\ oks'[j] = 1 => log'[j] = "ok"
                      /\ log'[j] = "ok" => mon'.states[j] = "DONE"
    BY DEF WrittenIsDone
  <2>1. CASE j \in Held(c)
    <3>1. mon.states[j] # "DONE"
      BY <2>1 DEF LInv, OneHolder, Held, Holders
    <3>2. oks[j] = 0
      BY <1>0, <1>1, <3>1 DEF WrittenIsDone
    <3> QED
      BY <1>3, <2>1, <3>2 DEF Stores, Moves
  <2>2. CASE j \notin Held(c)
    BY <1>1, <1>3, <2>2 DEF Stores, Moves, WrittenIsDone
  <2> QED
    BY <2>1, <2>2
<1> QED
  BY <1>2, <1>3, StepEffect DEF LInv, Keeps, Takes, Loses, Reloads

\* Once the loop is left with all results they stay.
LEMMA StepExit ==
  ASSUME FailingJobs = {}, IInv, LInv, [Next]_vars
  PROVE  ExitMeansDone'
<1> SUFFICES ASSUME phase' # "main", round' < Rounds
             PROVE  In(mon, "DONE")' = Jobs
  BY DEF ExitMeansDone
<1>1. round' \in 0 .. Rounds
  BY NextIInv DEF IInv, TypeOK
<1>2. CASE phase # "main" /\ UNCHANGED round
  <2>1. In(mon, "DONE") = Jobs
    BY <1>2 DEF LInv, ExitMeansDone
  <2> QED
    BY <2>1, StepKeepsDone DEF In
<1> QED
  BY <1>1, <1>2, StepEffect, RoundsAssumption DEF LInv, LeavesDone

-----------------------------------------------------------------------------
\* The invariant holds at the start of the server.
LEMMA InitLInv ==
  ASSUME Init
  PROVE  LInv
<1> DEFINE s == LoopHead(NewMonitor, NewFetch, 0)
<1>1. NewFetch \in FetchType /\ 0 \in 0 .. Rounds
  BY NAssumption, RoundsAssumption DEF NewFetch, FetchType, Cells
<1>2. /\ \A j \in Jobs : NewMonitor.states[j] = "TODO"
      /\ \A c \in Clients : NewMonitor.addr[c] = None
  BY NAssumption DEF NewMonitor, Jobs, Cells
<1>3. /\ s.mon = NewMonitor /\ s.round = 0
      /\ s.phase # "main" => 0 >= Rounds \/ In(NewMonitor, "DONE") = Jobs
  BY <1>1, <1>2, NewMonitorOK, LoopHeadNoFail
<1>4. mon = NewMonitor /\ round = 0 /\ phase = s.phase
  BY <1>3 DEF Init
<1> HIDE DEF s
<1>5. NoFail /\ WrittenIsDone
  BY <1>2, <1>4 DEF Init, NoFail, WrittenIsDone
<1>6. OneHolder
  BY <1>2, <1>4 DEF OneHolder, Holders
<1>7. ExitMeansDone
  BY <1>3, <1>4, RoundsAssumption DEF ExitMeansDone
<1> QED
  BY <1>5, <1>6, <1>7 DEF LInv

\* While no command fails, LInv holds in every state.
THEOREM LeaseInvariance ==
  ASSUME FailingJobs = {}
  PROVE  Spec => []LInv
<1>1. Init => LInv
  BY InitLInv
<1>2. IInv /\ LInv /\ [Next]_vars => LInv'
  BY StepEffect, StepOneHolder, StepWritten, StepExit DEF LInv
<1>3. Spec => Init /\ [][Next]_vars
  BY DEF Spec
<1> QED
  BY <1>1, <1>2, <1>3, Invariance, PTL

\* No two peers compute the same record.
THEOREM OneHolderAlways ==
  ASSUME FailingJobs = {}
  PROVE  Spec => []OneHolder
<1>1. LInv => OneHolder
  BY DEF LInv
<1> QED
  BY <1>1, LeaseInvariance, PTL

\* No result is appended to the output twice.
THEOREM WrittenOnce ==
  ASSUME FailingJobs = {}
  PROVE  Spec => []AtMostOnceWritten
<1>1. LInv => AtMostOnceWritten
  BY DEF LInv, WrittenIsDone, AtMostOnceWritten
<1> QED
  BY <1>1, LeaseInvariance, PTL

\* The principal loop ends before the last round only with all results.
THEOREM ExitsWithAllDone ==
  ASSUME FailingJobs = {}
  PROVE  Spec => []ExitMeansDone
<1>1. LInv => ExitMeansDone
  BY DEF LInv
<1> QED
  BY <1>1, LeaseInvariance, PTL

\* No disconnection and no restart takes a result back.
THEOREM DoneIsFinal ==
  ASSUME FailingJobs = {}
  PROVE  Spec => DoneStays
<1>1. IInv /\ LInv /\ [Next]_vars =>
        [\A j \in Jobs : mon.states[j] = "DONE" => mon'.states[j] = "DONE"]_vars
  BY StepKeepsDone
<1>2. Spec => Init /\ [][Next]_vars
  BY DEF Spec
<1> QED
  BY <1>1, <1>2, Invariance, LeaseInvariance, PTL DEF DoneStays

-----------------------------------------------------------------------------
(* The server implements JobLease while no transfer is corrupted either.     *)
(* Then OwnInv holds: each record in progress has a holder, and a peer that  *)
(* asks for a chunk holds none.                                              *)

\* What the refinement mapping says of a record with one holder at most.
MappingOK ==
    \A j \in Jobs :
        /\ leaseStatus[j] = IF mon.states[j] = "DONE" THEN "complete"
                            ELSE IF mon.states[j] = "INPROGRESS" THEN "leased" ELSE "free"
        /\ leaseHolder[j] \in Clients \cup {None}
        /\ \A c \in Clients : leaseHolder[j] = c <=> j \in Held(c)
        /\ leaseHolder[j] = None <=> mon.states[j] # "INPROGRESS"

\* With one holder at most the mapping names it.
LEMMA Mapping ==
  OneHolder /\ OwnInv => MappingOK
<1> SUFFICES ASSUME OneHolder, OwnInv, NEW j \in Jobs
             PROVE  /\ leaseStatus[j] = IF mon.states[j] = "DONE" THEN "complete"
                            ELSE IF mon.states[j] = "INPROGRESS" THEN "leased" ELSE "free"
                    /\ leaseHolder[j] \in Clients \cup {None}
                    /\ \A c \in Clients : leaseHolder[j] = c <=> j \in Held(c)
                    /\ leaseHolder[j] = None <=> mon.states[j] # "INPROGRESS"
  BY DEF MappingOK
<1>1. leaseStatus[j] = IF mon.states[j] = "DONE" THEN "complete"
                       ELSE IF mon.states[j] = "INPROGRESS" THEN "leased" ELSE "free"
  BY DEF leaseStatus
<1>2. None \notin Clients
  BY NoneAssumption
<1>3. \A c \in Clients : c \in Holders(j) <=> j \in Held(c)
  BY DEF Holders, Held
<1>4. CASE mon.states[j] = "INPROGRESS"
  <2>1. PICK d \in Clients : d \in Holders(j)
    BY <1>4 DEF OwnInv, In, Answers, Holders
  <2>2. Holders(j) = {d}
    BY <2>1 DEF OneHolder, Holders
  <2>3. leaseHolder[j] = d
    BY <1>4, <2>2 DEF leaseHolder
  <2> QED
    BY <1>1, <1>2, <1>3, <2>2, <2>3, <1>4
<1>5. CASE mon.states[j] # "INPROGRESS"
  <2>1. Holders(j) = {}
    BY <1>5 DEF OneHolder
  <2>2. leaseHolder[j] = None
    BY <1>5 DEF leaseHolder
  <2> QED
    BY <1>1, <1>2, <1>3, <1>5, <2>1, <2>2
<1> QED
  BY <1>4, <1>5

\* A peer that has sent PLD_GET holds no record.
LEMMA AskerHoldsNothing ==
  ASSUME OneHolder, OwnInv, NEW c \in Clients, word[c] = "GET"
  PROVE  Held(c) = {}
<1> SUFFICES ASSUME NEW j \in Held(c)
             PROVE  FALSE
  OBVIOUS
<1>1. j \in Jobs /\ c \in Holders(j)
  BY DEF Held, Holders
<1>2. mon.states[j] = "INPROGRESS"
  BY <1>1 DEF OneHolder
<1>3. PICK d \in Clients : Answers(d, j)
  BY <1>1, <1>2 DEF OwnInv, In
<1>4. d \in Holders(j) /\ d # c
  BY <1>3 DEF Answers, Holders
<1> QED
  BY <1>1, <1>4 DEF OneHolder

\* How a step that concerns peer c gives the records of S to state s and
\* holder h of the abstract specification.
LEMMA GiveStep ==
  ASSUME IInv, MappingOK, MappingOK', NEW c \in Clients, NEW S \in SUBSET Jobs,
         Held(c) \subseteq S, NEW e \in Segment \cup {None},
         NEW t \in State \ {"FAIL"}, Moves(c, e, S, t),
         NEW h, h = (IF t = "INPROGRESS" THEN c ELSE None),
         t = "INPROGRESS" => e # None /\ S = Records(e)
  PROVE  L!Give(S, IF t = "DONE" THEN "complete"
                   ELSE IF t = "INPROGRESS" THEN "leased" ELSE "free", h)
<1>0. mon.addr \in [Clients -> Segment \cup {None}]
  BY DEF IInv, TypeOK, MonitorType
<1>1. \A d \in Clients \ {c} : \A j \in Jobs : j \in Held(d)' <=> j \in Held(d)
  BY <1>0 DEF Held, Moves
<1>2. t = "INPROGRESS" => \A j \in S : j \in Held(c)'
  BY <1>0, NoneAssumption DEF Held, Moves
<1>3. \A j \in Jobs : mon'.states[j] = IF j \in S THEN t ELSE mon.states[j]
  BY DEF Moves
<1>4. \A j \in Jobs : leaseStatus'[j] =
        IF j \in S THEN IF t = "DONE" THEN "complete"
                        ELSE IF t = "INPROGRESS" THEN "leased" ELSE "free"
        ELSE leaseStatus[j]
  BY <1>3 DEF MappingOK
<1>5. \A j \in S : leaseHolder'[j] = h
  BY <1>2, <1>3 DEF MappingOK
<1>6. \A j \in Jobs \ S : leaseHolder'[j] = leaseHolder[j]
  <2> TAKE j \in Jobs \ S
  <2>1. CASE mon.states[j] = "INPROGRESS"
    <3>1. PICK d \in Clients : leaseHolder[j] = d
      BY <2>1 DEF MappingOK
    <3>2. j \in Held(d) /\ d # c
      BY <3>1 DEF MappingOK
    <3> QED
      BY <1>1, <3>1, <3>2 DEF MappingOK
  <2>2. CASE mon.states[j] # "INPROGRESS"
    BY <1>3, <2>2 DEF MappingOK
  <2> QED
    BY <2>1, <2>2
<1>7. /\ leaseStatus' = [j \in Jobs |-> leaseStatus'[j]]
      /\ leaseHolder' = [j \in Jobs |-> leaseHolder'[j]]
  BY DEF leaseStatus, leaseHolder
<1> HIDE DEF Moves
<1> QED
  BY <1>4, <1>5, <1>6, <1>7 DEF L!Give

\* The five effects are steps of the abstract specification, or stutters.
LEMMA LeaseStep ==
  ASSUME FailingJobs = {}, IInv, LInv, OwnInv, MappingOK, MappingOK', [Next]_vars
  PROVE  [L!Next]_(L!lease)
<1> USE DEF LInv
<1>1. CASE Keeps
  <2>1. \A j \in Jobs : leaseStatus'[j] = leaseStatus[j]
    BY <1>1 DEF Keeps, MappingOK
  <2>2. \A c \in Clients : Held(c)' = Held(c)
    BY <1>1 DEF Keeps, Held
  <2>3. \A j \in Jobs : leaseHolder'[j] = leaseHolder[j]
    <3> TAKE j \in Jobs
    <3>1. CASE mon.states[j] = "INPROGRESS"
      BY <2>2, <3>1 DEF MappingOK
    <3>2. CASE mon.states[j] # "INPROGRESS"
      BY <1>1, <3>2 DEF MappingOK, Keeps
    <3> QED
      BY <3>1, <3>2
  <2>4. /\ leaseStatus = [j \in Jobs |-> leaseStatus[j]]
        /\ leaseHolder = [j \in Jobs |-> leaseHolder[j]]
        /\ leaseStatus' = [j \in Jobs |-> leaseStatus'[j]]
        /\ leaseHolder' = [j \in Jobs |-> leaseHolder'[j]]
    BY DEF leaseStatus, leaseHolder
  <2> QED
    BY <2>1, <2>3, <2>4 DEF L!lease
<1>2. CASE Reloads
  <2> DEFINE S == {j \in Jobs : leaseStatus[j] = "leased"}
  <2>1. \A j \in Jobs : log[j] = "ok" <=> mon.states[j] = "DONE"
    BY DEF IInv, DoneIsLogged, In, WrittenIsDone
  <2>2. \A j \in Jobs : leaseStatus'[j] = IF j \in S THEN "free" ELSE leaseStatus[j]
    BY <1>2, <2>1 DEF Reloads, MappingOK
  <2>3. \A j \in Jobs : leaseHolder'[j] = IF j \in S THEN None ELSE leaseHolder[j]
    BY <1>2, <2>1 DEF Reloads, MappingOK
  <2>4. /\ leaseStatus' = [j \in Jobs |-> leaseStatus'[j]]
        /\ leaseHolder' = [j \in Jobs |-> leaseHolder'[j]]
    BY DEF leaseStatus, leaseHolder
  <2>5. L!ReleaseAll
    BY <2>2, <2>3, <2>4 DEF L!ReleaseAll, L!Give
  <2> QED
    BY <2>5 DEF L!Next
<1>3. ASSUME NEW c \in Clients, Takes(c)
      PROVE  L!Next
  <2>1. PICK sg \in Segment :
          /\ Records(sg) \subseteq In(mon, "TODO")
          /\ Moves(c, sg, Records(sg), "INPROGRESS")
    BY <1>3 DEF Takes
  <2>2. Held(c) = {}
    BY <1>3, AskerHoldsNothing DEF Takes
  <2>3. Records(sg) \in SUBSET Jobs /\ sg # None
    BY <2>1, NoneAssumption DEF In
  <2>4. L!Give(Records(sg), "leased", c)
    BY <2>1, <2>2, <2>3, GiveStep DEF State
  <2>5. Records(sg) \in SUBSET {j \in Jobs : leaseStatus[j] = "free"}
    BY <2>1, <2>3 DEF In, MappingOK
  <2>6. L!HeldBy(c) = {}
    BY <2>2 DEF L!HeldBy, MappingOK
  <2>7. L!Lease(c)
    BY <2>4, <2>5, <2>6 DEF L!Lease
  <2> QED
    BY <2>7 DEF L!Next
<1>4. ASSUME NEW c \in Clients, Stores(c) \/ Loses(c)
      PROVE  L!Next
  <2>1. L!HeldBy(c) = Held(c)
    BY DEF L!HeldBy, MappingOK, Held
  <2>2. Held(c) \in SUBSET Jobs
    BY DEF Held
  <2>3. CASE Stores(c)
    <3>1. L!Give(Held(c), "complete", None)
      BY <2>2, <2>3, GiveStep DEF Stores, State
    <3> QED
      BY <2>1, <3>1 DEF L!Complete, L!Next
  <2>4. CASE Loses(c)
    <3>1. L!Give(Held(c), "free", None)
      BY <2>2, <2>4, GiveStep DEF Loses, State
    <3> QED
      BY <2>1, <3>1 DEF L!Release, L!Next
  <2> QED
    BY <1>4, <2>3, <2>4
<1> QED
  BY <1>1, <1>2, <1>3, <1>4, StepEffect

\* Without corrupted transfers the counter of them stays at zero.
LEMMA NoCorruptStep ==
  ASSUME MaxCorrupt = 0, IInv, faults["corrupt"] = 0, [Next]_vars
  PROVE  faults'["corrupt"] = 0
<1>1. \A k \in {"deaths", "lost", "restarts"} : Fault(k) => faults'["corrupt"] = 0
  BY DEF Fault, IInv, TypeOK
<1>2. ASSUME NEW c \in Clients, ServerStep(c)
      PROVE  faults'["corrupt"] = 0
  <2>1. CASE HandleGet(c)
    <3>1. Fault("lost") \/ TakeChunk(c, make_chunk(mon, fetch))
      BY <2>1 DEF HandleGet
    <3>2. ASSUME NEW f, TakeChunk(c, f)
          PROVE  UNCHANGED faults
      BY <3>2 DEF TakeChunk, C_get
    <3> QED
      BY <1>1, <3>1, <3>2
  <2>2. CASE HandlePut(c)
    BY <2>2 DEF HandlePut, S_put
  <2>3. CASE HandleConnect(c) \/ HandleProbe(c) \/ HandleStop(c) \/ Hangup(c)
    BY <2>3 DEF HandleConnect, HandleProbe, HandleStop, Hangup
  <2> QED
    BY <1>2, <2>1, <2>2, <2>3 DEF ServerStep
<1>3. ASSUME NEW c \in Clients, ClientStep(c) \/ Start(c) \/ Die(c) \/ Refused(c)
      PROVE  faults'["corrupt"] = 0
  BY <1>1, <1>3 DEF ClientStep, Ask, Quit, Probe, Finish, Start, Die, Refused
<1>4. CASE Elapsed \/ ServerExit \/ Restart \/ UNCHANGED vars
  BY <1>1, <1>4 DEF Elapsed, ServerExit, Restart, vars
<1> QED
  BY <1>2, <1>3, <1>4 DEF Next

\* No record is in progress at the start.
LEMMA InitLease ==
  ASSUME Init
  PROVE  OwnInv /\ faults["corrupt"] = 0 /\ L!Init
<1> DEFINE s == LoopHead(NewMonitor, NewFetch, 0)
<1>1. NewFetch \in FetchType /\ 0 \in 0 .. Rounds
  BY NAssumption, RoundsAssumption DEF NewFetch, FetchType, Cells
<1>2. \A j \in Jobs : NewMonitor.states[j] = "TODO"
  BY NAssumption DEF NewMonitor, Jobs, Cells
<1>3. s.mon = NewMonitor
  BY <1>1, <1>2, NewMonitorOK, LoopHeadNoFail
<1>4. mon = NewMonitor
  BY <1>3 DEF Init
<1> HIDE DEF s
<1>5. OwnInv
  BY <1>2, <1>4 DEF OwnInv, In
<1>6. L!Init
  BY <1>2, <1>4 DEF L!Init, leaseStatus, leaseHolder
<1> QED
  BY <1>5, <1>6 DEF Init

\* The server implements JobLease in an environment where no command fails and
\* no transfer is corrupted, whoever dies and however often it is restarted.
THEOREM ImplementsJobLease ==
  ASSUME FailingJobs = {}, MaxCorrupt = 0
  PROVE  Spec => LeaseSpec
<1> DEFINE NoCorrupt == faults["corrupt"] = 0
<1>1. Spec => Init /\ [][Next]_vars
  BY DEF Spec
<1>2. Init => OwnInv /\ NoCorrupt /\ L!Init
  BY InitLease
<1>3. IInv /\ NoCorrupt /\ [Next]_vars => NoCorrupt'
  BY NoCorruptStep
<1>4. IInv /\ OwnInv /\ NoCorrupt' /\ [Next]_vars => OwnInv'
  BY NextOwn
<1>5. LInv => OneHolder
  BY DEF LInv
<1>6. IInv /\ LInv /\ OwnInv /\ MappingOK /\ MappingOK' /\ [Next]_vars
        => [L!Next]_(L!lease)
  BY LeaseStep
<1> HIDE DEF NoCorrupt
<1> QED
  BY <1>1, <1>2, <1>3, <1>4, <1>5, <1>6, Invariance, LeaseInvariance, Mapping, PTL
     DEF LeaseSpec, L!Spec

-----------------------------------------------------------------------------
(* Records to be done are never behind the cursor, for every number of       *)
(* records and peers and every policy, in the environments where that is so: *)
(* no command fails, no transfer is corrupted, no send fails, and one client *)
(* at most dies.  A second death may come while begin_index is (size_type)   *)
(* (-1), and a failed send leaves its records behind (README, Findings).     *)

-----------------------------------------------------------------------------
(* The inductive invariant.  PeerQuiet: a process that lives and has an      *)
(* entry has a chunk.  OneDeath: only a client that died leaves an entry or  *)
(* a word behind, and the cursor is at NPOS only after it was disconnected.  *)
(* CursorInv: a record in progress inside the last chunk made belongs to a   *)
(* peer that was given exactly this chunk; rewinding to the record before    *)
(* the segment of a peer then always moves the cursor far enough.            *)

PeerQuiet ==
    \A c \in Clients :
        /\ proc[c] = "idle" => word[c] = "none"
        /\ mon.addr[c] # None /\ proc[c] # "off" => seg[c] # None

\* The peers of dead clients that left something for the server to handle.
Left == {c \in Clients : proc[c] = "off" /\ (word[c] # "none" \/ mon.addr[c] # None)}

OneDeath ==
    /\ faults["deaths"] = 0 => Left = {} /\ fetch.begin # NPOS
    /\ \A c, d \in Left : c = d
    /\ fetch.begin = NPOS => Left = {}

CursorInv ==
    phase = "main" =>
        /\ NothingBehindCursor
        /\ fetch.begin # NPOS =>
             /\ fetch.begin <= fetch.end
             /\ \A c \in Clients : \A j \in Held(c) :
                  j \in fetch.begin .. (fetch.end - 1)
                      => mon.addr[c] = <<fetch.begin, fetch.end>>

CInv == PeerQuiet /\ OneDeath /\ CursorInv

-----------------------------------------------------------------------------
\* What PLD_GET does to the process that asked, if its chunk is not corrupted.
LEMMA GetAnswer ==
  ASSUME faults'["corrupt"] = 0, IInv, NEW c \in Clients, HandleGet(c)
  PROVE  /\ word' = [word EXCEPT ![c] = "none"]
         /\ word[c] = "GET" /\ UNCHANGED conn
         /\ Alive(c) => /\ proc' = [proc EXCEPT ![c] = "running"]
                        /\ \E sg \in Segment : seg' = [seg EXCEPT ![c] = sg]
         /\ ~Alive(c) => UNCHANGED <<proc, seg>>
<1> DEFINE f == make_chunk(mon, fetch)
<1>1. /\ word' = [word EXCEPT ![c] = "none"]
      /\ word[c] = "GET" /\ UNCHANGED conn
  BY DEF HandleGet
<1>2. PICK r \in S_get(c) :
        IF r = "ok" THEN TakeChunk(c, f) ELSE UNCHANGED <<proc, seg>>
  BY DEF HandleGet
<1>3. f \in [begin : Cells, end : Cells]
  BY MakeChunkGives DEF IInv, TypeOK
<1> HIDE DEF f
<1>4. <<f.begin, f.end>> \in Segment
  BY <1>3 DEF Segment
<1>5. CASE Alive(c)
  <2>1. TakeChunk(c, f)
    BY <1>2, <1>5 DEF S_get
  <2>2. ~Fault("corrupt")
    BY DEF Fault, IInv, TypeOK
  <2> QED
    BY <1>1, <1>4, <1>5, <2>1, <2>2 DEF TakeChunk
<1>6. CASE ~Alive(c)
  BY <1>1, <1>2, <1>6 DEF TakeChunk
<1> QED
  BY <1>5, <1>6

\* What PLD_PUT does: a living process gets rid of its entry with its chunk.
LEMMA PutAnswer ==
  ASSUME faults'["corrupt"] = 0, IInv, NoFail, NEW c \in Clients, HandlePut(c)
  PROVE  /\ word' = [word EXCEPT ![c] = "none"]
         /\ word[c] = "PUT" /\ UNCHANGED conn
         /\ proc' = IF Alive(c) THEN [proc EXCEPT ![c] = "idle"] ELSE proc
         /\ seg' = [seg EXCEPT ![c] = None]
         /\ Alive(c) => Stores(c)
         /\ ~Alive(c) => Keeps
<1>1. ~Fault("corrupt")
  BY DEF Fault, IInv, TypeOK
<1>2. (Alive(c) /\ Stores(c)) \/ (Keeps /\ ~Alive(c))
  BY <1>1, HandlePutEffect
<1>3. /\ word' = [word EXCEPT ![c] = "none"]
      /\ word[c] = "PUT" /\ UNCHANGED conn
      /\ proc' = IF Alive(c) THEN [proc EXCEPT ![c] = "idle"] ELSE proc
      /\ seg' = [seg EXCEPT ![c] = None]
  BY DEF HandlePut
<1> QED
  BY <1>2, <1>3

\* PLD_CON, PLD_PING and PLD_INFO, and an elapsed wait.
LEMMA RoundKeeps ==
  ASSUME IInv, NoFail, GoRound(mon, fetch) \/ UNCHANGED server
  PROVE  UNCHANGED <<mon, fetch>>
<1>1. fetch \in FetchType /\ MonitorOK(mon) /\ \A j \in Jobs : mon.states[j] # "FAIL"
  BY DEF IInv, TypeOK, NoFail
<1> QED
  BY <1>1, GoRoundNoFail DEF IInv, server

-----------------------------------------------------------------------------
\* A process between two chunks has sent nothing and has no entry.
LEMMA StepQuiet ==
  ASSUME FailingJobs = {}, faults'["corrupt"] = 0, IInv, NoFail, PeerQuiet, [Next]_vars
  PROVE  PeerQuiet'
<1>0. /\ mon.addr \in [Clients -> Segment \cup {None}]
      /\ proc \in [Clients -> {"off", "auth", "idle", "running", "wait"}]
      /\ seg \in [Clients -> Segment \cup {None}]
      /\ word \in [Clients -> {"none", "GET", "PUT", "PROBE"}]
  BY DEF IInv, TypeOK, MonitorType
<1>1. ASSUME NEW c \in Clients, HandleConnect(c) \/ HandleProbe(c)
      PROVE  PeerQuiet'
  <2>1. UNCHANGED mon
    BY <1>1, RoundKeeps DEF HandleConnect, HandleProbe
  <2>2. CASE HandleConnect(c)
    BY <1>0, <2>1, <2>2 DEF HandleConnect, Alive, PeerQuiet, IInv, PeerInv
  <2>3. CASE HandleProbe(c)
    BY <1>0, <2>1, <2>3 DEF HandleProbe, PeerQuiet
  <2> QED
    BY <1>1, <2>2, <2>3
<1>2. ASSUME NEW c \in Clients, HandleGet(c)
      PROVE  PeerQuiet'
  <2>1. /\ word' = [word EXCEPT ![c] = "none"]
        /\ Alive(c) => /\ proc' = [proc EXCEPT ![c] = "running"]
                       /\ \E sg \in Segment : seg' = [seg EXCEPT ![c] = sg]
        /\ ~Alive(c) => UNCHANGED <<proc, seg>>
    BY <1>2, GetAnswer
  <2>2. \A d \in Clients \ {c} : mon'.addr[d] = mon.addr[d]
    BY <1>0, <1>2, HandleGetEffect DEF Keeps, Takes, Moves
  <2>3. \A d \in Clients \ {c} : word'[d] = word[d] /\ proc'[d] = proc[d] /\ seg'[d] = seg[d]
    BY <1>0, <2>1
  <2>4. proc'[c] # "idle" /\ (proc'[c] # "off" => seg'[c] # None)
    BY <1>0, <2>1, NoneAssumption DEF Alive
  <2> QED
    BY <2>2, <2>3, <2>4 DEF PeerQuiet
<1>3. ASSUME NEW c \in Clients, HandlePut(c)
      PROVE  PeerQuiet'
  <2>1. /\ word' = [word EXCEPT ![c] = "none"]
        /\ proc' = IF Alive(c) THEN [proc EXCEPT ![c] = "idle"] ELSE proc
        /\ seg' = [seg EXCEPT ![c] = None]
        /\ Alive(c) => Stores(c)
        /\ ~Alive(c) => Keeps
    BY <1>3, PutAnswer
  <2>2. \A d \in Clients \ {c} : mon'.addr[d] = mon.addr[d]
    BY <1>0, <2>1 DEF Keeps, Stores, Moves
  <2>3. Alive(c) => mon'.addr[c] = None
    BY <1>0, <2>1 DEF Stores, Moves
  <2> QED
    BY <1>0, <2>1, <2>2, <2>3 DEF PeerQuiet, Alive
<1>4. ASSUME NEW c \in Clients, HandleStop(c) \/ Hangup(c)
      PROVE  PeerQuiet'
  <2>1. mon'.addr = [mon.addr EXCEPT ![c] = None]
    BY <1>4, DisconnectEffect DEF HandleStop, Hangup, client, Loses, Moves
  <2>2. word' = [word EXCEPT ![c] = "none"] /\ UNCHANGED seg
    BY <1>4 DEF HandleStop, Hangup, client, Disconnect
  <2>3. \A d \in Clients : proc'[d] = proc[d] \/ d = c
    BY <1>0, <1>4 DEF HandleStop, Hangup, client
  <2> QED
    BY <1>0, <2>1, <2>2, <2>3 DEF PeerQuiet
<1>5. ASSUME NEW c \in Clients, ClientStep(c) \/ Start(c) \/ Die(c) \/ Refused(c)
      PROVE  PeerQuiet'
  <2>1. UNCHANGED mon
    BY <1>5 DEF ClientStep, Ask, Quit, Probe, Finish, Start, Die, Refused, server
  <2>2. CASE ClientStep(c)
    BY <1>0, <2>1, <2>2 DEF ClientStep, Ask, Quit, Probe, Finish, net, PeerQuiet
  <2>3. CASE Start(c)
    BY <1>0, <2>1, <2>3 DEF Start, PeerQuiet, IInv, PeerInv
  <2>4. CASE Die(c) \/ Refused(c)
    BY <1>0, <2>1, <2>4 DEF Die, Refused, net, PeerQuiet
  <2> QED
    BY <1>5, <2>2, <2>3, <2>4
<1>6. CASE Elapsed
  BY <1>6, RoundKeeps DEF Elapsed, net, client, PeerQuiet
<1>7. CASE ServerExit \/ UNCHANGED vars
  BY <1>7 DEF ServerExit, vars, net, client, PeerQuiet
<1>8. CASE Restart
  BY <1>8 DEF Restart, PeerQuiet
<1> QED
  BY <1>1, <1>2, <1>3, <1>4, <1>5, <1>6, <1>7, <1>8 DEF Next, ServerStep

-----------------------------------------------------------------------------
\* No step but a death adds to the peers dead clients left behind.
LEMMA LeftShrinks ==
  ASSUME FailingJobs = {}, faults'["corrupt"] = 0, IInv, NoFail, PeerQuiet, [Next]_vars,
         \A c \in Clients : ~Die(c)
  PROVE  Left' \subseteq Left /\ faults'["deaths"] = faults["deaths"]
<1>0. /\ mon.addr \in [Clients -> Segment \cup {None}]
      /\ proc \in [Clients -> {"off", "auth", "idle", "running", "wait"}]
      /\ word \in [Clients -> {"none", "GET", "PUT", "PROBE"}]
      /\ faults \in [{"deaths", "corrupt", "lost", "restarts"} -> Nat]
  BY DEF IInv, TypeOK, MonitorType
<1>1. \A k \in {"corrupt", "lost", "restarts"} :
        Fault(k) => faults'["deaths"] = faults["deaths"]
  BY <1>0 DEF Fault
<1>2. ASSUME NEW c \in Clients, HandleConnect(c) \/ HandleProbe(c)
      PROVE  Left' \subseteq Left /\ faults' = faults
  <2>1. UNCHANGED <<mon, faults>>
    BY <1>2, RoundKeeps DEF HandleConnect, HandleProbe
  <2>2. CASE HandleConnect(c)
    BY <1>0, <2>1, <2>2 DEF HandleConnect, Alive, Left, IInv, PeerInv
  <2>3. CASE HandleProbe(c)
    <3>1. mon.addr[c] # None => c \in Left
      BY <2>3 DEF HandleProbe, Left, PeerQuiet, IInv, PeerInv
    <3> QED
      BY <1>0, <2>1, <2>3, <3>1 DEF HandleProbe, Left
  <2> QED
    BY <1>2, <2>2, <2>3
<1>3. ASSUME NEW c \in Clients, HandleGet(c)
      PROVE  Left' \subseteq Left /\ faults'["deaths"] = faults["deaths"]
  <2>1. /\ word' = [word EXCEPT ![c] = "none"] /\ word[c] = "GET"
        /\ Alive(c) => proc' = [proc EXCEPT ![c] = "running"]
        /\ ~Alive(c) => UNCHANGED proc
    BY <1>3, GetAnswer
  <2>2. \A d \in Clients \ {c} : mon'.addr[d] = mon.addr[d]
    BY <1>0, <1>3, HandleGetEffect DEF Keeps, Takes, Moves
  <2>3. Left' \subseteq Left
    BY <1>0, <2>1, <2>2 DEF Left, Alive
  <2>4. faults' = faults \/ Fault("corrupt") \/ Fault("lost")
    BY <1>3 DEF HandleGet, TakeChunk
  <2> QED
    BY <1>1, <2>3, <2>4
<1>4. ASSUME NEW c \in Clients, HandlePut(c)
      PROVE  Left' \subseteq Left /\ faults'["deaths"] = faults["deaths"]
  <2>1. /\ word' = [word EXCEPT ![c] = "none"] /\ word[c] = "PUT"
        /\ proc' = IF Alive(c) THEN [proc EXCEPT ![c] = "idle"] ELSE proc
        /\ Alive(c) => Stores(c)
        /\ ~Alive(c) => Keeps
    BY <1>4, PutAnswer
  <2>2. \A d \in Clients \ {c} : mon'.addr[d] = mon.addr[d]
    BY <1>0, <2>1 DEF Keeps, Stores, Moves
  <2>3. Left' \subseteq Left
    BY <1>0, <2>1, <2>2 DEF Left, Alive
  <2>4. faults' = faults \/ Fault("corrupt")
    BY <1>4 DEF HandlePut
  <2> QED
    BY <1>1, <2>3, <2>4
<1>5. ASSUME NEW c \in Clients, HandleStop(c) \/ Hangup(c)
      PROVE  Left' \subseteq Left /\ faults' = faults
  <2>1. mon'.addr = [mon.addr EXCEPT ![c] = None]
    BY <1>5, DisconnectEffect DEF HandleStop, Hangup, client, Loses, Moves
  <2>2. word' = [word EXCEPT ![c] = "none"] /\ UNCHANGED faults
    BY <1>5 DEF HandleStop, Hangup, Disconnect
  <2>3. \A d \in Clients : proc'[d] = proc[d] \/ d = c
    BY <1>0, <1>5 DEF HandleStop, Hangup, client
  <2> QED
    BY <1>0, <2>1, <2>2, <2>3 DEF Left
<1>6. ASSUME NEW c \in Clients, ClientStep(c) \/ Start(c) \/ Refused(c)
      PROVE  Left' \subseteq Left /\ faults' = faults
  <2>1. UNCHANGED <<mon, faults>>
    BY <1>6 DEF ClientStep, Ask, Quit, Probe, Finish, Start, Refused, server
  <2>2. CASE Ask(c) \/ Probe(c) \/ Finish(c) \/ Start(c)
    BY <1>0, <2>1, <2>2 DEF Ask, Probe, Finish, Start, Left
  <2>3. CASE Quit(c)
    <3>1. word[c] = "none" /\ mon.addr[c] = None
      BY <2>3 DEF Quit, PeerQuiet, IInv, PeerInv
    <3> QED
      BY <1>0, <2>1, <2>3, <3>1 DEF Quit, net, Left
  <2>4. CASE Refused(c)
    BY <1>0, <2>1, <2>4 DEF Refused, Left, IInv, PeerInv
  <2> QED
    BY <1>6, <2>1, <2>2, <2>3, <2>4 DEF ClientStep
<1>7. CASE Elapsed
  BY <1>7, RoundKeeps DEF Elapsed, net, client, Left
<1>8. CASE ServerExit \/ UNCHANGED vars
  BY <1>8 DEF ServerExit, vars, net, client, Left
<1>9. CASE Restart
  <2>1. Left' = {}
    BY <1>9, RestartEffect DEF Restart, Left, Reloads
  <2> QED
    BY <1>1, <1>9, <2>1 DEF Restart
<1> QED
  BY <1>2, <1>3, <1>4, <1>5, <1>6, <1>7, <1>8, <1>9 DEF Next, ServerStep

\* The death of a client is the only step that may add to them, and adds one.
LEMMA DieLeaves ==
  ASSUME IInv, NEW c \in Clients, Die(c)
  PROVE  /\ Left' \subseteq Left \cup {c}
         /\ faults["deaths"] < MaxDeaths
         /\ faults'["deaths"] = faults["deaths"] + 1
         /\ UNCHANGED fetch
BY DEF Die, Fault, Left, IInv, TypeOK, server, net

\* The peer whose loss moves the cursor is that of a dead client, and leaves
\* nothing behind after that.
LEMMA LostIsLeft ==
  ASSUME IInv, NoFail, PeerQuiet, NEW c \in Clients, HandleStop(c) \/ Hangup(c)
  PROVE  /\ mon.addr[c] # None => c \in Left
         /\ c \notin Left'
         /\ Loses(c)
<1>1. Loses(c)
  BY DisconnectEffect DEF HandleStop, Hangup, client
<1>2. word' = [word EXCEPT ![c] = "none"]
  BY DEF HandleStop, Hangup, Disconnect
<1>3. word'[c] = "none" /\ mon'.addr[c] = None
  BY <1>1, <1>2 DEF Loses, Moves, IInv, TypeOK, MonitorType
<1>4. mon.addr[c] # None => c \in Left
  BY DEF HandleStop, Hangup, Alive, Left, PeerQuiet, IInv, PeerInv
<1> QED
  BY <1>1, <1>3, <1>4 DEF Left

\* Peer c is lost; if it had an entry its client is dead.
LosesLeft(c) == Loses(c) /\ c \notin Left' /\ (mon.addr[c] # None => c \in Left)

\* The five effects, with what is known of the peer that is lost.
LEMMA LossEffect ==
  ASSUME FailingJobs = {}, faults'["lost"] = 0, IInv, NoFail, PeerQuiet, [Next]_vars
  PROVE  \/ Keeps /\ UNCHANGED fetch
         \/ Reloads
         \/ \E c \in Clients : Takes(c) \/ Stores(c) \/ LosesLeft(c)
<1>1. ~Fault("lost")
  BY DEF Fault, IInv, TypeOK
<1>2. Keeps => UNCHANGED fetch
  BY <1>1 DEF Keeps
<1>3. ASSUME NEW c \in Clients, ServerStep(c)
      PROVE  Keeps \/ Takes(c) \/ Stores(c) \/ LosesLeft(c)
  <2>1. CASE HandleStop(c) \/ Hangup(c)
    BY <2>1, LostIsLeft DEF LosesLeft
  <2>2. CASE HandleConnect(c) \/ HandleProbe(c)
    BY <2>2, RoundEffect DEF HandleConnect, HandleProbe
  <2>3. CASE HandleGet(c) \/ HandlePut(c)
    BY <2>3, HandleGetEffect, HandlePutEffect
  <2> QED
    BY <1>3, <2>1, <2>2, <2>3 DEF ServerStep
<1>4. ASSUME NEW c \in Clients, ClientStep(c) \/ Start(c) \/ Die(c) \/ Refused(c)
      PROVE  Keeps
  BY <1>4, ClientEffect
<1>5. ASSUME Elapsed
      PROVE  Keeps
  BY <1>5, RoundEffect DEF Elapsed, client
<1>6. ASSUME ServerExit \/ UNCHANGED vars
      PROVE  Keeps
  BY <1>6 DEF ServerExit, vars, client, disk, Keeps
<1>7. ASSUME Restart
      PROVE  Reloads
  BY <1>7, RestartEffect
<1>8. Keeps \/ Reloads \/ \E c \in Clients : Takes(c) \/ Stores(c) \/ LosesLeft(c)
  BY <1>3, <1>4, <1>5, <1>6, <1>7 DEF Next
<1> QED
  BY <1>2, <1>8

\* The chunk of a peer that takes one lies where the cursor was or after it.
LEMMA TakesFetch ==
  ASSUME IInv, NEW c \in Clients, Takes(c)
  PROVE  /\ fetch'.begin \in Cells /\ fetch'.end \in Cells
         /\ fetch.end <= fetch'.begin /\ fetch'.begin <= fetch'.end
         /\ \A j \in fetch.end .. (fetch'.begin - 1) : mon.states[j] # "TODO"
         /\ Moves(c, <<fetch'.begin, fetch'.end>>,
                  fetch'.begin .. (fetch'.end - 1), "INPROGRESS")
<1> DEFINE f == make_chunk(mon, fetch)
<1>1. /\ f \in [begin : Cells, end : Cells]
      /\ fetch.end <= f.begin /\ f.begin <= f.end
      /\ \A j \in fetch.end .. (f.begin - 1) : mon.states[j] # "TODO"
  BY MakeChunkGives DEF IInv, TypeOK
<1>2. fetch' = f
  BY DEF Takes
<1> HIDE DEF f
<1>3. PICK sg \in Segment : /\ sg = <<fetch'.begin, fetch'.end>>
                            /\ Moves(c, sg, Records(sg), "INPROGRESS")
  BY DEF Takes
<1>4. Records(sg) = fetch'.begin .. (fetch'.end - 1)
  BY <1>3 DEF Records
<1> QED
  BY <1>1, <1>2, <1>3, <1>4

\* Only after the one death that is allowed is the cursor at NPOS, and then
\* nothing is left that could move it from there.
LEMMA StepOneDeath ==
  ASSUME FailingJobs = {}, MaxDeaths \in {0, 1},
         faults'["corrupt"] = 0, faults'["lost"] = 0,
         IInv, NoFail, PeerQuiet, OneDeath, [Next]_vars
  PROVE  OneDeath'
<1>0. faults["deaths"] \in Nat /\ NPOS \notin Cells /\ 0 \in Cells
  BY NAssumption DEF IInv, TypeOK, NPOS, Cells
<1>1. ASSUME NEW c \in Clients, Die(c)
      PROVE  OneDeath'
  <2>1. /\ Left' \subseteq Left \cup {c}
        /\ faults["deaths"] < MaxDeaths
        /\ faults'["deaths"] = faults["deaths"] + 1
        /\ UNCHANGED fetch
    BY <1>1, DieLeaves
  <2>2. faults["deaths"] = 0 /\ faults'["deaths"] = 1
    BY <1>0, <2>1
  <2>3. Left = {} /\ fetch.begin # NPOS
    BY <2>2 DEF OneDeath
  <2> QED
    BY <2>1, <2>2, <2>3 DEF OneDeath
<1>2. CASE \A c \in Clients : ~Die(c)
  <2>1. Left' \subseteq Left /\ faults'["deaths"] = faults["deaths"]
    BY <1>2, LeftShrinks
  <2>2. CASE UNCHANGED fetch
    BY <2>1, <2>2 DEF OneDeath
  <2>3. CASE Reloads
    <3>1. fetch'.begin # NPOS
      BY <1>0, <2>3 DEF Reloads, NewFetch
    <3> QED
      BY <2>1, <3>1 DEF OneDeath
  <2>4. ASSUME NEW c \in Clients, Takes(c)
        PROVE  OneDeath'
    <3>1. fetch'.begin # NPOS
      BY <1>0, <2>4, TakesFetch
    <3> QED
      BY <2>1, <3>1 DEF OneDeath
  <2>5. ASSUME NEW c \in Clients, LosesLeft(c)
        PROVE  OneDeath'
    <3>1. CASE mon.addr[c] = None
      BY <2>2, <2>5, <3>1 DEF LosesLeft, Loses
    <3>2. CASE mon.addr[c] # None
      <4>1. c \in Left /\ Left' = {} /\ faults'["deaths"] # 0
        BY <2>1, <2>5, <3>2 DEF OneDeath, LosesLeft
      <4> QED
        BY <4>1 DEF OneDeath
    <3> QED
      BY <3>1, <3>2
  <2> QED
    BY <2>2, <2>3, <2>4, <2>5, LossEffect DEF Stores
<1> QED
  BY <1>1, <1>2

-----------------------------------------------------------------------------
\* A lost segment that starts after record 0 takes the cursor to the record
\* before it, unless the cursor is there or behind it; one that starts at
\* record 0 takes it to the start of the input.
LEMMA RewindGives ==
  ASSUME NEW f \in FetchType, NEW sg \in Segment
  PROVE  \/ /\ sg[1] = 0
            /\ rewind(f, sg[1] - 1) = [begin |-> NPOS, end |-> 0]
         \/ /\ f.begin = NPOS \/ sg[1] - 1 < f.begin
            /\ sg[1] - 1 \in Cells
            /\ rewind(f, sg[1] - 1) = [begin |-> sg[1] - 1, end |-> sg[1] - 1]
         \/ /\ f.begin # NPOS /\ f.begin < sg[1]
            /\ rewind(f, sg[1] - 1) = f
<1>1. sg[1] \in 0 .. N /\ f.begin \in Cells \cup {NPOS}
  BY DEF Segment, Cells, FetchType
<1> QED
  BY <1>1, NAssumption DEF rewind, ULess, NPOS, Cells

\* The cursor after each of the five effects.
LEMMA StepCursor ==
  ASSUME FailingJobs = {}, faults'["lost"] = 0, IInv, IInv', LInv, OneHolder',
         PeerQuiet, OneDeath, CursorInv, [Next]_vars, phase = "main"
  PROVE  CursorInv'
<1> USE DEF LInv
<1>0. /\ mon.addr \in [Clients -> Segment \cup {None}]
      /\ fetch.end \in 0 .. N /\ fetch.begin \in (0 .. N) \cup {NPOS}
      /\ fetch \in FetchType
  BY DEF IInv, TypeOK, MonitorType, FetchType, Cells
<1>1. /\ \A j \in Jobs : mon.states[j] = "TODO" => j >= fetch.end
      /\ fetch.begin # NPOS =>
           /\ fetch.begin <= fetch.end
           /\ \A c \in Clients : \A j \in Held(c) :
                j \in fetch.begin .. (fetch.end - 1)
                    => mon.addr[c] = <<fetch.begin, fetch.end>>
  BY DEF CursorInv, NothingBehindCursor, In
<1>2. SUFFICES /\ \A j \in Jobs : mon'.states[j] = "TODO" => j >= fetch'.end
               /\ fetch'.begin # NPOS =>
                    /\ fetch'.begin <= fetch'.end
                    /\ \A c \in Clients : \A j \in Held(c)' :
                         j \in fetch'.begin .. (fetch'.end - 1)
                             => mon'.addr[c] = <<fetch'.begin, fetch'.end>>
  BY DEF CursorInv, NothingBehindCursor, In
<1>3. CASE Keeps /\ UNCHANGED fetch
  BY <1>1, <1>3 DEF Keeps, Held
<1>4. CASE Reloads
  <2>1. fetch'.begin = 0 /\ fetch'.end = 0 /\ \A c \in Clients : Held(c)' = {}
    BY <1>4 DEF Reloads, NewFetch, Held
  <2> QED
    BY <2>1 DEF Jobs
<1>5. ASSUME NEW c \in Clients, Takes(c)
      PROVE  /\ \A j \in Jobs : mon'.states[j] = "TODO" => j >= fetch'.end
             /\ fetch'.begin # NPOS =>
                  /\ fetch'.begin <= fetch'.end
                  /\ \A d \in Clients : \A j \in Held(d)' :
                       j \in fetch'.begin .. (fetch'.end - 1)
                           => mon'.addr[d] = <<fetch'.begin, fetch'.end>>
  <2> DEFINE b == fetch'.begin
             e == fetch'.end
  <2>1. /\ b \in 0 .. N /\ e \in 0 .. N /\ fetch.end <= b /\ b <= e
        /\ \A j \in fetch.end .. (b - 1) : mon.states[j] # "TODO"
        /\ mon'.addr = [mon.addr EXCEPT ![c] = <<b, e>>]
        /\ \A j \in Jobs : mon'.states[j] =
             IF j \in b .. (e - 1) THEN "INPROGRESS" ELSE mon.states[j]
    BY <1>5, TakesFetch DEF Moves, Cells
  <2>2. mon'.addr[c] = <<b, e>> /\ <<b, e>> # None
    BY <1>0, <2>1, NoneAssumption DEF Segment, Cells
  <2> HIDE DEF b, e
  <2>3. \A j \in Jobs : mon'.states[j] = "TODO" => j >= e
    BY <1>0, <1>1, <2>1, NAssumption DEF Jobs
  <2>4. ASSUME NEW d \in Clients, NEW j \in Held(d)', j \in b .. (e - 1)
        PROVE  d = c
    <3>1. j \in Jobs /\ d \in Holders(j)'
      BY <2>4 DEF Held, Holders
    <3>2. c \in Holders(j)'
      <4>1. j \in Records(<<b, e>>)
        BY <2>4 DEF Records
      <4> QED
        BY <2>2, <4>1 DEF Holders
    <3> QED
      BY <3>1, <3>2 DEF OneHolder
  <2> QED
    BY <2>1, <2>2, <2>3, <2>4 DEF b, e
<1>6. ASSUME NEW c \in Clients, Stores(c)
      PROVE  /\ \A j \in Jobs : mon'.states[j] = "TODO" => j >= fetch'.end
             /\ fetch'.begin # NPOS =>
                  /\ fetch'.begin <= fetch'.end
                  /\ \A d \in Clients : \A j \in Held(d)' :
                       j \in fetch'.begin .. (fetch'.end - 1)
                           => mon'.addr[d] = <<fetch'.begin, fetch'.end>>
  BY <1>0, <1>1, <1>6 DEF Stores, Moves, Held
<1>7. ASSUME NEW c \in Clients, LosesLeft(c)
      PROVE  /\ \A j \in Jobs : mon'.states[j] = "TODO" => j >= fetch'.end
             /\ fetch'.begin # NPOS =>
                  /\ fetch'.begin <= fetch'.end
                  /\ \A d \in Clients : \A j \in Held(d)' :
                       j \in fetch'.begin .. (fetch'.end - 1)
                           => mon'.addr[d] = <<fetch'.begin, fetch'.end>>
  <2>1. /\ mon'.addr = [mon.addr EXCEPT ![c] = None]
        /\ \A j \in Jobs : mon'.states[j] = IF j \in Held(c) THEN "TODO" ELSE mon.states[j]
    BY <1>7 DEF LosesLeft, Loses, Moves
  <2>2. \A d \in Clients : \A j \in Held(d)' :
          j \in Jobs /\ j \in Held(d) /\ mon'.addr[d] = mon.addr[d]
    BY <1>0, <2>1 DEF Held
  <2>3. CASE mon.addr[c] = None
    <3>1. UNCHANGED fetch /\ Held(c) = {}
      BY <1>7, <2>3 DEF LosesLeft, Loses, Held
    <3> QED
      BY <1>1, <2>1, <2>2, <3>1
  <2>4. CASE mon.addr[c] # None
    <3> DEFINE a == mon.addr[c][1]
    <3>1. mon.addr[c] \in Segment /\ a \in 0 .. N /\ fetch' = rewind(fetch, a - 1)
      BY <1>0, <1>7, <2>4 DEF LosesLeft, Loses, Segment, Cells
    <3>2. fetch.begin # NPOS
      BY <1>7, <2>4 DEF LosesLeft, OneDeath
    <3>3. \A j \in Held(c) : j \in Jobs /\ j >= a
      BY <1>0, <3>1, NAssumption DEF Held, Records, Segment, Cells, Jobs
    <3>4. \/ fetch' = [begin |-> NPOS, end |-> 0]
          \/ fetch' = [begin |-> a - 1, end |-> a - 1] /\ a - 1 < fetch.begin
          \/ fetch' = fetch /\ fetch.begin < a
      BY <1>0, <3>1, <3>2, RewindGives
    <3>5. a = mon.addr[c][1]
      OBVIOUS
    <3> HIDE DEF a
    <3>6. CASE fetch' = [begin |-> NPOS, end |-> 0]
      BY <3>6 DEF Jobs
    <3>7. CASE fetch' = [begin |-> a - 1, end |-> a - 1] /\ a - 1 < fetch.begin
      <4>1. \A j \in Jobs : mon'.states[j] = "TODO" => j >= a - 1
        BY <1>0, <1>1, <2>1, <3>1, <3>2, <3>3, <3>7, NAssumption DEF Jobs
      <4>2. \A j \in Jobs : j \notin (a - 1) .. (a - 1 - 1)
        BY <3>1, NAssumption DEF Jobs
      <4> QED
        BY <2>2, <3>1, <3>7, <4>1, <4>2
    <3>8. CASE fetch' = fetch /\ fetch.begin < a
      <4>1. \A j \in Held(c) : j >= fetch.end
        <5> SUFFICES ASSUME NEW j \in Held(c), j < fetch.end
                     PROVE  FALSE
          BY <1>0, <3>3 DEF Jobs
        <5>1. j \in fetch.begin .. (fetch.end - 1)
          BY <1>0, <3>1, <3>2, <3>3, <3>8, NAssumption DEF Jobs
        <5>2. mon.addr[c] = <<fetch.begin, fetch.end>>
          BY <1>1, <3>2, <5>1
        <5> QED
          BY <1>0, <3>1, <3>2, <3>5, <3>8, <5>2
      <4> QED
        BY <1>1, <2>1, <2>2, <3>2, <3>8, <4>1
    <3> QED
      BY <3>4, <3>6, <3>7, <3>8
  <2> QED
    BY <2>3, <2>4
<1> QED
  BY <1>3, <1>4, <1>5, <1>6, <1>7, LossEffect

\* Without failed sends the counter of them stays at zero.
LEMMA NoLostStep ==
  ASSUME MaxLost = 0, IInv, faults["lost"] = 0, [Next]_vars
  PROVE  faults'["lost"] = 0
<1>1. \A k \in {"deaths", "corrupt", "restarts"} : Fault(k) => faults'["lost"] = 0
  BY DEF Fault, IInv, TypeOK
<1>2. ASSUME NEW c \in Clients, ServerStep(c)
      PROVE  faults'["lost"] = 0
  <2>1. CASE HandleGet(c)
    <3>1. TakeChunk(c, make_chunk(mon, fetch))
      BY <2>1 DEF HandleGet, S_get
    <3>2. ASSUME NEW f, TakeChunk(c, f)
          PROVE  faults' = faults \/ Fault("corrupt")
      BY <3>2 DEF TakeChunk
    <3> QED
      BY <1>1, <3>1, <3>2
  <2>2. CASE HandlePut(c)
    BY <1>1, <2>2 DEF HandlePut
  <2>3. CASE HandleConnect(c) \/ HandleProbe(c) \/ HandleStop(c) \/ Hangup(c)
    BY <2>3 DEF HandleConnect, HandleProbe, HandleStop, Hangup
  <2> QED
    BY <1>2, <2>1, <2>2, <2>3 DEF ServerStep
<1>3. ASSUME NEW c \in Clients, ClientStep(c) \/ Start(c) \/ Die(c) \/ Refused(c)
      PROVE  faults'["lost"] = 0
  BY <1>1, <1>3 DEF ClientStep, Ask, Quit, Probe, Finish, Start, Die, Refused
<1>4. CASE Elapsed \/ ServerExit \/ Restart \/ UNCHANGED vars
  BY <1>1, <1>4 DEF Elapsed, ServerExit, Restart, vars
<1> QED
  BY <1>2, <1>3, <1>4 DEF Next

\* No step but a restart goes back to the principal loop.
LEMMA BackToMain ==
  ASSUME FailingJobs = {}, IInv, NoFail, [Next]_vars, phase # "main", phase' = "main"
  PROVE  Reloads
<1>1. ASSUME NEW c \in Clients, ServerStep(c)
      PROVE  FALSE
  BY <1>1 DEF ServerStep, HandleConnect, HandleGet, HandlePut, HandleProbe, HandleStop,
              Hangup, Disconnect, GoRound, server
<1>2. ASSUME NEW c \in Clients, ClientStep(c) \/ Start(c) \/ Die(c) \/ Refused(c)
      PROVE  FALSE
  BY <1>2 DEF ClientStep, Ask, Quit, Probe, Finish, Start, Die, Refused, server
<1>3. CASE Elapsed \/ ServerExit \/ UNCHANGED vars
  BY <1>3 DEF Elapsed, ServerExit, vars, GoRound
<1>4. CASE Restart
  BY <1>4, RestartEffect
<1> QED
  BY <1>1, <1>2, <1>3, <1>4 DEF Next

\* The cursor is at the start of the input when the server begins.
LEMMA InitCInv ==
  ASSUME Init
  PROVE  CInv
<1> DEFINE s == LoopHead(NewMonitor, NewFetch, 0)
<1>1. NewFetch \in FetchType /\ 0 \in 0 .. Rounds
  BY NAssumption, RoundsAssumption DEF NewFetch, FetchType, Cells
<1>2. /\ \A j \in Jobs : NewMonitor.states[j] = "TODO"
      /\ \A c \in Clients : NewMonitor.addr[c] = None
  BY NAssumption DEF NewMonitor, Jobs, Cells
<1>3. s.mon = NewMonitor /\ s.fetch = NewFetch
  BY <1>1, <1>2, NewMonitorOK, LoopHeadNoFail
<1>4. mon = NewMonitor /\ fetch = NewFetch
  BY <1>3 DEF Init
<1> HIDE DEF s
<1>5. fetch.begin = 0 /\ fetch.end = 0 /\ NPOS # 0
  BY <1>4 DEF NewFetch, NPOS
<1>6. PeerQuiet
  BY <1>2, <1>4 DEF Init, PeerQuiet
<1>7. Left = {}
  BY <1>2, <1>4 DEF Init, Left
<1>8. CursorInv
  <2>1. \A c \in Clients : Held(c) = {}
    BY <1>2, <1>4 DEF Held
  <2> QED
    BY <1>5, <2>1 DEF CursorInv, NothingBehindCursor, In, Jobs
<1> QED
  BY <1>5, <1>6, <1>7, <1>8 DEF CInv, OneDeath

-----------------------------------------------------------------------------
\* In these environments CInv holds in every state.
THEOREM CursorInvariance ==
  ASSUME FailingJobs = {}, MaxCorrupt = 0, MaxLost = 0, MaxDeaths \in {0, 1}
  PROVE  Spec => []CInv
<1> DEFINE Clean == faults["corrupt"] = 0 /\ faults["lost"] = 0
<1>1. Spec => Init /\ [][Next]_vars
  BY DEF Spec
<1>2. Init => CInv /\ Clean
  BY InitCInv DEF Init
<1>3. IInv /\ Clean /\ [Next]_vars => Clean'
  BY NoCorruptStep, NoLostStep
<1>4. IInv /\ IInv' /\ LInv /\ LInv' /\ CInv /\ Clean' /\ [Next]_vars => CInv'
  <2> SUFFICES ASSUME IInv, IInv', LInv, LInv', CInv, Clean', [Next]_vars
               PROVE  CInv'
    OBVIOUS
  <2>1. NoFail /\ OneHolder' /\ PeerQuiet /\ OneDeath /\ CursorInv
    BY DEF LInv, CInv
  <2>2. PeerQuiet' /\ OneDeath'
    BY <2>1, StepQuiet, StepOneDeath
  <2>3. CASE phase = "main"
    BY <2>1, <2>2, <2>3, StepCursor DEF CInv
  <2>4. CASE phase # "main" /\ phase' = "main"
    <3>1. Reloads
      BY <2>1, <2>4, BackToMain
    <3>2. fetch'.begin = 0 /\ fetch'.end = 0 /\ \A c \in Clients : Held(c)' = {}
      BY <3>1 DEF Reloads, NewFetch, Held
    <3>3. CursorInv'
      BY <3>2 DEF CursorInv, NothingBehindCursor, In, Jobs
    <3> QED
      BY <2>2, <3>3 DEF CInv
  <2>5. CASE phase' # "main"
    BY <2>2, <2>5 DEF CInv, CursorInv
  <2> QED
    BY <2>3, <2>4, <2>5
<1> HIDE DEF Clean
<1> QED
  BY <1>1, <1>2, <1>3, <1>4, Invariance, LeaseInvariance, PTL

\* The search for the next chunk, which starts at the cursor, finds every
\* record to be done: after the death of a client its segment is given out
\* again without a new round.
THEOREM NothingLeftBehind ==
  ASSUME FailingJobs = {}, MaxCorrupt = 0, MaxLost = 0, MaxDeaths \in {0, 1}
  PROVE  Spec => []NothingBehindCursor
<1>1. CInv => NothingBehindCursor
  BY DEF CInv, CursorInv, NothingBehindCursor
<1> QED
  BY <1>1, CursorInvariance, PTL

\* With a limit above zero a chunk is not empty when a record at or after the
\* cursor is to be done.
LEMMA MakeChunkWorks ==
  ASSUME NEW m, NEW f \in FetchType, Limit > 0,
         NEW j \in Jobs, m.states[j] = "TODO", j >= f.end
  PROVE  make_chunk(m, f).begin < make_chunk(m, f).end
<1> DEFINE b == FirstTodo(m, f.end)
           e == ChunkEnd(m, b)
           A == {i \in f.end .. N : i = N \/ m.states[i] = "TODO"}
           B == {x \in b .. N : x = N \/ m.states[x] # "TODO" \/ Work[x] - Work[b] >= Limit}
<1>1. f.end \in 0 .. N /\ j \in 0 .. (N - 1)
  BY DEF FetchType, Cells, Jobs
<1>2. A \subseteq Nat /\ j \in A
  BY <1>1, NAssumption
<1>3. b \in A /\ \A y \in A : b <= y
  <2>1. b = Min(A)
    BY DEF FirstTodo
  <2> HIDE DEF A, b
  <2> QED
    BY <1>2, <2>1, MinIsLeast
<1>4. b \in 0 .. N /\ b <= j /\ m.states[b] = "TODO"
  BY <1>1, <1>2, <1>3, NAssumption
<1> HIDE DEF b
<1>5. B \subseteq Nat /\ N \in B
  BY <1>4, NAssumption
<1>6. e \in B
  <2>1. e = Min(B)
    BY DEF ChunkEnd
  <2> HIDE DEF B, e
  <2> QED
    BY <1>5, <2>1, MinIsLeast
<1>7. b \notin B
  <2>1. Work[b] - Work[b] = 0 /\ Limit \in Nat
    BY <1>4, WorkAssumption, LimitAssumption DEF Cells
  <2> QED
    BY <1>1, <1>4, <2>1, NAssumption
<1>8. e \in b .. N /\ e # b
  BY <1>6, <1>7
<1> HIDE DEF e
<1>9. make_chunk(m, f) = [begin |-> b, end |-> e]
  BY DEF make_chunk, b, e
<1> QED
  BY <1>4, <1>8, <1>9, NAssumption

\* A client that asks while there is work gets some, as the comment at
\* paraload.cpp:145 wants: a failed send,
\* or a second death, is what makes it untrue.
THEOREM AskerGetsWork ==
  ASSUME FailingJobs = {}, MaxCorrupt = 0, MaxLost = 0, MaxDeaths \in {0, 1}, Limit > 0
  PROVE  Spec => AskGetsWork
<1>1. Spec => Init /\ [][Next]_vars
  BY DEF Spec
<1>2. IInv /\ CInv /\ [Next]_vars =>
        [\A c \in Clients :
            seg[c] = None /\ seg'[c] # None /\ In(mon, "TODO") # {}
              => Records(seg'[c]) # {}]_vars
  <2> SUFFICES ASSUME IInv, CInv, Next, NEW c \in Clients,
                      seg[c] = None, seg'[c] # None, In(mon, "TODO") # {}
               PROVE  Records(seg'[c]) # {}
    OBVIOUS
  <2> DEFINE f == make_chunk(mon, fetch)
  <2>0. seg \in [Clients -> Segment \cup {None}] /\ fetch \in FetchType
    BY DEF IInv, TypeOK
  <2>1. PICK d \in Clients : HandleGet(d)
    <3>1. ASSUME NEW d \in Clients, ServerStep(d), ~HandleGet(d)
          PROVE  FALSE
      BY <2>0, <3>1 DEF ServerStep, HandleConnect, HandlePut, HandleProbe, HandleStop,
                        Hangup, client
    <3>2. ASSUME NEW d \in Clients, ClientStep(d) \/ Start(d) \/ Die(d) \/ Refused(d)
          PROVE  FALSE
      BY <2>0, <3>2 DEF ClientStep, Ask, Quit, Probe, Finish, Start, Die, Refused
    <3>3. ~Elapsed /\ ~ServerExit /\ ~Restart
      BY DEF Elapsed, ServerExit, Restart, client
    <3> QED
      BY <3>1, <3>2, <3>3 DEF Next
  <2>2. phase = "main"
    BY <2>1 DEF HandleGet
  <2>3. seg' = seg \/ seg' = [seg EXCEPT ![d] = <<f.begin, f.end>>]
    BY <2>1 DEF HandleGet, TakeChunk
  <2>4. seg'[c] = <<f.begin, f.end>>
    BY <2>0, <2>3
  <2>5. PICK j \in Jobs : mon.states[j] = "TODO" /\ j >= fetch.end
    BY <2>2 DEF In, CInv, CursorInv, NothingBehindCursor
  <2>6. f.begin < f.end /\ f.begin \in Cells /\ f.end \in Cells
    BY <2>0, <2>5, MakeChunkWorks, MakeChunkGives
  <2> HIDE DEF f
  <2>7. f.begin \in Records(seg'[c])
    BY <2>4, <2>6, NAssumption DEF Records, Cells
  <2> QED
    BY <2>7
<1> QED
  BY <1>1, <1>2, Invariance, CursorInvariance, PTL DEF AskGetsWork
=============================================================================
