------------------------------ MODULE Paraload ------------------------------
(* The paraload server and its clients: server() of paraload.cpp with the    *)
(* classes Monitor, Fetch and Comm_S it drives, client() with Comm_C, and    *)
(* the request/answer protocol of networks.c between them.                   *)
(*                                                                           *)
(* The server is one thread: it takes one event from epoll, handles it to    *)
(* the end and goes back to wait().  One action is one event handled, with   *)
(* the head of the principal loop that runs before the next wait().          *)
(* Clients run concurrently with it.  A peer is a client process and the     *)
(* TCP connection it opens; the connection outlives the process until the    *)
(* server reads the end of file.                                             *)
EXTENDS Fetch

CONSTANTS
    Probes,         \* the peers that are started with --ping or --info
    Rounds,         \* ROUND of the configuration, nb_round
    MaxClients,     \* max_clients, derived from MAX_SOCKETS
    FailingJobs,    \* the records whose command may return non-zero
    FailsAllowed,   \* --fails, -1 for no limit
    MaxStarts,      \* bound on the processes started, -1 for no bound
    MaxDeaths,      \* bound on the clients that die
    MaxCorrupt,     \* bound on the transfers that fail their MD5 test
    MaxLost,        \* bound on the chunks whose send to a dead peer fails
    MaxRestarts     \* bound on the times the server is killed and restarted

ASSUME PeersAssumption  == Probes \subseteq Clients /\ IsFiniteSet(Clients)
ASSUME JobsAssumption   == FailingJobs \subseteq Jobs
ASSUME RoundsAssumption == Rounds \in Nat /\ MaxClients \in Nat
ASSUME BoundAssumption  ==
    /\ FailsAllowed \in Nat \cup {-1}
    /\ MaxStarts \in Nat \cup {-1}
    /\ {MaxDeaths, MaxCorrupt, MaxLost, MaxRestarts} \subseteq Nat

VARIABLES
    mon,      \* the Monitor
    fetch,    \* the Fetch
    round,    \* current_round
    phase,    \* which loop of server() runs: "main", "drain"; or "exited"
    stop,     \* signal_flag: TRUE is PLD_SIG_STOP, FALSE is PLD_SIG_OK
    conn,     \* per peer: no connection, not yet accepted, in the epoll set
    word,     \* per peer: the action word it sent and the server has not read
    proc,     \* per peer: where its process is in client()
    seg,      \* per peer: idx_begin and idx_end while it has a chunk
    rt,       \* per peer: is rt_value zero
    fails,    \* per peer: Comm_C::fail, counted up to FailsAllowed
    log,      \* per record: return value of its last line in the log file
    oks,      \* per record: lines with return value 0, counted up to 2
    starts,   \* processes started so far
    faults    \* faults that happened so far, by kind

server == <<mon, fetch, round, phase, stop>>
net    == <<conn, word>>
client == <<proc, seg, rt, fails>>
disk   == <<log, oks>>
vars   == <<mon, fetch, round, phase, stop, conn, word, proc, seg, rt, fails,
            log, oks, starts, faults>>

TypeOK ==
    /\ mon \in MonitorType
    /\ fetch \in FetchType
    /\ round \in 0 .. Rounds
    /\ phase \in {"main", "drain", "exited"}
    /\ stop \in BOOLEAN
    /\ conn \in [Clients -> {"none", "backlog", "open"}]
    /\ word \in [Clients -> {"none", "GET", "PUT", "PROBE"}]
    /\ proc \in [Clients -> {"off", "auth", "idle", "running", "wait"}]
    /\ seg \in [Clients -> Segment \cup {None}]
    /\ rt \in [Clients -> {"ok", "fail"}]
    /\ fails \in [Clients -> Nat]
    /\ log \in [Jobs -> {"none", "ok", "fail"}]
    /\ oks \in [Jobs -> 0 .. 2]
    /\ starts \in Nat
    /\ faults \in [{"deaths", "corrupt", "lost", "restarts"} -> Nat]

-----------------------------------------------------------------------------
(* The head of the principal loop: its test, the start of a new round when   *)
(* the end of the input is reached or nothing is left to do, and the flag    *)
(* the next answers carry.  Leaving the loop sets the flag for good.         *)

\* Variant of LoopHead that ends the loop once nothing is left to hand out.
LoopHeadNoTodo(m, f, r) ==
    IF r < Rounds /\ m.count["TODO"] # 0
    THEN [mon |-> m, fetch |-> f, round |-> r, phase |-> "main", stop |-> FALSE]
    ELSE [mon |-> m, fetch |-> f, round |-> r, phase |-> "drain", stop |-> TRUE]

\* Variant of LoopHead that leaves the loop with the flag at PLD_SIG_OK.
LoopHeadNoFlag(m, f, r) ==
    IF r < Rounds /\ m.count["DONE"] # N
    THEN [mon |-> m, fetch |-> f, round |-> r, phase |-> "main",
          stop |-> m.count["TODO"] = 0]
    ELSE [mon |-> m, fetch |-> f, round |-> r, phase |-> "drain", stop |-> FALSE]

\* Variant of LoopHead that starts a new round without moving the cursor.
LoopHeadNoRewind(m, f, r) ==
    LET again == (f.end >= N \/ m.count["TODO"] = 0) /\ m.count["FAIL"] # 0
        m2    == IF again THEN chgstate(m, "FAIL", "TODO") ELSE m
    IN  IF r < Rounds /\ m.count["DONE"] # N
        THEN [mon |-> m2, fetch |-> f, round |-> IF again THEN r + 1 ELSE r,
              phase |-> "main", stop |-> m2.count["TODO"] = 0]
        ELSE [mon |-> m, fetch |-> f, round |-> r, phase |-> "drain", stop |-> TRUE]

NewRound(m, f) == (f.end >= N \/ m.count["TODO"] = 0) /\ m.count["FAIL"] # 0

LoopHead(m, f, r) ==
    LET again == NewRound(m, f)
        m2    == IF again THEN chgstate(m, "FAIL", "TODO") ELSE m
    IN  IF r < Rounds /\ m.count["DONE"] # N
        THEN [mon   |-> m2,
              fetch |-> IF again THEN rewind(f, 0) ELSE f,
              round |-> IF again THEN r + 1 ELSE r,
              phase |-> "main",
              stop  |-> m2.count["TODO"] = 0]
        ELSE [mon |-> m, fetch |-> f, round |-> r, phase |-> "drain", stop |-> TRUE]

\* The server goes round its current loop with Monitor m and Fetch f.
GoRound(m, f) ==
    IF phase = "main"
    THEN LET s == LoopHead(m, f, round)
         IN  /\ mon' = s.mon
             /\ fetch' = s.fetch
             /\ round' = s.round
             /\ phase' = s.phase
             /\ stop' = s.stop
    ELSE mon' = m /\ UNCHANGED <<fetch, round, phase, stop>>

Fault(kind) == faults' = [faults EXCEPT ![kind] = @ + 1]

Open    == {c \in Clients : conn[c] = "open"}

\* The server is in wait(): the drain loop waits only while it has a client.
Waiting == phase = "main" \/ (phase = "drain" /\ Open # {})

Init ==
    LET s == LoopHead(NewMonitor, NewFetch, 0)
    IN  /\ mon = s.mon
        /\ fetch = s.fetch
        /\ round = s.round
        /\ phase = s.phase
        /\ stop = s.stop
        /\ conn = [c \in Clients |-> "none"]
        /\ word = [c \in Clients |-> "none"]
        /\ proc = [c \in Clients |-> "off"]
        /\ seg = [c \in Clients |-> None]
        /\ rt = [c \in Clients |-> "ok"]
        /\ fails = [c \in Clients |-> 0]
        /\ log = [j \in Jobs |-> "none"]
        /\ oks = [j \in Jobs |-> 0]
        /\ starts = 0
        /\ faults = [k \in {"deaths", "corrupt", "lost", "restarts"} |-> 0]

-----------------------------------------------------------------------------
(* The process of a client.                                                  *)

\* Process c connects and sends its user id.
Start(c) ==
    /\ phase # "exited"
    /\ proc[c] = "off" /\ conn[c] = "none"
    /\ MaxStarts = -1 \/ starts < MaxStarts
    /\ starts' = IF MaxStarts = -1 THEN starts ELSE starts + 1
    /\ proc' = [proc EXCEPT ![c] = "auth"]
    /\ conn' = [conn EXCEPT ![c] = "backlog"]
    /\ fails' = [fails EXCEPT ![c] = 0]
    /\ UNCHANGED <<server, word, seg, rt, disk, faults>>

\* The loop of client() goes on: send PLD_GET and wait for the answer.
Ask(c) ==
    /\ proc[c] = "idle" /\ c \notin Probes
    /\ FailsAllowed = -1 \/ fails[c] < FailsAllowed
    /\ proc' = [proc EXCEPT ![c] = "wait"]
    /\ word' = [word EXCEPT ![c] = "GET"]
    /\ UNCHANGED <<server, conn, seg, rt, fails, disk, starts, faults>>

\* The loop of client() ends, its command failed too often.
Quit(c) ==
    /\ proc[c] = "idle" /\ c \notin Probes
    /\ FailsAllowed # -1 /\ fails[c] >= FailsAllowed
    /\ proc' = [proc EXCEPT ![c] = "off"]
    /\ UNCHANGED <<server, net, seg, rt, fails, disk, starts, faults>>

\* Comm_C::ping or Comm_C::info: send the action word and wait.
Probe(c) ==
    /\ proc[c] = "idle" /\ c \in Probes
    /\ proc' = [proc EXCEPT ![c] = "wait"]
    /\ word' = [word EXCEPT ![c] = "PROBE"]
    /\ UNCHANGED <<server, conn, seg, rt, fails, disk, starts, faults>>

\* May the command fail on chunk s?  On an empty chunk it may if it ever does.
MayFail(s) ==
    IF Records(s) = {} THEN FailingJobs # {} ELSE Records(s) \cap FailingJobs # {}

\* Comm_C::run is over: its return value is known, C_action sends PLD_PUT.
Finish(c) ==
    /\ proc[c] = "running"
    /\ \E r \in IF MayFail(seg[c]) THEN {"ok", "fail"} ELSE {"ok"} :
           /\ rt' = [rt EXCEPT ![c] = r]
           /\ fails' = IF r = "fail" /\ FailsAllowed # -1
                       THEN [fails EXCEPT ![c] = @ + 1] ELSE fails
    /\ proc' = [proc EXCEPT ![c] = "wait"]
    /\ word' = [word EXCEPT ![c] = "PUT"]
    /\ UNCHANGED <<server, conn, seg, disk, starts, faults>>

\* The process is killed, or its machine: what it sent stays in the socket.
Die(c) ==
    /\ proc[c] # "off"
    /\ faults["deaths"] < MaxDeaths
    /\ Fault("deaths")
    /\ proc' = [proc EXCEPT ![c] = "off"]
    /\ seg' = [seg EXCEPT ![c] = None]
    /\ rt' = [rt EXCEPT ![c] = "ok"]
    /\ UNCHANGED <<server, net, fails, disk, starts>>

\* The server is gone before it accepted the connection.
Refused(c) ==
    /\ phase = "exited" /\ conn[c] = "backlog"
    /\ conn' = [conn EXCEPT ![c] = "none"]
    /\ proc' = [proc EXCEPT ![c] = "off"]
    /\ UNCHANGED <<server, word, seg, rt, fails, disk, starts, faults>>

-----------------------------------------------------------------------------
(* The events of the server.  Alive(c) is about the process at the other     *)
(* end: the server itself only sees what its reads and writes return.        *)

Alive(c) == proc[c] # "off"

\* S_connect and S_auth: the accepted peer joins the epoll set and the table
\* (PLD_CON), or is told that there are too many clients.  A peer that died
\* may have left its user id behind; if not, S_auth fails.  Only an accepted
\* peer makes wait() return.
HandleConnect(c) ==
    /\ Waiting /\ conn[c] = "backlog"
    /\ \/ /\ Cardinality(Open) < MaxClients
          /\ conn' = [conn EXCEPT ![c] = "open"]
          /\ proc' = IF Alive(c) THEN [proc EXCEPT ![c] = "idle"] ELSE proc
          /\ GoRound(mon, fetch)
       \/ /\ Cardinality(Open) >= MaxClients \/ ~Alive(c)
          /\ conn' = [conn EXCEPT ![c] = "none"]
          /\ proc' = [proc EXCEPT ![c] = "off"]
          /\ UNCHANGED server
    /\ UNCHANGED <<word, seg, rt, fails, disk, starts, faults>>

\* Variant of Disconnect that rewinds to the lost segment itself.
DisconnectRewindsToFirst(c) ==
    /\ conn' = [conn EXCEPT ![c] = "none"]
    /\ word' = [word EXCEPT ![c] = "none"]
    /\ GoRound(exists_addr_idx(mon, c),
               IF phase = "main" /\ mon.addr[c] # None
               THEN rewind(fetch, mon.addr[c][1]) ELSE fetch)

\* PLD_DEC: the socket leaves the epoll set and the table, the segment of the
\* peer is to be done again and the cursor moves before it.  The drain loop
\* does not move the cursor.
Disconnect(c) ==
    /\ conn' = [conn EXCEPT ![c] = "none"]
    /\ word' = [word EXCEPT ![c] = "none"]
    /\ GoRound(exists_addr_idx(mon, c),
               IF phase = "main" /\ mon.addr[c] # None
               THEN rewind(fetch, mon.addr[c][1] - 1) ELSE fetch)

\* S_wait_event reports an error, or S_action reads the end of file.  A reset
\* hides an action word the peer sent before it died.
Hangup(c) ==
    /\ Waiting /\ conn[c] = "open" /\ ~Alive(c)
    /\ Disconnect(c)
    /\ UNCHANGED <<client, disk, starts, faults>>

\* S_action reads an action word while it has no flag but PLD_SIG_STOP: a
\* PLD_GET becomes PLD_DEC and the client, told to stop, ends.
HandleStop(c) ==
    /\ Waiting /\ conn[c] = "open" /\ word[c] = "GET" /\ stop
    /\ Disconnect(c)
    /\ proc' = [proc EXCEPT ![c] = "off"]
    /\ UNCHANGED <<seg, rt, fails, disk, starts, faults>>

\* What S_get may return: a write to a dead peer may still succeed, the kernel
\* buffers it.
S_get(c) == {"ok"} \cup IF ~Alive(c) /\ faults["lost"] < MaxLost THEN {"nok"} ELSE {}

\* What C_get may return: the MD5 of the chunk does not match if the transfer
\* was corrupted.
C_get == {"ok"} \cup IF faults["corrupt"] < MaxCorrupt THEN {"nok"} ELSE {}

\* What S_put may return: a dead peer sent its action word and nothing more.
S_put(c) ==
    IF Alive(c) THEN {"ok"} \cup IF faults["corrupt"] < MaxCorrupt THEN {"nok"} ELSE {}
    ELSE {"nok"}

\* The answer to PLD_GET reaches process c: it runs the command on chunk f, or
\* it ends because the chunk is corrupted.
TakeChunk(c, f) ==
    IF Alive(c)
    THEN \E r \in C_get :
           IF r = "ok"
           THEN /\ proc' = [proc EXCEPT ![c] = "running"]
                /\ seg' = [seg EXCEPT ![c] = <<f.begin, f.end>>]
                /\ UNCHANGED faults
           ELSE /\ proc' = [proc EXCEPT ![c] = "off"]
                /\ UNCHANGED seg
                /\ Fault("corrupt")
    ELSE UNCHANGED <<proc, seg, faults>>

\* PLD_GET: make a chunk and send it.  When the send fails the cursor should
\* go back to the start of the chunk.
HandleGet(c) ==
    /\ phase = "main" /\ conn[c] = "open" /\ word[c] = "GET" /\ ~stop
    /\ word' = [word EXCEPT ![c] = "none"]
    /\ LET f == make_chunk(mon, fetch)
       IN  \E r \in S_get(c) :
             IF r = "ok"
             THEN /\ GoRound(add_addr_idx(mon, c, f.begin, f.end), f)
                  /\ TakeChunk(c, f)
             ELSE /\ GoRound(mon, rewind(f, f.begin))
                  /\ Fault("lost")
                  /\ UNCHANGED <<proc, seg>>
    /\ UNCHANGED <<conn, rt, fails, disk, starts>>

\* A line of the log file for the records of seg[c], and for return value 0
\* one more copy of their results in the output.
WriteLog(c) ==
    /\ log' = [j \in Jobs |-> IF j \in Records(seg[c]) THEN rt[c] ELSE log[j]]
    /\ oks' = [j \in Jobs |->
                 IF j \in Records(seg[c]) /\ rt[c] = "ok" /\ oks[j] < 2
                 THEN oks[j] + 1 ELSE oks[j]]

\* Variant of HandlePut that takes every result for a good one.
HandlePutAnyResult(c) ==
    /\ Waiting /\ conn[c] = "open" /\ word[c] = "PUT"
    /\ word' = [word EXCEPT ![c] = "none"]
    /\ IF Alive(c)
       THEN /\ WriteLog(c)
            /\ GoRound(rem_addr_idx(mon, c), fetch)
            /\ proc' = [proc EXCEPT ![c] = "idle"]
            /\ seg' = [seg EXCEPT ![c] = None]
            /\ rt' = [rt EXCEPT ![c] = "ok"]
       ELSE UNCHANGED <<server, proc, seg, rt, disk>>
    /\ UNCHANGED <<conn, fails, starts, faults>>

\* PLD_PUT: a result that arrives whole is appended to the output and the log;
\* then the segment the server remembers is done or, for a non-zero return
\* value, the segment the client names has failed.  A result that is not whole
\* changes nothing.  Comm_C::send does not look at what became of it: the
\* client goes on.
HandlePut(c) ==
    /\ Waiting /\ conn[c] = "open" /\ word[c] = "PUT"
    /\ word' = [word EXCEPT ![c] = "none"]
    /\ \E r \in S_put(c) :
         /\ IF r = "ok"
            THEN /\ WriteLog(c)
                 /\ GoRound(IF rt[c] = "ok" THEN rem_addr_idx(mon, c)
                            ELSE tag_segment(mon, "FAIL", seg[c][1], seg[c][2]),
                            fetch)
            ELSE GoRound(mon, fetch) /\ UNCHANGED disk
         /\ IF r = "nok" /\ Alive(c) THEN Fault("corrupt") ELSE UNCHANGED faults
    /\ proc' = IF Alive(c) THEN [proc EXCEPT ![c] = "idle"] ELSE proc
    /\ seg' = [seg EXCEPT ![c] = None]
    /\ rt' = [rt EXCEPT ![c] = "ok"]
    /\ UNCHANGED <<conn, fails, starts>>

\* PLD_PING and PLD_INFO: answer; the process prints the answer and ends.
HandleProbe(c) ==
    /\ Waiting /\ conn[c] = "open" /\ word[c] = "PROBE"
    /\ word' = [word EXCEPT ![c] = "none"]
    /\ proc' = [proc EXCEPT ![c] = "off"]
    /\ GoRound(mon, fetch)
    /\ UNCHANGED <<conn, seg, rt, fails, disk, starts, faults>>

\* Nothing happened for epoll_time_wait: PLD_CONT, once round the loop.
Elapsed ==
    /\ Waiting
    /\ \A c \in Clients : /\ conn[c] # "backlog"
                          /\ conn[c] = "open" => Alive(c) /\ word[c] = "none"
    /\ GoRound(mon, fetch)
    /\ UNCHANGED <<net, client, disk, starts, faults>>

\* The drain loop has no client left.
ServerExit ==
    /\ phase = "drain" /\ Open = {}
    /\ phase' = "exited"
    /\ UNCHANGED <<mon, fetch, round, stop, net, client, disk, starts, faults>>

\* The server is killed, or has ended, and is started again on the same files.
\* Every connection is gone; the clients fail their next read or write and end.
Restart ==
    /\ faults["restarts"] < MaxRestarts
    /\ Fault("restarts")
    /\ LET s == LoopHead(restart(log), NewFetch, 0)
       IN  /\ mon' = s.mon
           /\ fetch' = s.fetch
           /\ round' = s.round
           /\ phase' = s.phase
           /\ stop' = s.stop
    /\ conn' = [c \in Clients |-> "none"]
    /\ word' = [c \in Clients |-> "none"]
    /\ proc' = [c \in Clients |-> "off"]
    /\ seg' = [c \in Clients |-> None]
    /\ rt' = [c \in Clients |-> "ok"]
    /\ UNCHANGED <<fails, disk, starts>>

-----------------------------------------------------------------------------
ServerStep(c) == \/ HandleConnect(c) \/ HandleGet(c)   \/ HandlePut(c)
                 \/ HandleProbe(c)   \/ HandleStop(c)  \/ Hangup(c)

ClientStep(c) == Ask(c) \/ Quit(c) \/ Probe(c) \/ Finish(c)

Next == \/ \E c \in Clients : \/ ServerStep(c) \/ ClientStep(c)
                              \/ Start(c) \/ Die(c) \/ Refused(c)
        \/ Elapsed \/ ServerExit \/ Restart

\* epoll serves every ready socket in turn, and running processes go on.
Fairness == /\ \A c \in Clients : /\ WF_vars(ServerStep(c))
                                  /\ WF_vars(ClientStep(c))
            /\ WF_vars(Elapsed)
            /\ WF_vars(ServerExit)

Spec == Init /\ [][Next]_vars /\ Fairness

\* Somebody keeps starting clients.
BusySpec == Spec /\ \A c \in Clients : WF_vars(Start(c))

-----------------------------------------------------------------------------
(* Safety.                                                                   *)

\* The four counters the loop decides on are the numbers of records in each
\* state, whatever sequence of tag_segment and chgstate calls was made.
CountersMatch == \A t \in State : mon.count[t] = Cardinality(In(mon, t))

\* As long as no transfer was corrupted, a record in progress belongs to the
\* segment of a connected peer, so that the end of that connection is noticed
\* and gives the record back.
NoOrphan ==
    faults["corrupt"] = 0 =>
    \A j \in In(mon, "INPROGRESS") :
        \E c \in Open : mon.addr[c] # None /\ j \in Records(mon.addr[c])

\* The segment the server marks done when a result comes in (its own entry for
\* the peer) is the one the client computed and the log line names.
EntryIsClientsSegment ==
    \A c \in Clients : seg[c] # None => mon.addr[c] = seg[c]

\* A record the server counts as done has a line with return value 0 as its
\* last line in the log: a restart does not lose it.
DoneIsLogged == \A j \in In(mon, "DONE") : log[j] = "ok"

\* A record that is done stays done, across disconnections and restarts of the
\* server too.
DoneStays == [][\A j \in Jobs : mon.states[j] = "DONE" => mon'.states[j] = "DONE"]_vars

\* No result of a record is written twice with return value 0.
AtMostOnceWritten == \A j \in Jobs : oks[j] <= 1

\* Records still to be done are never behind the cursor: the search of the
\* next make_chunk finds them without a new round.
NothingBehindCursor == phase = "main" => \A j \in In(mon, "TODO") : j >= fetch.end

\* A client that asks for work while there is some gets some.
AskGetsWork ==
    [][\A c \in Clients :
          seg[c] = None /\ seg'[c] # None /\ In(mon, "TODO") # {}
              => Records(seg'[c]) # {}]_vars

\* A server that leaves the principal loop before the last round has all its
\* results, and does not give one up while it waits for its clients to leave.
ExitMeansDone == phase # "main" /\ round < Rounds => In(mon, "DONE") = Jobs

-----------------------------------------------------------------------------
(* Liveness.                                                                 *)

\* The drain loop ends: every client is told to stop or goes away.
DrainTerminates == (phase = "drain") ~> (phase = "exited")

\* The principal loop ends: all records are done or the rounds are used up.
MainLoopEnds == <>(phase # "main")
=============================================================================
