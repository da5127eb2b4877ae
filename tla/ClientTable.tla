---------------------------- MODULE ClientTable ----------------------------
(* The connections of the server: Comm_S::wait, add_client, remove_client    *)
(* and the calls of networks.c they make.                                    *)
(*                                                                           *)
(* Three things name a client and have to agree: the descriptor in the epoll *)
(* set, the entry of tabclients for that descriptor, and the address that    *)
(* wait() leaves in current_ip_int and current_port, under which the Monitor *)
(* keeps the segment of the client.  The kernel gives the lowest descriptor  *)
(* that is free to the next connection, and events are taken one by one from *)
(* a batch that epoll_wait filled some time before.                          *)
(*                                                                           *)
(* A peer is an address and port; what stands in its socket, unread, is a    *)
(* user id or an action word.  What follows an action word is in Paraload.   *)
EXTENDS Integers, FiniteSets, Sequences

CONSTANTS
    Peers,          \* addresses that connect
    Strangers,      \* the peers that may have another user id than the server
    AuthEnabled,    \* AUTHENTICATION is not NO
    MaxClients,     \* max_clients
    Spare,          \* descriptors left for sockets besides MaxClients, of the
                    \* PLD_OPENED_FD_NOTSOCKET that setrlimit allows for
    MaxEvents,      \* EPOLL_MAX_EVENTS
    MaxEarly,       \* bound on the peers that die before they are accepted
    Nobody          \* no peer

ASSUME NobodyAssumption == Nobody \notin Peers
ASSUME SizeAssumption   == /\ {MaxClients, MaxEarly} \subseteq Nat
                           /\ {Spare, MaxEvents} \subseteq Nat \ {0}
                           /\ Strangers \subseteq Peers
                           /\ AuthEnabled \in BOOLEAN

Fds    == 1 .. (MaxClients + Spare)
LISTEN == 0             \* sock_s, the listening socket

VARIABLES
    backlog,    \* connections that wait for accept, oldest first
    fds,        \* per descriptor: the peer it is connected to
    epoll,      \* the descriptors in the epoll set, the listening one apart
    connected,  \* connected_clients
    tab,        \* tabclients, nthclients long
    batch,      \* events that epoll_wait returned and nobody has taken yet
    sock_c,     \* the descriptor that wait() works on; 0 before the first
    auth,       \* S_auth is at work on sock_c
    seen,       \* the peer whose event was taken last and the current address
    proc,       \* per peer: what its process does
    unread,     \* per peer: what stands in its socket
    early       \* peers that died before they were accepted so far

kernel == <<backlog, fds, epoll>>
server == <<connected, tab, batch, sock_c, auth, seen>>
peers  == <<proc, unread, early>>
vars   == <<backlog, fds, epoll, connected, tab, batch, sock_c, auth, seen,
            proc, unread, early>>

Entry == [sock : Fds, addr : Peers]
Event == [fd : Fds \cup {LISTEN}, kind : {"in", "err"}, peer : Peers \cup {Nobody}]

TypeOK ==
    /\ backlog \in Seq(Peers)
    /\ fds \in [Fds -> Peers \cup {Nobody}]
    /\ epoll \in SUBSET Fds
    /\ connected \in Int
    /\ tab \in Seq(Entry)
    /\ batch \in Seq(Event)
    /\ sock_c \in Fds \cup {0}
    /\ auth \in BOOLEAN
    /\ seen \in [peer : Peers \cup {Nobody}, addr : Peers \cup {Nobody}]
    /\ proc \in [Peers -> {"off", "dialed", "auth", "idle", "wait", "dead"}]
    /\ unread \in [Peers -> {"nothing", "uid", "alien", "word"}]
    /\ early \in Nat

\* The kernel gives the lowest of the descriptors that are free.
Free == {f \in Fds : fds[f] = Nobody}

Init ==
    /\ backlog = <<>>
    /\ fds = [f \in Fds |-> Nobody]
    /\ epoll = {}
    /\ connected = 0 /\ tab = <<>> /\ batch = <<>>
    /\ sock_c = 0 /\ auth = FALSE
    /\ seen = [peer |-> Nobody, addr |-> Nobody]
    /\ proc = [p \in Peers |-> "off"]
    /\ unread = [p \in Peers |-> "nothing"]
    /\ early = 0

-----------------------------------------------------------------------------
(* The peers.                                                                *)

\* C_connect.
Dial(p) ==
    /\ proc[p] = "off"
    /\ proc' = [proc EXCEPT ![p] = "dialed"]
    /\ backlog' = Append(backlog, p)
    /\ UNCHANGED <<fds, epoll, server, unread, early>>

\* C_auth sends the user id and waits for the flag.  An address may come back
\* with a process of another user.
SendUid(p) ==
    /\ proc[p] = "dialed"
    /\ proc' = [proc EXCEPT ![p] = "auth"]
    /\ \E id \in {"uid"} \cup (IF p \in Strangers THEN {"alien"} ELSE {}) :
         unread' = [unread EXCEPT ![p] = id]
    /\ UNCHANGED <<kernel, server, early>>

\* C_action sends an action word and waits for the flag.
SendWord(p) ==
    /\ proc[p] = "idle"
    /\ proc' = [proc EXCEPT ![p] = "wait"]
    /\ unread' = [unread EXCEPT ![p] = "word"]
    /\ UNCHANGED <<kernel, server, early>>

\* The process ends; what it sent can still be read.
Die(p) ==
    /\ proc[p] \notin {"off", "dead"}
    /\ IF proc[p] \in {"dialed", "auth"}
       THEN early < MaxEarly /\ early' = early + 1
       ELSE UNCHANGED early
    /\ proc' = [proc EXCEPT ![p] = "dead"]
    /\ UNCHANGED <<kernel, server, unread>>

-----------------------------------------------------------------------------
(* epoll_wait.                                                               *)

\* A read of descriptor f would not block: there is data or the end of file.
Ready(f) == \/ f = LISTEN /\ backlog # <<>>
            \/ f \in epoll /\ (unread[fds[f]] # "nothing" \/ proc[fds[f]] = "dead")

\* The event of a dead peer is an error, or is data and the end of file.
Events(f) ==
    {[fd |-> f, kind |-> k, peer |-> IF f = LISTEN THEN Nobody ELSE fds[f]] :
        k \in {"in"} \cup IF f # LISTEN /\ proc[fds[f]] = "dead" THEN {"err"} ELSE {}}

\* The batch is used up: the kernel fills it again, with as many descriptors
\* as are ready and as it has room for, one event for each.
Poll ==
    LET ready == {f \in epoll \cup {LISTEN} : Ready(f)}
        size  == IF Cardinality(ready) <= MaxEvents THEN Cardinality(ready)
                 ELSE MaxEvents
    IN  /\ batch = <<>> /\ ~auth
        /\ ready # {}
        /\ \E order \in [1 .. size -> ready] :
             /\ \A i, j \in 1 .. size : order[i] = order[j] => i = j
             /\ batch' \in {b \in [1 .. size -> UNION {Events(f) : f \in ready}] :
                              \A i \in 1 .. size : b[i] \in Events(order[i])}
        /\ UNCHANGED <<kernel, connected, tab, sock_c, auth, seen, peers>>

-----------------------------------------------------------------------------
(* wait(), with what the server loop does when it returns PLD_CON or         *)
(* PLD_DEC.                                                                  *)

add_client(t, s, p) == Append(t, [sock |-> s, addr |-> p])

\* Variant of remove_client that drops the last entry.
remove_client_last(t, s) == SubSeq(t, 1, Len(t) - 1)

\* Variant of remove_client that clears the entry and moves nothing there.
remove_client_hole(t, s) ==
    [k \in 1 .. (Len(t) - 1) |->
        IF t[k].sock = s THEN [sock |-> 0, addr |-> Nobody] ELSE t[k]]

\* The first entry of socket s, Len(t) + 1 if there is none.
Place(t, s) == CHOOSE k \in 1 .. (Len(t) + 1) :
                   /\ k <= Len(t) => t[k].sock = s
                   /\ \A j \in 1 .. (k - 1) : t[j].sock # s

\* The last entry moves to the place of the one that goes.
remove_client(t, s) ==
    [k \in 1 .. (Len(t) - 1) |-> IF k = Place(t, s) THEN t[Len(t)] ELSE t[k]]

\* The address that the search of tabclients leaves: the one of the event
\* before, if it finds nothing.
Address(t, s) == IF Place(t, s) <= Len(t) THEN t[Place(t, s)].addr ELSE seen.addr

\* accept.  Without a free descriptor it fails and the connection stays.
Accept ==
    /\ batch # <<>> /\ ~auth /\ Head(batch).fd = LISTEN
    /\ batch' = Tail(batch)
    /\ \/ Free = {} /\ UNCHANGED <<backlog, fds, sock_c, auth>>
       \/ /\ backlog # <<>>
          /\ sock_c' \in {f \in Free : \A g \in Free : f <= g}
          /\ fds' = [fds EXCEPT ![sock_c'] = Head(backlog)]
          /\ backlog' = Tail(backlog)
          /\ auth' = TRUE
    /\ UNCHANGED <<epoll, connected, tab, seen, peers>>

\* Variant of Admit that does not count the client.
AdmitUncounted(p) ==
    /\ epoll' = epoll \cup {sock_c}
    /\ tab' = add_client(tab, sock_c, p)
    /\ seen' = [peer |-> p, addr |-> p]
    /\ proc' = IF proc[p] = "dead" THEN proc ELSE [proc EXCEPT ![p] = "idle"]
    /\ UNCHANGED <<fds, connected>>

\* S_auth returns PLD_AUTH_OK: S_epolladd, and PLD_CON, on which the server
\* calls add_client.
Admit(p) ==
    /\ epoll' = epoll \cup {sock_c}
    /\ connected' = connected + 1
    /\ tab' = add_client(tab, sock_c, p)
    /\ seen' = [peer |-> p, addr |-> p]
    /\ proc' = IF proc[p] = "dead" THEN proc ELSE [proc EXCEPT ![p] = "idle"]
    /\ UNCHANGED fds

\* Variant of Reject that leaves the descriptor open.
RejectOpen(p) ==
    /\ proc' = [proc EXCEPT ![p] = "off"]
    /\ UNCHANGED <<fds, epoll, connected, tab, seen>>

\* Too many clients, or another user id: the peer is told so, and the
\* descriptor closed.
Reject(p) ==
    /\ fds' = [fds EXCEPT ![sock_c] = Nobody]
    /\ proc' = [proc EXCEPT ![p] = "off"]
    /\ UNCHANGED <<epoll, connected, tab, seen>>

\* S_auth returns PLD_DEC, which wait() does not look for.
Forget == UNCHANGED <<fds, epoll, connected, tab, seen, proc>>

\* S_auth: the blocking read of the user id, then the write of the flag, which
\* may fail when the peer is dead.
Auth ==
    LET p == fds[sock_c]
    IN  /\ auth
        /\ unread[p] \in {"uid", "alien"} \/ proc[p] = "dead"
        /\ auth' = FALSE
        /\ unread' = [unread EXCEPT ![p] = "nothing"]
        /\ \/ /\ unread[p] \in {"uid", "alien"}
              /\ IF \/ connected >= MaxClients
                    \/ AuthEnabled /\ unread[p] = "alien"
                 THEN Reject(p) ELSE Admit(p)
           \/ proc[p] = "dead" /\ Forget
        /\ UNCHANGED <<backlog, batch, sock_c, early>>

\* Variant of Dismiss that does not count the client out.
DismissUncounted(f) ==
    /\ epoll' = epoll \ {f}
    /\ fds' = [fds EXCEPT ![f] = Nobody]
    /\ tab' = remove_client(tab, f)
    /\ proc' = [proc EXCEPT ![fds[f]] = "off"]
    /\ unread' = [unread EXCEPT ![fds[f]] = "nothing"]
    /\ UNCHANGED connected

\* S_epolldel, and PLD_DEC, on which the server calls remove_client.
Dismiss(f) ==
    /\ epoll' = epoll \ {f}
    /\ connected' = connected - 1
    /\ fds' = [fds EXCEPT ![f] = Nobody]
    /\ tab' = remove_client(tab, f)
    /\ proc' = [proc EXCEPT ![fds[f]] = "off"]
    /\ unread' = [unread EXCEPT ![fds[f]] = "nothing"]

\* S_action reads a word and answers: the server goes on with the action.  The
\* answer to a dead peer may succeed.
Answer(f) ==
    /\ unread[fds[f]] = "word"
    /\ unread' = [unread EXCEPT ![fds[f]] = "nothing"]
    /\ proc' = IF proc[fds[f]] = "dead" THEN proc ELSE [proc EXCEPT ![fds[f]] = "idle"]
    /\ UNCHANGED <<fds, epoll, connected, tab>>

\* Variant of Serve that leaves the event in the batch.
ServeAgain ==
    LET e == Head(batch)
    IN  /\ batch # <<>> /\ ~auth /\ e.fd # LISTEN
        /\ sock_c' = e.fd
        /\ seen' = [peer |-> fds[e.fd], addr |-> Address(tab, e.fd)]
        /\ \/ e.kind = "in" /\ Answer(e.fd)
           \/ /\ e.kind = "err" \/ proc[e.peer] = "dead" \/ unread[e.peer] = "word"
              /\ Dismiss(e.fd)
        /\ UNCHANGED <<backlog, batch, auth, early>>

\* The next event is one of a client.  An error, the end of file, an answer
\* that fails, or a PLD_GET while the server stops its clients is PLD_DEC.
Serve ==
    LET e == Head(batch)
    IN  /\ batch # <<>> /\ ~auth /\ e.fd # LISTEN
        /\ batch' = Tail(batch)
        /\ sock_c' = e.fd
        /\ seen' = [peer |-> fds[e.fd], addr |-> Address(tab, e.fd)]
        /\ \/ e.kind = "in" /\ Answer(e.fd)
           \/ /\ e.kind = "err" \/ proc[e.peer] = "dead" \/ unread[e.peer] = "word"
              /\ Dismiss(e.fd)
        /\ UNCHANGED <<backlog, auth, early>>

-----------------------------------------------------------------------------
ServerStep == Poll \/ Accept \/ Auth \/ Serve

Next == ServerStep \/ \E p \in Peers : Dial(p) \/ SendUid(p) \/ SendWord(p) \/ Die(p)

\* The server goes on, and a peer that has connected sends its user id.
Fairness == WF_vars(ServerStep) /\ \A p \in Peers : WF_vars(SendUid(p))

Spec == Init /\ [][Next]_vars /\ Fairness

-----------------------------------------------------------------------------
(* Properties.                                                               *)

\* The three books of the clients agree: the epoll set of the kernel, the
\* table with its swap on removal, and the counter that S_auth compares.
SlotsAgree ==
    /\ connected = Cardinality(epoll)
    /\ Len(tab) = Cardinality(epoll)
    /\ {<<tab[k].sock, tab[k].addr>> : k \in DOMAIN tab} = {<<f, fds[f]>> : f \in epoll}

\* The current address is the one of the peer at the other end of the
\* descriptor: the segment of another client is never touched.
AddressIsPeers == seen.addr = seen.peer

\* An event that is still in the batch is about the connection it was about
\* when epoll_wait returned it, and the read it leads to does not block:
\* whatever was closed and opened since.
EventsFresh ==
    \A k \in DOMAIN batch :
        LET e == batch[k]
        IN  /\ Ready(e.fd)
            /\ e.fd # LISTEN => fds[e.fd] = e.peer

\* There is a descriptor for every client that the limit allows for, as the
\* limit on open files is set from MAX_SOCKETS for that (S_init): the only ones
\* that are lost are those of peers that died before they were accepted, one
\* each.  After one more of them than Spare the property fails.
RoomForAll ==
    Cardinality(epoll) < MaxClients /\ early <= Spare /\ ~auth => Free # {}

\* The peers served, which Paraload knows as Open.
P == INSTANCE PeerSet WITH
         Peer    <- Peers,
         Room    <- MaxClients,
         members <- {fds[f] : f \in epoll}
PeerSpec == P!Spec

\* A peer that has sent its user id or an action word is answered, as long as
\* a descriptor is left to tell it that there is no room.
Answered ==
    \A p \in Peers :
        proc[p] \in {"auth", "wait"} ~> proc[p] \notin {"auth", "wait"} \/ early >= Spare
=============================================================================
