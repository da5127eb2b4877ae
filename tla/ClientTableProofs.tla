------------------------- MODULE ClientTableProofs -------------------------
(* Proofs about ClientTable, for any peers, limits and number of descriptors. *)
(* The invariant IInv is the properties of the runs and what they rest on:    *)
(* a peer is in one place only, PeersApart; the epoll set, the table and the  *)
(* counter are three views of one set, TableInv; the batch has one event for  *)
(* a descriptor, so that what is closed for one event is in no other.         *)
EXTENDS ClientTable, FiniteSetTheorems, SequenceTheorems, TLAPS

\* A peer waits for accept once or has one descriptor, and then it runs or is
\* dead.
PeersApart ==
    /\ \A i, j \in DOMAIN backlog : backlog[i] = backlog[j] => i = j
    /\ \A f, g \in Fds : fds[f] = fds[g] /\ fds[f] # Nobody => f = g
    /\ \A i \in DOMAIN backlog :
         proc[backlog[i]] # "off" /\ \A f \in Fds : fds[f] # backlog[i]
    /\ \A f \in Fds : fds[f] # Nobody => proc[fds[f]] # "off"

\* Entries and descriptors of the epoll set, one to one.
Paired(t, S, owner) ==
    /\ \A k \in DOMAIN t : t[k].sock \in S /\ t[k].addr = owner[t[k].sock]
    /\ \A f \in S : \E k \in DOMAIN t : t[k].sock = f
    /\ \A j, k \in DOMAIN t : t[j].sock = t[k].sock => j = k

TableInv ==
    /\ \A f \in epoll : fds[f] # Nobody
    /\ auth => sock_c \in Fds \ epoll /\ fds[sock_c] # Nobody
    /\ connected = Cardinality(epoll)
    /\ Len(tab) = Cardinality(epoll)
    /\ Paired(tab, epoll, fds)

\* One event for a descriptor.
OneEvent == \A i, j \in DOMAIN batch : batch[i].fd = batch[j].fd => i = j

\* The peers that are dead and not served: each died before it was accepted.
Lost == {p \in Peers : proc[p] = "dead" /\ \A f \in epoll : fds[f] # p}

\* A descriptor out of the epoll set is that of S_auth, or lost with its peer; a
\* peer that was accepted and runs has one in the epoll set.
LostInv ==
    /\ \A p \in Peers : proc[p] \in {"idle", "wait"} => \E f \in epoll : fds[f] = p
    /\ \A f \in Fds \ epoll :
         fds[f] # Nobody /\ ~(auth /\ f = sock_c) => proc[fds[f]] = "dead"
    /\ IsFiniteSet(Lost)
    /\ Cardinality(Lost) <= early

IInv ==
    /\ TypeOK
    /\ PeersApart
    /\ TableInv
    /\ OneEvent
    /\ EventsFresh
    /\ AddressIsPeers
    /\ LostInv

-----------------------------------------------------------------------------
(* What the operators of the table do.                                       *)

\* Tail drops the first element and moves the others down by one.
LEMMA TailFacts ==
  ASSUME NEW S, NEW s \in Seq(S), s # <<>>
  PROVE  /\ Len(s) \in Nat \ {0} /\ DOMAIN s = 1 .. Len(s)
         /\ Head(s) = s[1] /\ Head(s) \in S
         /\ Tail(s) \in Seq(S)
         /\ DOMAIN Tail(s) = 1 .. (Len(s) - 1)
         /\ \A i \in 1 .. (Len(s) - 1) : Tail(s)[i] = s[i + 1]
OBVIOUS

\* Append adds one element after the others.
LEMMA AppendFacts ==
  ASSUME NEW S, NEW s \in Seq(S), NEW x \in S
  PROVE  /\ Append(s, x) \in Seq(S)
         /\ Len(s) \in Nat /\ Len(Append(s, x)) = Len(s) + 1
         /\ DOMAIN s = 1 .. Len(s) /\ DOMAIN Append(s, x) = 1 .. (Len(s) + 1)
         /\ \A i \in 1 .. Len(s) : Append(s, x)[i] = s[i]
         /\ Append(s, x)[Len(s) + 1] = x
OBVIOUS

\* The search of tabclients finds the one entry of a descriptor that has one.
LEMMA PlaceFinds ==
  ASSUME NEW t \in Seq(Entry), NEW S, NEW owner, Paired(t, S, owner), NEW s \in S
  PROVE  /\ Place(t, s) \in 1 .. Len(t)
         /\ t[Place(t, s)].sock = s
<1> DEFINE Fits(k) == /\ k <= Len(t) => t[k].sock = s
                      /\ \A j \in 1 .. (k - 1) : t[j].sock # s
<1>1. PICK k \in 1 .. Len(t) : t[k].sock = s
  BY DEF Paired
<1>2. Len(t) \in Nat /\ DOMAIN t = 1 .. Len(t)
  OBVIOUS
<1>3. k \in 1 .. (Len(t) + 1) /\ Fits(k)
  BY <1>1, <1>2 DEF Paired
<1>4. Place(t, s) \in 1 .. (Len(t) + 1) /\ Fits(Place(t, s))
  BY <1>3 DEF Place
<1>5. Place(t, s) <= Len(t)
  BY <1>1, <1>2, <1>4
<1> QED
  BY <1>2, <1>4, <1>5

\* add_client keeps the pairing.
LEMMA AddPairs ==
  ASSUME NEW t \in Seq(Entry), NEW S, NEW owner, Paired(t, S, owner),
         NEW s \in Fds \ S, owner[s] \in Peers
  PROVE  LET u == add_client(t, s, owner[s])
         IN  u \in Seq(Entry) /\ Len(u) = Len(t) + 1 /\ Paired(u, S \cup {s}, owner)
<1> DEFINE e == [sock |-> s, addr |-> owner[s]]
           u == Append(t, e)
<1>1. e \in Entry /\ e.sock = s /\ e.addr = owner[s]
  BY DEF Entry
<1>2. /\ u \in Seq(Entry)
      /\ Len(t) \in Nat /\ Len(u) = Len(t) + 1
      /\ DOMAIN t = 1 .. Len(t) /\ DOMAIN u = 1 .. (Len(t) + 1)
      /\ \A i \in 1 .. Len(t) : u[i] = t[i]
      /\ u[Len(t) + 1] = e
  BY <1>1, AppendFacts
<1> HIDE DEF u, e
<1>3. Paired(u, S \cup {s}, owner)
  BY <1>1, <1>2 DEF Paired
<1> QED
  BY <1>2, <1>3 DEF add_client, u, e

\* remove_client keeps the pairing: the last entry is in the place of the one
\* that goes, which may be the last itself.
LEMMA RemovePairs ==
  ASSUME NEW t \in Seq(Entry), NEW S, NEW owner, NEW owner2, Paired(t, S, owner),
         NEW s \in S, \A f \in S \ {s} : owner2[f] = owner[f]
  PROVE  LET u == remove_client(t, s)
         IN  u \in Seq(Entry) /\ Len(u) = Len(t) - 1 /\ Paired(u, S \ {s}, owner2)
<1> DEFINE p == Place(t, s)
           n == Len(t)
           u == [k \in 1 .. (n - 1) |-> IF k = p THEN t[n] ELSE t[k]]
<1>1. p \in 1 .. n /\ t[p].sock = s
  BY PlaceFinds
<1>2. n \in Nat /\ DOMAIN t = 1 .. n /\ \A k \in 1 .. n : t[k] \in Entry
  OBVIOUS
<1>3. u \in Seq(Entry) /\ Len(u) = n - 1 /\ DOMAIN u = 1 .. (n - 1)
  BY <1>1, <1>2
<1>4. /\ \A k \in 1 .. (n - 1) : u[k] = IF k = p THEN t[n] ELSE t[k]
  OBVIOUS
<1>5. u = remove_client(t, s)
  BY DEF remove_client
<1> HIDE DEF p, n, u
<1>6. Paired(t, S, owner) /\ DOMAIN t = 1 .. n /\ n \in Nat
  BY <1>2
<1>7. \A k \in 1 .. n : t[k].sock = s => k = p
  BY <1>1, <1>6 DEF Paired
<1>8. \A k \in 1 .. (n - 1) : u[k].sock \in S \ {s} /\ u[k].addr = owner2[u[k].sock]
  BY <1>1, <1>4, <1>6, <1>7 DEF Paired
<1>9. \A f \in S \ {s} : \E k \in 1 .. (n - 1) : u[k].sock = f
  <2> TAKE f \in S \ {s}
  <2>1. PICK k \in 1 .. n : t[k].sock = f
    BY <1>6 DEF Paired
  <2>2. k # p
    BY <1>1, <2>1
  <2>3. CASE k = n
    <3>1. p \in 1 .. (n - 1) /\ u[p] = t[n]
      BY <1>1, <1>4, <1>6, <2>2, <2>3
    <3> QED
      BY <2>1, <2>3, <3>1
  <2>4. CASE k # n
    BY <1>4, <1>6, <2>1, <2>2, <2>4
  <2> QED
    BY <2>3, <2>4
<1>10. \A j, k \in 1 .. (n - 1) : u[j].sock = u[k].sock => j = k
  BY <1>1, <1>4, <1>6 DEF Paired
<1>11. Paired(u, S \ {s}, owner2)
  BY <1>3, <1>8, <1>9, <1>10 DEF Paired
<1> QED
  BY <1>3, <1>5, <1>11 DEF n

-----------------------------------------------------------------------------
\* The server starts with no connection: the invariant holds.
LEMMA InitIInv ==
  Init => IInv
<1> SUFFICES ASSUME Init PROVE IInv
  OBVIOUS
<1>1. TypeOK
  <2>1. <<>> \in Seq(Peers) /\ <<>> \in Seq(Entry) /\ <<>> \in Seq(Event)
    OBVIOUS
  <2>2. /\ fds \in [Fds -> Peers \cup {Nobody}]
        /\ epoll \in SUBSET Fds
        /\ seen \in [peer : Peers \cup {Nobody}, addr : Peers \cup {Nobody}]
    BY DEF Init
  <2>3. /\ proc \in [Peers -> {"off", "dialed", "auth", "idle", "wait", "dead"}]
        /\ unread \in [Peers -> {"nothing", "uid", "alien", "word"}]
    BY DEF Init
  <2>4. /\ backlog \in Seq(Peers) /\ tab \in Seq(Entry) /\ batch \in Seq(Event)
    BY <2>1 DEF Init
  <2>5. connected \in Int /\ early \in Nat /\ sock_c \in Fds \cup {0}
    BY DEF Init
  <2>6. auth \in BOOLEAN
    BY DEF Init
  <2> QED
    BY <2>2, <2>3, <2>4, <2>5, <2>6 DEF TypeOK
<1>2. PeersApart /\ OneEvent /\ EventsFresh /\ AddressIsPeers
  BY DEF Init, PeersApart, OneEvent, EventsFresh, AddressIsPeers
<1>3. TableInv
  BY FS_EmptySet DEF Init, TableInv, Paired
<1>4. Lost = {}
  BY DEF Init, Lost
<1>5. LostInv
  BY <1>4, FS_EmptySet DEF Init, LostInv
<1> QED
  BY <1>1, <1>2, <1>3, <1>5 DEF IInv

-----------------------------------------------------------------------------
(* The steps of the peers.                                                   *)

\* C_connect: the peer is at the end of the backlog only.
LEMMA DialKeeps ==
  ASSUME IInv, NEW p \in Peers, Dial(p)
  PROVE  IInv'
<1> USE DEF IInv
<1>1. /\ proc[p] = "off" /\ proc' = [proc EXCEPT ![p] = "dialed"]
      /\ backlog' = Append(backlog, p)
      /\ UNCHANGED <<fds, epoll, connected, tab, batch, sock_c, auth, seen, unread, early>>
  BY DEF Dial, server
<1>2. /\ backlog' \in Seq(Peers)
      /\ Len(backlog) \in Nat /\ Len(backlog') = Len(backlog) + 1
      /\ DOMAIN backlog = 1 .. Len(backlog) /\ DOMAIN backlog' = 1 .. (Len(backlog) + 1)
      /\ \A i \in 1 .. Len(backlog) : backlog'[i] = backlog[i]
      /\ backlog'[Len(backlog) + 1] = p
  BY <1>1, AppendFacts DEF TypeOK
<1>3. TypeOK'
  BY <1>1, <1>2 DEF TypeOK
<1>4. /\ \A i \in DOMAIN backlog : backlog[i] # p
      /\ \A f \in Fds : fds[f] # p
  BY <1>1, NobodyAssumption DEF PeersApart
<1>5. PeersApart'
  BY <1>1, <1>2, <1>4 DEF PeersApart, TypeOK
<1>6. TableInv'
  BY <1>1 DEF TableInv, Paired
<1>7. \A f : Ready(f) => Ready(f)'
  BY <1>1, <1>2, <1>4 DEF Ready, TypeOK
<1>8. OneEvent' /\ EventsFresh' /\ AddressIsPeers'
  BY <1>1, <1>7 DEF OneEvent, EventsFresh, AddressIsPeers
<1>9. Lost' = Lost
  BY <1>1 DEF Lost, TypeOK
<1>10. LostInv'
  BY <1>1, <1>4, <1>9 DEF LostInv, TypeOK
<1> QED
  BY <1>3, <1>5, <1>6, <1>8, <1>10

\* C_auth: what stands in a socket that is out of the epoll set makes no event.
LEMMA SendUidKeeps ==
  ASSUME IInv, NEW p \in Peers, SendUid(p)
  PROVE  IInv'
<1> USE DEF IInv
<1>1. PICK id \in {"uid", "alien"} :
        /\ proc[p] = "dialed" /\ proc' = [proc EXCEPT ![p] = "auth"]
        /\ unread' = [unread EXCEPT ![p] = id]
        /\ UNCHANGED <<backlog, fds, epoll, connected, tab, batch, sock_c, auth, seen, early>>
  BY DEF SendUid, server, kernel
<1>2. TypeOK'
  BY <1>1 DEF TypeOK
<1>3. PeersApart'
  BY <1>1 DEF PeersApart, TypeOK
<1>4. TableInv'
  BY <1>1 DEF TableInv, Paired
<1>5. \A f : Ready(f) => Ready(f)'
  BY <1>1 DEF Ready, TypeOK
<1>6. OneEvent' /\ EventsFresh' /\ AddressIsPeers'
  BY <1>1, <1>5 DEF OneEvent, EventsFresh, AddressIsPeers
<1>7. Lost' = Lost
  BY <1>1 DEF Lost, TypeOK
<1>8. LostInv'
  BY <1>1, <1>7 DEF LostInv, TypeOK
<1> QED
  BY <1>2, <1>3, <1>4, <1>6, <1>8

\* C_action: a socket only gets more to read.
LEMMA SendWordKeeps ==
  ASSUME IInv, NEW p \in Peers, SendWord(p)
  PROVE  IInv'
<1> USE DEF IInv
<1>1. /\ proc[p] = "idle" /\ proc' = [proc EXCEPT ![p] = "wait"]
      /\ unread' = [unread EXCEPT ![p] = "word"]
      /\ UNCHANGED <<backlog, fds, epoll, connected, tab, batch, sock_c, auth, seen, early>>
  BY DEF SendWord, server, kernel
<1>2. TypeOK'
  BY <1>1 DEF TypeOK
<1>3. PeersApart'
  BY <1>1 DEF PeersApart, TypeOK
<1>4. TableInv'
  BY <1>1 DEF TableInv, Paired
<1>5. \A f : Ready(f) => Ready(f)'
  BY <1>1 DEF Ready, TypeOK
<1>6. OneEvent' /\ EventsFresh' /\ AddressIsPeers'
  BY <1>1, <1>5 DEF OneEvent, EventsFresh, AddressIsPeers
<1>7. Lost' = Lost
  BY <1>1 DEF Lost, TypeOK
<1>8. LostInv'
  BY <1>1, <1>7 DEF LostInv, TypeOK
<1> QED
  BY <1>2, <1>3, <1>4, <1>6, <1>8

\* A peer that dies before it was accepted is counted in early as it is in Lost;
\* one that is served keeps its descriptor until the server reads the end of file.
LEMMA DieKeeps ==
  ASSUME IInv, NEW p \in Peers, Die(p)
  PROVE  IInv'
<1> USE DEF IInv
<1>1. /\ proc[p] \notin {"off", "dead"} /\ proc' = [proc EXCEPT ![p] = "dead"]
      /\ UNCHANGED <<backlog, fds, epoll, connected, tab, batch, sock_c, auth, seen, unread>>
      /\ early' = IF proc[p] \in {"dialed", "auth"} THEN early + 1 ELSE early
  BY DEF Die, server, kernel
<1>2. TypeOK'
  BY <1>1 DEF TypeOK
<1>3. PeersApart'
  BY <1>1 DEF PeersApart, TypeOK
<1>4. TableInv'
  BY <1>1 DEF TableInv, Paired
<1>5. \A f : Ready(f) => Ready(f)'
  BY <1>1 DEF Ready, TypeOK
<1>6. OneEvent' /\ EventsFresh' /\ AddressIsPeers'
  BY <1>1, <1>5 DEF OneEvent, EventsFresh, AddressIsPeers
<1>7. IsFiniteSet(Lost') /\ Cardinality(Lost') <= early'
  <2>1. CASE proc[p] \in {"dialed", "auth"}
    <3>1. Lost' \in SUBSET (Lost \cup {p})
      BY <1>1 DEF Lost, TypeOK
    <3>2. /\ IsFiniteSet(Lost \cup {p})
          /\ Cardinality(Lost \cup {p}) <= early + 1
          /\ Cardinality(Lost \cup {p}) \in Nat
      <4>1. IsFiniteSet(Lost) /\ Cardinality(Lost) <= early /\ early \in Nat
        BY DEF LostInv, TypeOK
      <4>2. Cardinality(Lost) \in Nat
        BY <4>1, FS_CardinalityType
      <4>3. /\ IsFiniteSet(Lost \cup {p})
            /\ Cardinality(Lost \cup {p}) \in {Cardinality(Lost), Cardinality(Lost) + 1}
        BY <4>1, <4>2, FS_AddElement
      <4> QED
        BY <4>1, <4>2, <4>3
    <3>3. /\ IsFiniteSet(Lost')
          /\ Cardinality(Lost') <= Cardinality(Lost \cup {p})
          /\ Cardinality(Lost') \in Nat
      BY <3>1, <3>2, FS_Subset, FS_CardinalityType
    <3> QED
      BY <1>1, <2>1, <3>2, <3>3 DEF TypeOK
  <2>2. CASE proc[p] \notin {"dialed", "auth"}
    <3>1. \E f \in epoll : fds[f] = p
      BY <1>1, <2>2 DEF LostInv, TypeOK
    <3>2. Lost' = Lost
      BY <1>1, <3>1 DEF Lost, TypeOK
    <3> QED
      BY <1>1, <2>2, <3>2 DEF LostInv
  <2> QED
    BY <2>1, <2>2
<1>8. LostInv'
  BY <1>1, <1>7 DEF LostInv, TypeOK
<1> QED
  BY <1>2, <1>3, <1>4, <1>6, <1>8

-----------------------------------------------------------------------------
(* The steps of the server.                                                  *)

\* The next event is taken: the ones that stay are fresh if the step leaves
\* their descriptors alone.
LEMMA BatchTail ==
  ASSUME IInv, batch # <<>>, batch' = Tail(batch),
         \A g \in (Fds \cup {LISTEN}) \ {Head(batch).fd} :
             Ready(g) => Ready(g)' /\ (g # LISTEN => fds'[g] = fds[g])
  PROVE  /\ batch' \in Seq(Event)
         /\ OneEvent'
         /\ EventsFresh'
<1> USE DEF IInv
<1>1. batch \in Seq(Event)
  BY DEF TypeOK
<1>2. /\ Len(batch) \in Nat \ {0} /\ DOMAIN batch = 1 .. Len(batch)
      /\ Head(batch) = batch[1]
      /\ batch' \in Seq(Event) /\ DOMAIN batch' = 1 .. (Len(batch) - 1)
      /\ \A i \in 1 .. (Len(batch) - 1) : batch'[i] = batch[i + 1]
  BY <1>1, TailFacts
<1>3. OneEvent'
  BY <1>2 DEF OneEvent
<1>4. \A i \in 1 .. (Len(batch) - 1) :
        LET e == batch'[i]
        IN  /\ e.fd \in (Fds \cup {LISTEN}) \ {Head(batch).fd}
            /\ Ready(e.fd)
            /\ e.fd # LISTEN => fds[e.fd] = e.peer
  <2> TAKE i \in 1 .. (Len(batch) - 1)
  <2>1. i + 1 \in DOMAIN batch /\ 1 \in DOMAIN batch /\ i + 1 # 1 /\ batch'[i] = batch[i + 1]
    BY <1>2
  <2>2. batch[i + 1] \in Event
    BY <1>1, <2>1
  <2>3. batch[i + 1].fd \in Fds \cup {LISTEN}
    BY <2>2 DEF Event
  <2>4. batch[i + 1].fd # batch[1].fd
    BY <2>1 DEF OneEvent
  <2>5. /\ Ready(batch[i + 1].fd)
        /\ batch[i + 1].fd # LISTEN => fds[batch[i + 1].fd] = batch[i + 1].peer
    BY <2>1 DEF EventsFresh
  <2> QED
    BY <1>2, <2>1, <2>3, <2>4, <2>5
<1>5. \A i \in 1 .. (Len(batch) - 1) : \A g : batch'[i].fd = g =>
        /\ Ready(g)'
        /\ g # LISTEN => fds'[g] = batch'[i].peer
  <2> TAKE i \in 1 .. (Len(batch) - 1)
  <2> TAKE g
  <2> HAVE batch'[i].fd = g
  <2>1. /\ g \in (Fds \cup {LISTEN}) \ {Head(batch).fd}
        /\ Ready(g)
        /\ g # LISTEN => fds[g] = batch'[i].peer
    BY <1>4
  <2> QED
    BY <2>1
<1>6. EventsFresh'
  BY <1>2, <1>5 DEF EventsFresh, Ready
<1> QED
  BY <1>2, <1>3, <1>6

\* epoll_wait: one event for each descriptor that is ready, of the peer at its
\* other end.
LEMMA PollKeeps ==
  ASSUME IInv, Poll
  PROVE  IInv'
<1> USE DEF IInv
<1> DEFINE ready == {f \in epoll \cup {LISTEN} : Ready(f)}
           size  == IF Cardinality(ready) <= MaxEvents THEN Cardinality(ready)
                    ELSE MaxEvents
<1>1. /\ batch = <<>> /\ ~auth
      /\ UNCHANGED <<backlog, fds, epoll, connected, tab, sock_c, auth, seen, proc, unread, early>>
  BY DEF Poll, kernel, peers
<1>2. PICK order \in [1 .. size -> ready] :
        /\ \A i, j \in 1 .. size : order[i] = order[j] => i = j
        /\ batch' \in {b \in [1 .. size -> UNION {Events(f) : f \in ready}] :
                         \A i \in 1 .. size : b[i] \in Events(order[i])}
  BY DEF Poll
<1>3. size \in Nat
  <2>1. IsFiniteSet(Fds)
    BY FS_Interval, SizeAssumption DEF Fds
  <2>2. IsFiniteSet(epoll)
    BY <2>1, FS_Subset DEF TypeOK
  <2>3. IsFiniteSet(epoll \cup {LISTEN})
    BY <2>2, FS_AddElement
  <2>4. IsFiniteSet(ready)
    BY <2>3, FS_Subset
  <2>5. Cardinality(ready) \in Nat
    BY <2>4, FS_CardinalityType
  <2> QED
    BY <2>5, SizeAssumption
<1>4. \A f \in ready : \A e \in Events(f) :
        /\ e \in Event /\ e.fd = f
        /\ f # LISTEN => e.peer = fds[f]
  <2> TAKE f \in ready
  <2> TAKE e \in Events(f)
  <2>1. PICK k \in {"in", "err"} :
          e = [fd |-> f, kind |-> k, peer |-> IF f = LISTEN THEN Nobody ELSE fds[f]]
    BY DEF Events
  <2>2. f \in Fds \cup {LISTEN} /\ (f # LISTEN => fds[f] \in Peers \cup {Nobody})
    BY DEF TypeOK
  <2> QED
    BY <2>1, <2>2 DEF Event
<1>5. \A f \in ready : Ready(f)
  OBVIOUS
<1> HIDE DEF ready, size
<1>6. \A i \in 1 .. size :
        /\ batch'[i] \in Event
        /\ batch'[i].fd = order[i] /\ Ready(order[i])
        /\ order[i] # LISTEN => batch'[i].peer = fds[order[i]]
  BY <1>2, <1>4, <1>5
<1>7. batch' \in [1 .. size -> Event]
  BY <1>2, <1>6
<1>8. batch' \in Seq(Event) /\ DOMAIN batch' = 1 .. size
  BY <1>3, <1>7
<1>9. TypeOK'
  BY <1>1, <1>8 DEF TypeOK
<1>10. PeersApart' /\ AddressIsPeers'
  BY <1>1 DEF PeersApart, AddressIsPeers
<1>11. TableInv'
  BY <1>1 DEF TableInv, Paired
<1>12. OneEvent'
  BY <1>2, <1>6, <1>8 DEF OneEvent
<1>13. \A f : Ready(f) => Ready(f)'
  BY <1>1 DEF Ready
<1>14. EventsFresh'
  BY <1>1, <1>6, <1>8, <1>13 DEF EventsFresh
<1>15. Lost' = Lost
  BY <1>1 DEF Lost
<1>16. LostInv'
  BY <1>1, <1>15 DEF LostInv
<1> QED
  BY <1>9, <1>10, <1>11, <1>12, <1>14, <1>16

\* accept gives a free descriptor, which no event of the batch is about.
LEMMA AcceptKeeps ==
  ASSUME IInv, Accept
  PROVE  IInv'
<1> USE DEF IInv
<1>1. /\ batch # <<>> /\ ~auth /\ Head(batch).fd = LISTEN
      /\ batch' = Tail(batch)
      /\ UNCHANGED <<epoll, connected, tab, seen, proc, unread, early>>
  BY DEF Accept, peers
<1>2. CASE UNCHANGED <<backlog, fds, sock_c, auth>>
  <2>1. \A g : Ready(g) => Ready(g)'
    BY <1>1, <1>2 DEF Ready
  <2>2. batch' \in Seq(Event) /\ OneEvent' /\ EventsFresh'
    BY <1>1, <1>2, <2>1, BatchTail
  <2>3. TypeOK'
    BY <1>1, <1>2, <2>2 DEF TypeOK
  <2>4. PeersApart' /\ AddressIsPeers'
    BY <1>1, <1>2 DEF PeersApart, AddressIsPeers
  <2>5. TableInv'
    BY <1>1, <1>2 DEF TableInv, Paired
  <2>6. Lost' = Lost
    BY <1>1, <1>2 DEF Lost
  <2>7. LostInv'
    BY <1>1, <1>2, <2>6 DEF LostInv
  <2> QED
    BY <2>2, <2>3, <2>4, <2>5, <2>7
<1>3. ASSUME NEW f \in Free, sock_c' = f, backlog # <<>>,
             fds' = [fds EXCEPT ![f] = Head(backlog)],
             backlog' = Tail(backlog), auth' = TRUE
      PROVE  IInv'
  <2> DEFINE h == Head(backlog)
  <2>1. /\ Len(backlog) \in Nat \ {0} /\ DOMAIN backlog = 1 .. Len(backlog)
        /\ h = backlog[1] /\ h \in Peers
        /\ backlog' \in Seq(Peers) /\ DOMAIN backlog' = 1 .. (Len(backlog) - 1)
        /\ \A i \in 1 .. (Len(backlog) - 1) : backlog'[i] = backlog[i + 1]
    BY <1>3, TailFacts DEF TypeOK
  <2> HIDE DEF h
  <2>2. f \in Fds /\ fds[f] = Nobody /\ f \notin epoll
    BY DEF Free, TableInv
  <2>3. fds' = [fds EXCEPT ![f] = h]
    BY <1>3 DEF h
  <2>4. \A g \in Fds \ {f} : fds'[g] = fds[g]
    BY <2>3 DEF TypeOK
  <2>5. fds'[f] = h /\ fds' \in [Fds -> Peers \cup {Nobody}]
    BY <2>1, <2>2, <2>3 DEF TypeOK
  <2>6. \A g \in (Fds \cup {LISTEN}) \ {LISTEN} :
           Ready(g) => Ready(g)' /\ (g # LISTEN => fds'[g] = fds[g])
    BY <1>1, <2>2, <2>4 DEF Ready, TypeOK
  <2>7. batch' \in Seq(Event) /\ OneEvent' /\ EventsFresh'
    BY <1>1, <2>6, BatchTail
  <2>8. TypeOK'
    BY <1>1, <1>3, <2>1, <2>2, <2>5, <2>7 DEF TypeOK
  <2>9. proc[h] # "off" /\ \A g \in Fds : fds[g] # h
    BY <2>1 DEF PeersApart
  <2>10. PeersApart'
    <3>2. \A i \in DOMAIN backlog' :
             /\ i + 1 \in DOMAIN backlog /\ backlog'[i] = backlog[i + 1]
             /\ backlog'[i] # h
      BY <2>1 DEF PeersApart
    <3>1. \A i, j \in DOMAIN backlog' : backlog'[i] = backlog'[j] => i = j
      <4> TAKE i, j \in DOMAIN backlog'
      <4> HAVE backlog'[i] = backlog'[j]
      <4>1. backlog[i + 1] = backlog[j + 1]
        BY <3>2
      <4>2. i + 1 \in DOMAIN backlog /\ j + 1 \in DOMAIN backlog
        BY <3>2
      <4>3. i + 1 = j + 1
        BY <4>1, <4>2 DEF PeersApart
      <4> QED
        BY <2>1, <4>3
    <3>3. \A i \in DOMAIN backlog' :
             proc[backlog'[i]] # "off" /\ \A g \in Fds : fds[g] # backlog'[i]
      BY <3>2 DEF PeersApart
    <3>4. \A i \in DOMAIN backlog' : \A g \in Fds : fds'[g] # backlog'[i]
      BY <2>4, <2>5, <3>2, <3>3
    <3>5. \A g, k \in Fds : fds'[g] = fds'[k] /\ fds'[g] # Nobody => g = k
      BY <2>4, <2>5, <2>9 DEF PeersApart
    <3>6. \A g \in Fds : fds'[g] # Nobody => proc[fds'[g]] # "off"
      BY <2>4, <2>5, <2>9 DEF PeersApart
    <3> QED
      BY <1>1, <3>1, <3>3, <3>4, <3>5, <3>6 DEF PeersApart
  <2>11. TableInv'
    <3>1. \A g \in epoll : g \in Fds \ {f}
      BY <2>2 DEF TypeOK
    <3>2. Paired(tab, epoll, fds')
      BY <2>4, <3>1 DEF TableInv, Paired
    <3>3. h # Nobody
      BY <2>1, NobodyAssumption
    <3> QED
      BY <1>1, <1>3, <2>2, <2>4, <2>5, <3>1, <3>2, <3>3 DEF TableInv
  <2>12. AddressIsPeers'
    BY <1>1 DEF AddressIsPeers
  <2>13. Lost' = Lost
    BY <1>1, <2>2, <2>4 DEF Lost, TypeOK
  <2>14. LostInv'
    BY <1>1, <1>3, <2>2, <2>4, <2>13 DEF LostInv, TypeOK
  <2> QED
    BY <2>7, <2>8, <2>10, <2>11, <2>12, <2>14
<1> QED
  BY <1>2, <1>3 DEF Accept

\* The batch stays: its events are fresh if the step leaves the descriptors
\* that are ready alone.
LEMMA BatchSame ==
  ASSUME IInv, batch' = batch,
         \A g \in Fds \cup {LISTEN} :
             Ready(g) => Ready(g)' /\ (g # LISTEN => fds'[g] = fds[g])
  PROVE  /\ batch' \in Seq(Event)
         /\ OneEvent'
         /\ EventsFresh'
<1> USE DEF IInv
<1>1. batch' \in Seq(Event) /\ OneEvent'
  BY DEF TypeOK, OneEvent
<1>2. \A i \in DOMAIN batch : \A g : batch[i].fd = g =>
        /\ Ready(g)'
        /\ g # LISTEN => fds'[g] = batch[i].peer
  <2> TAKE i \in DOMAIN batch
  <2> TAKE g
  <2> HAVE batch[i].fd = g
  <2>1. batch[i] \in Event
    BY DEF TypeOK
  <2>2. g \in Fds \cup {LISTEN}
    BY <2>1 DEF Event
  <2>3. Ready(g) /\ (g # LISTEN => fds[g] = batch[i].peer)
    BY DEF EventsFresh
  <2> QED
    BY <2>2, <2>3
<1>3. EventsFresh'
  BY <1>2 DEF EventsFresh, Ready
<1> QED
  BY <1>1, <1>3

\* S_auth: the descriptor goes to the epoll set, the table and the counter, or is
\* closed, or is lost with a dead peer.
LEMMA AuthKeeps ==
  ASSUME IInv, Auth
  PROVE  IInv'
<1> USE DEF IInv
<1> DEFINE s == sock_c
           p == fds[sock_c]
<1>1. /\ auth /\ auth' = FALSE
      /\ unread' = [unread EXCEPT ![p] = "nothing"]
      /\ UNCHANGED <<backlog, batch, sock_c, early>>
      /\ Reject(p) \/ Admit(p) \/ (proc[p] = "dead" /\ Forget)
  BY DEF Auth
<1>2. s \in Fds \ epoll /\ p \in Peers /\ p # Nobody /\ proc[p] # "off"
  BY <1>1, NobodyAssumption DEF TypeOK, TableInv, PeersApart
<1>3. /\ \A g \in Fds \ {s} : fds[g] # p
      /\ \A i \in DOMAIN backlog : backlog[i] # p
  BY <1>2 DEF PeersApart
<1>4. epoll \subseteq Fds \ {s}
  BY <1>2 DEF TypeOK
<1>5. s = sock_c /\ fds[s] = p
  OBVIOUS
<1> HIDE DEF s, p
<1>6. CASE Reject(p)
  <2>1. /\ fds' = [fds EXCEPT ![s] = Nobody] /\ proc' = [proc EXCEPT ![p] = "off"]
        /\ UNCHANGED <<epoll, connected, tab, seen>>
    BY <1>5, <1>6 DEF Reject
  <2>2. /\ \A g \in Fds \ {s} : fds'[g] = fds[g]
        /\ fds'[s] = Nobody
        /\ proc'[p] = "off" /\ \A q \in Peers \ {p} : proc'[q] = proc[q]
        /\ \A q \in Peers \ {p} : unread'[q] = unread[q]
    BY <1>1, <1>2, <2>1 DEF TypeOK
  <2>3. \A g \in Fds \cup {LISTEN} :
            Ready(g) => Ready(g)' /\ (g # LISTEN => fds'[g] = fds[g])
    BY <1>1, <1>3, <1>4, <2>1, <2>2 DEF Ready, TypeOK, TableInv
  <2>4. batch' \in Seq(Event) /\ OneEvent' /\ EventsFresh'
    BY <1>1, <2>3, BatchSame
  <2>5. TypeOK'
    BY <1>1, <1>2, <2>1, <2>4 DEF TypeOK
  <2>6. PeersApart'
    <3>1. \A f, g \in Fds : fds'[f] = fds'[g] /\ fds'[f] # Nobody => f = g
      BY <2>2 DEF PeersApart
    <3>2. \A i \in DOMAIN backlog :
             proc'[backlog[i]] # "off" /\ \A f \in Fds : fds'[f] # backlog[i]
      <4>1. \A i \in DOMAIN backlog : backlog[i] \in Peers \ {p}
        BY <1>3 DEF TypeOK
      <4> QED
        BY <4>1, <2>2, NobodyAssumption DEF PeersApart
    <3>3. \A f \in Fds : fds'[f] # Nobody => proc'[fds'[f]] # "off"
      BY <1>3, <2>2 DEF PeersApart, TypeOK
    <3> QED
      BY <1>1, <3>1, <3>2, <3>3 DEF PeersApart
  <2>7. TableInv'
    <3>1. Paired(tab, epoll, fds')
      BY <1>4, <2>2 DEF TableInv, Paired
    <3> QED
      BY <1>1, <1>4, <2>1, <2>2, <3>1 DEF TableInv
  <2>8. AddressIsPeers'
    BY <2>1 DEF AddressIsPeers
  <2>9. Lost' \in SUBSET Lost
    BY <1>2, <1>4, <2>1, <2>2 DEF Lost
  <2>10. IsFiniteSet(Lost') /\ Cardinality(Lost') <= early'
    BY <1>1, <2>9, FS_Subset, FS_CardinalityType DEF LostInv, TypeOK
  <2>11. \A q \in Peers : proc'[q] \in {"idle", "wait"} => \E f \in epoll' : fds'[f] = q
    BY <1>2, <1>4, <2>1, <2>2 DEF LostInv
  <2>12. \A f \in Fds \ epoll' : fds'[f] # Nobody => proc'[fds'[f]] = "dead"
    BY <1>1, <1>3, <1>5, <2>1, <2>2 DEF LostInv, TypeOK
  <2>13. LostInv'
    BY <2>10, <2>11, <2>12 DEF LostInv
  <2> QED
    BY <2>4, <2>5, <2>6, <2>7, <2>8, <2>13
<1>7. CASE Admit(p)
  <2>1. /\ epoll' = epoll \cup {s} /\ connected' = connected + 1
        /\ tab' = add_client(tab, s, fds[s])
        /\ seen' = [peer |-> p, addr |-> p]
        /\ fds' = fds
        /\ proc' = IF proc[p] = "dead" THEN proc ELSE [proc EXCEPT ![p] = "idle"]
    BY <1>5, <1>7 DEF Admit
  <2>2. /\ proc'[p] \in {"dead", "idle"} /\ (proc'[p] = "dead" => proc[p] = "dead")
        /\ \A q \in Peers \ {p} : proc'[q] = proc[q]
        /\ \A q \in Peers \ {p} : unread'[q] = unread[q]
    BY <1>1, <1>2, <2>1 DEF TypeOK
  <2>3. \A g \in Fds \cup {LISTEN} :
            Ready(g) => Ready(g)' /\ (g # LISTEN => fds'[g] = fds[g])
    BY <1>1, <1>3, <1>4, <2>1, <2>2 DEF Ready, TypeOK, TableInv
  <2>4. batch' \in Seq(Event) /\ OneEvent' /\ EventsFresh'
    BY <1>1, <2>3, BatchSame
  <2>5. tab' \in Seq(Entry) /\ Len(tab') = Len(tab) + 1 /\ Paired(tab', epoll', fds)
    <3>1. tab \in Seq(Entry) /\ Paired(tab, epoll, fds) /\ fds[s] \in Peers
      BY <1>2, <1>5 DEF TypeOK, TableInv
    <3> QED
      BY <1>2, <2>1, <3>1, AddPairs
  <2>6. TypeOK'
    <3>1. proc' \in [Peers -> {"off", "dialed", "auth", "idle", "wait", "dead"}]
      BY <1>2, <2>1 DEF TypeOK
    <3>2. /\ epoll' \in SUBSET Fds /\ connected' \in Int
          /\ seen' \in [peer : Peers \cup {Nobody}, addr : Peers \cup {Nobody}]
      BY <1>2, <2>1 DEF TypeOK
    <3>3. unread' \in [Peers -> {"nothing", "uid", "alien", "word"}]
      BY <1>1, <1>2 DEF TypeOK
    <3>4. auth' \in BOOLEAN
      BY <1>1
    <3> QED
      BY <1>1, <2>1, <2>4, <2>5, <3>1, <3>2, <3>3, <3>4 DEF TypeOK
  <2>7. PeersApart'
    BY <1>1, <1>2, <1>3, <2>1, <2>2 DEF PeersApart, TypeOK
  <2>8. Cardinality(epoll') = Cardinality(epoll) + 1
    <3>1. IsFiniteSet(Fds)
      BY FS_Interval, SizeAssumption DEF Fds
    <3>2. IsFiniteSet(epoll)
      BY <3>1, FS_Subset DEF TypeOK
    <3> QED
      BY <1>2, <2>1, <3>2, FS_AddElement
  <2>9. TableInv'
    BY <1>1, <1>2, <1>5, <2>1, <2>5, <2>8 DEF TableInv
  <2>10. AddressIsPeers'
    BY <2>1 DEF AddressIsPeers
  <2>11. Lost' \in SUBSET Lost
    BY <1>2, <1>5, <2>1, <2>2 DEF Lost
  <2>12. IsFiniteSet(Lost') /\ Cardinality(Lost') <= early'
    BY <1>1, <2>11, FS_Subset, FS_CardinalityType DEF LostInv, TypeOK
  <2>13. \A q \in Peers : proc'[q] \in {"idle", "wait"} => \E f \in epoll' : fds'[f] = q
    BY <1>5, <2>1, <2>2 DEF LostInv
  <2>14. \A f \in Fds \ epoll' : fds'[f] # Nobody => proc'[fds'[f]] = "dead"
    BY <1>1, <1>3, <1>5, <2>1, <2>2 DEF LostInv, TypeOK
  <2>15. LostInv'
    BY <2>12, <2>13, <2>14 DEF LostInv
  <2> QED
    BY <2>4, <2>6, <2>7, <2>9, <2>10, <2>15
<1>8. CASE proc[p] = "dead" /\ Forget
  <2>1. UNCHANGED <<fds, epoll, connected, tab, seen, proc>>
    BY <1>8 DEF Forget
  <2>2. \A q \in Peers \ {p} : unread'[q] = unread[q]
    BY <1>1, <1>2 DEF TypeOK
  <2>3. \A g \in Fds \cup {LISTEN} :
            Ready(g) => Ready(g)' /\ (g # LISTEN => fds'[g] = fds[g])
    BY <1>1, <1>3, <1>4, <2>1, <2>2 DEF Ready, TypeOK, TableInv
  <2>4. batch' \in Seq(Event) /\ OneEvent' /\ EventsFresh'
    BY <1>1, <2>3, BatchSame
  <2>5. TypeOK'
    BY <1>1, <1>2, <2>1, <2>4 DEF TypeOK
  <2>6. PeersApart' /\ AddressIsPeers'
    BY <1>1, <2>1 DEF PeersApart, AddressIsPeers
  <2>7. TableInv'
    BY <1>1, <2>1 DEF TableInv, Paired
  <2>8. Lost' = Lost
    BY <2>1 DEF Lost
  <2>9. \A f \in Fds \ epoll' : fds'[f] # Nobody => proc'[fds'[f]] = "dead"
    BY <1>5, <1>8, <2>1 DEF LostInv
  <2>10. LostInv'
    BY <1>1, <2>1, <2>8, <2>9 DEF LostInv
  <2> QED
    BY <2>4, <2>5, <2>6, <2>7, <2>10
<1> QED
  BY <1>1, <1>6, <1>7, <1>8

\* An event of a client: its answer, or its end in the epoll set, the table and
\* the counter, found under the address of the peer.
LEMMA ServeKeeps ==
  ASSUME IInv, Serve
  PROVE  IInv'
<1> USE DEF IInv
<1> DEFINE e == Head(batch)
           f == e.fd
           p == fds[f]
<1>1. /\ batch # <<>> /\ ~auth /\ f # LISTEN
      /\ batch' = Tail(batch) /\ sock_c' = f
      /\ seen' = [peer |-> p, addr |-> Address(tab, f)]
      /\ Answer(f) \/ Dismiss(f)
      /\ UNCHANGED <<backlog, auth, early>>
  BY DEF Serve
<1>2. f \in epoll /\ f \in Fds
  <2>1. 1 \in DOMAIN batch /\ e = batch[1] /\ e \in Event
    BY <1>1, TailFacts DEF TypeOK
  <2>2. Ready(f)
    BY <2>1 DEF EventsFresh
  <2> QED
    BY <1>1, <2>2 DEF Ready, TypeOK
<1> HIDE DEF f
<1>3. /\ p \in Peers /\ proc[p] # "off"
      /\ \A g \in Fds \ {f} : fds[g] # p
      /\ \A i \in DOMAIN backlog : backlog[i] # p
  BY <1>2, NobodyAssumption DEF TypeOK, TableInv, PeersApart
<1>4. Address(tab, f) = p
  <2>1. Place(tab, f) \in 1 .. Len(tab) /\ tab[Place(tab, f)].sock = f
    BY <1>2, PlaceFinds DEF TypeOK, TableInv
  <2>2. Place(tab, f) \in DOMAIN tab
    BY <2>1 DEF TypeOK
  <2>3. tab[Place(tab, f)].addr = p
    BY <2>1, <2>2 DEF TableInv, Paired
  <2> QED
    BY <2>1, <2>3 DEF Address, TypeOK
<1>5. AddressIsPeers' /\ seen' \in [peer : Peers \cup {Nobody}, addr : Peers \cup {Nobody}]
  BY <1>1, <1>3, <1>4 DEF AddressIsPeers
<1>6. fds[f] = p /\ f = Head(batch).fd
  BY DEF f
<1> HIDE DEF p
<1>7. CASE Answer(f)
  <2>1. /\ unread' = [unread EXCEPT ![p] = "nothing"]
        /\ proc' = IF proc[p] = "dead" THEN proc ELSE [proc EXCEPT ![p] = "idle"]
        /\ UNCHANGED <<fds, epoll, connected, tab>>
    BY <1>6, <1>7 DEF Answer
  <2>2. /\ proc'[p] \in {"dead", "idle"}
        /\ \A q \in Peers \ {p} : proc'[q] = proc[q]
        /\ \A q \in Peers \ {p} : unread'[q] = unread[q]
    BY <1>3, <2>1 DEF TypeOK
  <2>3. \A g \in (Fds \cup {LISTEN}) \ {f} :
            Ready(g) => Ready(g)' /\ (g # LISTEN => fds'[g] = fds[g])
    BY <1>1, <1>3, <2>1, <2>2 DEF Ready, TypeOK, TableInv
  <2>4. batch' \in Seq(Event) /\ OneEvent' /\ EventsFresh'
    BY <1>1, <1>6, <2>3, BatchTail
  <2>5. TypeOK'
    BY <1>1, <1>2, <1>3, <1>5, <2>1, <2>4 DEF TypeOK
  <2>6. PeersApart'
    BY <1>1, <1>3, <2>1, <2>2 DEF PeersApart, TypeOK
  <2>7. TableInv'
    BY <1>1, <2>1 DEF TableInv, Paired
  <2>8. Lost' = Lost
    BY <1>2, <1>3, <1>6, <2>1, <2>2 DEF Lost
  <2>9. \A q \in Peers : proc'[q] \in {"idle", "wait"} => \E g \in epoll' : fds'[g] = q
    BY <1>2, <1>6, <2>1, <2>2 DEF LostInv
  <2>10. \A g \in Fds \ epoll' : fds'[g] # Nobody => proc'[fds'[g]] = "dead"
    BY <1>1, <1>2, <1>3, <2>1, <2>2 DEF LostInv, TypeOK
  <2>11. LostInv'
    BY <1>1, <2>8, <2>9, <2>10 DEF LostInv
  <2> QED
    BY <1>5, <2>4, <2>5, <2>6, <2>7, <2>11
<1>8. CASE Dismiss(f)
  <2>1. /\ epoll' = epoll \ {f} /\ connected' = connected - 1
        /\ fds' = [fds EXCEPT ![f] = Nobody]
        /\ tab' = remove_client(tab, f)
        /\ proc' = [proc EXCEPT ![p] = "off"]
        /\ unread' = [unread EXCEPT ![p] = "nothing"]
    BY <1>6, <1>8 DEF Dismiss
  <2>2. /\ \A g \in Fds \ {f} : fds'[g] = fds[g]
        /\ fds'[f] = Nobody
        /\ proc'[p] = "off" /\ \A q \in Peers \ {p} : proc'[q] = proc[q]
        /\ \A q \in Peers \ {p} : unread'[q] = unread[q]
    BY <1>2, <1>3, <2>1 DEF TypeOK
  <2>3. \A g \in (Fds \cup {LISTEN}) \ {f} :
            Ready(g) => Ready(g)' /\ (g # LISTEN => fds'[g] = fds[g])
    BY <1>1, <1>3, <2>1, <2>2 DEF Ready, TypeOK, TableInv
  <2>4. batch' \in Seq(Event) /\ OneEvent' /\ EventsFresh'
    BY <1>1, <1>6, <2>3, BatchTail
  <2>5. \A g \in epoll \ {f} : fds'[g] = fds[g]
    BY <2>2 DEF TypeOK
  <2>6. tab' \in Seq(Entry) /\ Len(tab') = Len(tab) - 1 /\ Paired(tab', epoll', fds')
    <3>1. tab \in Seq(Entry) /\ Paired(tab, epoll, fds)
      BY DEF TypeOK, TableInv
    <3> QED
      BY <1>2, <2>1, <2>5, <3>1, RemovePairs
  <2>7. TypeOK'
    BY <1>1, <1>2, <1>3, <1>5, <2>1, <2>4, <2>6 DEF TypeOK
  <2>8. PeersApart'
    <3>1. \A g, h \in Fds : fds'[g] = fds'[h] /\ fds'[g] # Nobody => g = h
      BY <2>2 DEF PeersApart
    <3>2. \A i \in DOMAIN backlog :
             proc'[backlog[i]] # "off" /\ \A g \in Fds : fds'[g] # backlog[i]
      <4>1. \A i \in DOMAIN backlog : backlog[i] \in Peers \ {p}
        BY <1>3 DEF TypeOK
      <4> QED
        BY <4>1, <2>2, NobodyAssumption DEF PeersApart
    <3>3. \A g \in Fds : fds'[g] # Nobody => proc'[fds'[g]] # "off"
      BY <1>3, <2>2 DEF PeersApart, TypeOK
    <3> QED
      BY <1>1, <3>1, <3>2, <3>3 DEF PeersApart
  <2>9. Cardinality(epoll') = Cardinality(epoll) - 1
    <3>1. IsFiniteSet(Fds)
      BY FS_Interval, SizeAssumption DEF Fds
    <3>2. IsFiniteSet(epoll)
      BY <3>1, FS_Subset DEF TypeOK
    <3> QED
      BY <1>2, <2>1, <3>2, FS_RemoveElement
  <2>10. TableInv'
    BY <1>1, <2>1, <2>5, <2>6, <2>9 DEF TableInv
  <2>11. Lost' \in SUBSET Lost
    BY <1>3, <1>6, <2>1, <2>2, <2>5 DEF Lost
  <2>12. IsFiniteSet(Lost') /\ Cardinality(Lost') <= early'
    BY <1>1, <2>11, FS_Subset, FS_CardinalityType DEF LostInv, TypeOK
  <2>13. \A q \in Peers : proc'[q] \in {"idle", "wait"} => \E g \in epoll' : fds'[g] = q
    BY <1>6, <2>1, <2>2, <2>5 DEF LostInv
  <2>14. \A g \in Fds \ epoll' : fds'[g] # Nobody => proc'[fds'[g]] = "dead"
    BY <1>1, <1>3, <2>1, <2>2 DEF LostInv, TypeOK
  <2>15. LostInv'
    BY <2>12, <2>13, <2>14 DEF LostInv
  <2> QED
    BY <1>5, <2>4, <2>7, <2>8, <2>10, <2>15
<1> QED
  BY <1>1, <1>7, <1>8

-----------------------------------------------------------------------------
\* Every step keeps the invariant.
LEMMA NextKeeps ==
  ASSUME IInv, [Next]_vars
  PROVE  IInv'
<1>1. CASE ServerStep
  BY <1>1, PollKeeps, AcceptKeeps, AuthKeeps, ServeKeeps DEF ServerStep
<1>2. ASSUME NEW p \in Peers, Dial(p) \/ SendUid(p) \/ SendWord(p) \/ Die(p)
      PROVE  IInv'
  BY <1>2, DialKeeps, SendUidKeeps, SendWordKeeps, DieKeeps
<1>3. CASE UNCHANGED vars
  BY <1>3 DEF vars, IInv, TypeOK, PeersApart, TableInv, Paired, OneEvent, EventsFresh,
              Ready, AddressIsPeers, LostInv, Lost
<1> QED
  BY <1>1, <1>2, <1>3 DEF Next

\* The invariant holds of every state of the server and its peers.
THEOREM Invariance == Spec => []IInv
<1>1. Spec => Init /\ [][Next]_vars
  BY DEF Spec
<1> QED
  BY <1>1, InitIInv, NextKeeps, PTL

\* The variables of the connection layer keep their types, the fields of the
\* table and of the batch among them.
THEOREM TypeCorrect == Spec => []TypeOK
<1>1. IInv => TypeOK
  BY DEF IInv
<1> QED
  BY <1>1, Invariance, PTL

\* The epoll set, the table and the counter name the same clients: whatever the
\* order of arrivals, ends and refusals, for any limit.
THEOREM SlotsAlwaysAgree == Spec => []SlotsAgree
<1>1. IInv => SlotsAgree
  <2> SUFFICES ASSUME IInv PROVE SlotsAgree
    OBVIOUS
  <2>1. connected = Cardinality(epoll) /\ Len(tab) = Cardinality(epoll)
    BY DEF IInv, TableInv
  <2>2. Paired(tab, epoll, fds)
    BY DEF IInv, TableInv
  <2>3. \A k \in DOMAIN tab : \E f \in epoll :
          <<tab[k].sock, tab[k].addr>> = <<f, fds[f]>>
    BY <2>2 DEF Paired
  <2>4. \A f \in epoll : \E k \in DOMAIN tab :
          <<tab[k].sock, tab[k].addr>> = <<f, fds[f]>>
    BY <2>2 DEF Paired
  <2>5. {<<tab[k].sock, tab[k].addr>> : k \in DOMAIN tab} = {<<f, fds[f]>> : f \in epoll}
    BY <2>3, <2>4
  <2> QED
    BY <2>1, <2>5 DEF SlotsAgree
<1> QED
  BY <1>1, Invariance, PTL

\* An event is taken for the connection that epoll_wait saw, though descriptors
\* are closed and given again between the two.
THEOREM EventsStayFresh == Spec => []EventsFresh
<1>1. IInv => EventsFresh
  BY DEF IInv
<1> QED
  BY <1>1, Invariance, PTL

\* The address under which the Monitor works is that of the peer that spoke.
THEOREM AddressIsAlwaysPeers == Spec => []AddressIsPeers
<1>1. IInv => AddressIsPeers
  BY DEF IInv
<1> QED
  BY <1>1, Invariance, PTL

\* A client that the limit allows for finds a descriptor, as long as no more
\* peers died before accept than descriptors are spare: each lost descriptor has
\* a peer of its own.
THEOREM RoomForAllAlways == Spec => []RoomForAll
<1>1. IInv => RoomForAll
  <2> SUFFICES ASSUME IInv, Cardinality(epoll) < MaxClients, early <= Spare, ~auth,
                      Free = {}
               PROVE  FALSE
    BY DEF RoomForAll
  <2> DEFINE out   == Fds \ epoll
             peerOf == [f \in out |-> fds[f]]
  <2>1. \A f \in out : fds[f] \in Lost
    <3> TAKE f \in out
    <3>1. f \in Fds /\ fds[f] # Nobody
      BY DEF Free
    <3>2. proc[fds[f]] = "dead" /\ fds[f] \in Peers
      BY <3>1 DEF IInv, LostInv, TypeOK
    <3>3. \A g \in epoll : fds[g] # fds[f]
      BY <3>1 DEF IInv, PeersApart, TypeOK
    <3> QED
      BY <3>2, <3>3 DEF Lost
  <2>2. \A f, g \in out : fds[f] = fds[g] => f = g
    BY DEF IInv, PeersApart, Free
  <2>3. peerOf \in Injection(out, Lost)
    BY <2>1, <2>2 DEF Injection, IsInjective
  <2>4. IsFiniteSet(Lost) /\ Cardinality(Lost) <= early
    BY DEF IInv, LostInv
  <2>5. Cardinality(out) <= Cardinality(Lost)
    BY <2>3, <2>4, FS_Injection
  <2>6. IsFiniteSet(Fds) /\ Cardinality(Fds) = MaxClients + Spare
    <3>1. MaxClients + Spare \in Int /\ 1 \in Int /\ ~(1 > MaxClients + Spare)
      BY SizeAssumption
    <3>2. Cardinality(1 .. (MaxClients + Spare)) = (MaxClients + Spare) - 1 + 1
      BY <3>1, FS_Interval
    <3> QED
      BY <3>1, <3>2, FS_Interval, SizeAssumption DEF Fds
  <2>7. epoll = Fds \cap epoll /\ IsFiniteSet(epoll)
    BY <2>6, FS_Subset DEF IInv, TypeOK
  <2>8. Cardinality(out) = Cardinality(Fds) - Cardinality(epoll)
    <3>1. Cardinality(Fds \ epoll) = Cardinality(Fds) - Cardinality(Fds \cap epoll)
      BY <2>6, FS_Difference
    <3> QED
      BY <2>7, <3>1
  <2>9. /\ Cardinality(epoll) \in Nat /\ Cardinality(Lost) \in Nat
        /\ early \in Nat
    BY <2>4, <2>7, FS_CardinalityType DEF IInv, TypeOK
  <2> HIDE DEF out
  <2> QED
    BY <2>4, <2>5, <2>6, <2>8, <2>9, SizeAssumption
<1> QED
  BY <1>1, Invariance, PTL

-----------------------------------------------------------------------------
\* The members of PeerSet: the peers served.
members == {fds[f] : f \in epoll}

\* No more peers are served than descriptors are in the epoll set.
LEMMA MembersBounded ==
  ASSUME IInv
  PROVE  Cardinality(members) <= Cardinality(epoll) /\ Cardinality(members) \in Nat
<1>1. IsFiniteSet(Fds)
  BY FS_Interval, SizeAssumption DEF Fds
<1>2. IsFiniteSet(epoll)
  BY <1>1, FS_Subset DEF IInv, TypeOK
<1> DEFINE peerOf == [f \in epoll |-> fds[f]]
<1>3. peerOf \in Surjection(epoll, members)
  BY DEF Surjection, members
<1> QED
  BY <1>2, <1>3, FS_Surjection, FS_CardinalityType

\* FiniteSets is the same module for PeerSet.
LEMMA SameCardinality ==
  ASSUME NEW S PROVE P!Cardinality(S) = Cardinality(S)
BY DEF P!Cardinality, Cardinality

\* The connection layer implements PeerSet: a peer joins the clients when
\* S_auth admits it, under the limit, and leaves when its descriptor is closed.
THEOREM ServesPeerSet == Spec => PeerSpec
<1>1. Init => P!Init
  BY DEF Init, P!Init
<1>2. IInv /\ [Next]_vars => [P!Next]_members
  <2> SUFFICES ASSUME IInv, [Next]_vars
               PROVE  P!Next \/ members' = members
    OBVIOUS
  <2>1. CASE \/ Poll
             \/ \E p \in Peers : Dial(p) \/ SendUid(p) \/ SendWord(p) \/ Die(p)
             \/ UNCHANGED vars
    BY <2>1 DEF Poll, Dial, SendUid, SendWord, Die, kernel, vars, members
  <2>2. CASE Accept
    <3>1. epoll' = epoll /\ \A f \in epoll : fds'[f] = fds[f]
      BY <2>2 DEF Accept, Free, IInv, TypeOK, TableInv
    <3> QED
      BY <3>1 DEF members
  <2>3. CASE Auth
    <3> DEFINE s == sock_c
               p == fds[sock_c]
    <3>1. /\ s \in Fds \ epoll /\ p \in Peers
          /\ epoll \subseteq Fds
      BY <2>3, NobodyAssumption DEF Auth, IInv, TypeOK, TableInv
    <3>2. \A f \in epoll : fds[f] # p
      BY <3>1, NobodyAssumption DEF IInv, PeersApart, TypeOK
    <3>3. CASE Reject(p) \/ Forget
      <4>1. epoll' = epoll /\ \A f \in epoll : fds'[f] = fds[f]
        BY <3>1, <3>3 DEF Reject, Forget, IInv, TypeOK
      <4> QED
        BY <4>1 DEF members
    <3>4. CASE connected < MaxClients /\ Admit(p)
      <4>1. Cardinality(members) < MaxClients
        BY <3>4, MembersBounded, SizeAssumption DEF IInv, TableInv, TypeOK
      <4>2. members' = members \cup {p}
        BY <3>1, <3>4 DEF Admit, members
      <4>3. p \notin members
        BY <3>2 DEF members
      <4>4. PICK q \in Peers : q = p
        BY <3>1
      <4>5. P!Join(q)
        BY <4>1, <4>2, <4>3, <4>4, SameCardinality DEF P!Join, members
      <4> QED
        BY <4>5 DEF P!Next
    <3>5. connected \in Int /\ MaxClients \in Nat
      BY SizeAssumption DEF IInv, TypeOK
    <3> QED
      BY <2>3, <3>3, <3>4, <3>5 DEF Auth
  <2>4. CASE Serve
    <3> DEFINE e == Head(batch)
               f == e.fd
    <3>1. 1 \in DOMAIN batch /\ e = batch[1] /\ f # LISTEN
      BY <2>4, TailFacts DEF Serve, IInv, TypeOK
    <3>2. f \in epoll /\ f \in Fds /\ fds[f] \in Peers
      BY <3>1 DEF IInv, EventsFresh, Ready, TypeOK, TableInv
    <3>3. CASE Answer(f)
      BY <3>3 DEF Answer, members
    <3>4. CASE Dismiss(f)
      <4>1. /\ epoll' = epoll \ {f}
            /\ \A g \in epoll \ {f} : fds'[g] = fds[g] /\ fds[g] # fds[f]
        BY <3>2, <3>4, NobodyAssumption DEF Dismiss, IInv, TypeOK, PeersApart
      <4>2. members' = members \ {fds[f]}
        BY <3>2, <4>1 DEF members
      <4>3. PICK q \in Peers : q = fds[f]
        BY <3>2
      <4>4. P!Leave(q)
        BY <3>2, <4>2, <4>3 DEF P!Leave, members
      <4> QED
        BY <4>4 DEF P!Next
    <3> QED
      BY <2>4, <3>3, <3>4 DEF Serve
  <2> QED
    BY <2>1, <2>2, <2>3, <2>4 DEF Next, ServerStep
<1>3. Spec => Init /\ [][Next]_vars
  BY DEF Spec
<1> QED
  BY <1>1, <1>2, <1>3, Invariance, PTL DEF PeerSpec, P!Spec, members
=============================================================================
