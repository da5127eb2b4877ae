# Paraload in TLA+

Paraload computes a large file of records (`test.fas` is a sample) with many
machines: one server hands out chunks of records over TCP, clients run a command
on each chunk and send the result back. This directory models the server, its
clients, their protocol and the files they leave, checks the models with TLC and
proves the invariants they rest on with TLAPS. Line numbers refer to the files
of `src/`.

## The system

| part | source | state | operations |
|---|---|---|---|
| server loop | `server()`, paraload.cpp 99-390 | `current_round`, which loop it is in | GET, PUT, CON, DEC, CONT, PING, INFO; new round; drain; exit |
| job table | Monitor.cpp | `states`, counters `todo inprogress done fail`, `current_addr_idx` | `tag_segment chgstate restart add_addr_idx rem_addr_idx exists_addr_idx` |
| input cursor | Fetch.cpp | `begin_index`, `end_index`, the buffer | `make_chunk rewind` |
| input index | Index.cpp | offsets of the records | constructor, `getpos` |
| server connections | Comm_S.cpp, networks.c | `tabclients`, `nthclients`, `connected_clients`, the epoll set, the batch of events, `signal_flag`, the last message read | `wait send receive pong info add_client remove_client` |
| client connection | Comm_C.cpp | the socket, the current chunk, `fail` | `receive run send ping info` |
| client loop | `client()`, paraload.cpp 411-462 | none | ask, run, send, until told to stop or failed too often |
| wire protocol | networks.c | what is in the two streams | `C_x`/`S_x` pairs for connect, auth, action, get, put, ping, info |
| log and output | paraload.cpp 229-239, Monitor.cpp 140-175 | two files opened for append | one append per result; read at start |
| sorting of the output | pld-reorder.pl | the two files | check the log, sort the output by it |
| configuration | Conf.cpp | the value of each field | read once |
| command to run | utils.c 118-178 | none | put the file names into the command |
| command line, MD5, launchers | Cline.cpp, md5.c, extract.pl, paracmd.pl | none after start | |

The class `Tool` (paraload.cpp 485-513, Makefile) is not in the repository.

How they interact. The server is one thread. `server()` sets the flag the next
answers will carry, calls `Comm_S::wait()`, and handles the one event it returns.
`wait()` takes events from `epoll`; a connection that is rejected does not leave
`wait()`, an idle period of `EPOLL_TIME_WAIT` does (`PLD_EPOLL_ELAPSED` is -1, so
`wait()` returns `PLD_CONT`) and sends the server round the head of its loop. A
client sends an action word (`PLD_GET`, `PLD_PUT`, `PLD_PING`, `PLD_INFO`), gets
the flag back, and the data of the action follows. A `PLD_GET` answered with
`PLD_SIG_STOP` is a disconnection on both sides. The clients never talk to each
other: they meet in the job table, the cursor and the files of the server.

What is hard. Clients come, compute for any time, fail, die and come back in any
order, and each of these moves the one cursor and the one table. A connection
outlives its process until the server reads the end of file. A write to a dead
client may succeed or fail. A descriptor that was closed is given to the next
connection while events wait in a batch. Nothing in the streams marks where a
message begins. What the server knows of a chunk is one entry per peer,
overwritten by the next chunk. Rounds start when the cursor is at the end or
nothing is left to hand out, on counters kept by hand. The server may be killed
at any time and rebuilds its table from the log.

What makes each part correct: the job table, that its counters are exact and an
entry covers every record in progress; the cursor, that nothing to be done is
behind it and no chunk is empty; the connections, that descriptor, table entry
and address name one client; the protocol, that both sides take the words the
other one wrote for what they are, and come to the end; the loop, that each
record has one holder, is written once, that the loop and the drain end, and end
with all results; the files, that they say of each result what the table says,
whenever the server is killed; what is read at start, that each field, offset and
file name is the one that was written.

## Modules

| module | what it is | code |
|---|---|---|
| `Monitor` | the job table: a Monitor is a record `states, count, addr`, a member function is an operator that returns the new one | Monitor.cpp |
| `Fetch` | the cursor: `begin, end`, `make_chunk`, `rewind` | Fetch.cpp |
| `Paraload` | the system: server, connections, client processes, files; its properties | paraload.cpp, Comm_S.cpp, Comm_C.cpp, networks.c |
| `JobLease` | abstract: records are leased to holders, completed or released | |
| `PeerSet` | abstract: a set of clients within a limit | |
| `ParaloadLease` | the mapping from `Paraload` to `JobLease` | |
| `ClientTable` | the table, the descriptors and the events behind the set of clients; implements `PeerSet` | Comm_S.cpp, networks.c 360-479, 707-764 |
| `Wire` | the exchanges word by word over two streams | networks.c 98-217, 661-1439 |
| `Chunking` | the five policies on the sizes of records, with machine integers | Fetch.cpp 47-166 |
| `LogFile` | what stands in the output and in the log, and how the server and pld-reorder.pl read it | Monitor.cpp 140-175, pld-reorder.pl |
| `RunLog` | the two files with the table, a result in three writes, with crashes and a full device | paraload.cpp 225-255 |
| `ParaloadFiles` | `Paraload` with the two files beside it: the chunks are those that the cursor makes | paraload.cpp 225-255 |
| `ResultStore` | abstract: chunks given out and the results stored so far, which grow by one whole chunk with its line | |
| `ConfFile`, `IndexFile`, `Command` | the configuration read line by line, the index of the input, the command with its two files | Conf.cpp, Index.cpp, utils.c |
| `Startup` | the three put together, as the server does before its loop | paraload.cpp 99-130 |
| `MCParaload`, `MCClientTable`, `MCRunLog`, `MCFiles`, `MCChunking`, `MCStartup` | values of the constants for TLC | |
| `SumProofs` | lemmas on least elements and on sums over intervals of integers | |
| `MonitorProofs` | lemmas on the operators of `Monitor` | |
| `ParaloadProofs` | lemmas on `Fetch`, the inductive invariant of `Paraload` and the two on top of it, for environments without some faults: one holder and the refinement; the cursor | |
| `ClientTableProofs`, `WireProofs`, `RunLogProofs`, `ChunkingProofs`, `StartupProofs` | inductive invariants and theorems of these components | |

How they compose. `Paraload` is the whole system with connections as a set,
messages as wholes, a record's weight as a number and the log as the last return
value of each record. Each of these is the abstraction of one of the detailed
modules, and a property says so: `PeerSpec` (`ClientTable` implements the set of
clients within its limit that `Paraload` has as `Open`), `ServerReturns` and `AcceptedIntact`
(an exchange is done or not done, as `S_put` and `S_get` of `Paraload` have it),
`MatchesReference` (each loop of `make_chunk` is the loop of `Fetch`),
`RestartAgrees` (`Monitor!restart` is what reading the log line by line does).

### Monitor and Fetch

`states` has N + 1 cells as in the constructor, the last one a sentinel that
stays TODO. The three loops that retag records and adjust counters are one
operator, `Retag`, over a set of cells; `tag_segment` keeps the bound checks that
make it do nothing. `rem_addr_idx` keeps the effect of `operator[]` on a peer
without entry: the segment (0,0). `restart` takes the last return value per
record; that this is what processing the log line by line leaves is checked by
`RestartAgrees`. Counters are integers: `CountersMatch` shows they never wrap.

In `Fetch`, `NPOS` is `(size_type)(-1)` and `ULess` the unsigned comparison, on
which the behaviour of `rewind` turns. The five loops of `make_chunk` differ only
in the weight of a record, so a chunk ends at the first record where the running
total `Work` reaches the limit.

### Paraload

| variable | code |
|---|---|
| `mon`, `fetch` | the objects of `server()` |
| `round`, `phase` | `current_round`; principal loop, drain loop or exited |
| `stop` | `signal_flag` is `PLD_SIG_STOP` |
| `conn` | no connection; connected but not accepted; in the epoll set and `tabclients` |
| `word` | the action word in the socket |
| `proc`, `seg`, `rt`, `fails` | the client: position in `client()`, `idx_begin`/`idx_end`, `rt_value`, `Comm_C::fail` |
| `log`, `oks` | per record, the return value on its last log line and the good results in the output |
| `starts`, `faults` | counters that bound the environment, no part of the code |

One action is one event handled to the end, with the head of the loop that runs
before the next `wait()` (`GoRound`). This is the code's own atomicity: the server
is one thread and clients share nothing with it but sockets. `Disconnect` is the
PLD_DEC case, reached by an error or end of file (`Hangup`) or by a PLD_GET
answered with stop (`HandleStop`). `HandleGet` makes a chunk and has the two
outcomes of `S_get`; `TakeChunk` is the client's half, with the outcomes of
`C_get`. `HandlePut` is `S_put` with what follows in the principal and in the
drain loop, which are the same code. After a PUT the chunk of the client is
dropped from `seg` and `rt`, whose values nothing reads again. `Start` connects
and sends the user id, `Finish` runs the command and sends PLD_PUT, `Die` is any
end of the process that the loop of `client()` does not choose: a signal, a full
disk, a lost machine. An address and port that come back are those of a new
process on the same peer, as soon as the server closed the old connection.
`Restart` starts the server on the same files with no connection.

### ClientTable

| variable | code |
|---|---|
| `backlog`, `fds`, `epoll` | the kernel: connections before `accept`, what each descriptor is connected to, the epoll set |
| `connected`, `tab` | `connected_clients` of networks.c; `tabclients` with `nthclients` as its length |
| `batch`, `sock_c`, `auth` | the events not yet taken, the descriptor `wait()` works on, and whether `S_auth` is reading from it |
| `seen` | the peer whose event was taken, and the address that `current_ip_int`/`current_port` hold |
| `proc`, `unread` | each peer's process and what stands in its socket |
| `early` | peers that died before they were accepted, for the bound and `RoomForAll` |

`Poll` is `epoll_wait`, which fills the batch in any order with at most
`EPOLL_MAX_EVENTS` of the ready descriptors. `Accept`, `Auth` and `Serve` are the
three things `S_wait_event` and `wait()` do with an event, `Auth` with its
outcomes `Admit`, `Reject` and `Forget` (PLD_DEC out of `S_auth`, which nothing
handles). `remove_client` is the loop of Comm_S.cpp with the last entry moved
into the hole; `Address` keeps the address of the event before when the search
finds nothing.

### Wire

A message is a sequence of fields, a field a sequence of words of four bytes;
`up` and `down` are what was written and not read, with the number of words that
have arrived. `read_sock` takes what is there and calls a piece an error,
`fread_sock` goes on (`Returns`, `Got`). Each reader takes fields one by one with
the width its code gives them (`C_getWidth`, `S_putWidth`, `C_infoWidth`), the
writers write them as their code does (`GetHeader`, `PutMessage`, `InfoMessage`),
so a width that differs between the two sides shows. MD5 is the length of the data with its first and last word, which tells the data
of the model from their damaged forms. After an error the server goes back to
`wait()` with the connection open and whatever is left in it, which it then takes
for an action word. A word that is one of PLD_CON, PLD_DEC and PLD_CONT, met only
then, has a case in the switch too: it changes the table of clients or the cursor,
not the streams, and that effect is left out.

### Chunking

`Weight`, `Root` and `Wrap` are the arithmetic of the policies: a signed total with
`2 * Half` values, the square root, cube root or x/log x of it truncated (`Least` is
the least total with a given root). `Init` covers the restart with any records
done, an unknown policy name leaves the member at any value, `Lose` is a client
that is gone with its chunk.

### RunLog

`PutOut`, `PutLog` and `Mark` are the three steps of a PLD_PUT: the output, the
line in the log, the table. `Crash` is possible between any two of them and in
the middle of the output; `OutFull` is a device that is full, after which the
stream stays failed and `tellp()` is -1. `RunLog` has no cursor: `Give` is a GET
with any chunk of records that are to be done, where `make_chunk` starts at
`end_index`, and `NewRound` may always start one, where the code looks at the
cursor and `rewind(0)` may be refused. So it has more behaviours than the code. What
never goes wrong in it never does in the code, whatever the policy and the cursor
do; what goes wrong in it may be out of reach there, and a disagreement is shown
in `ParaloadFiles` instead.

`LogFile` has the readers. `Reorder` and `Warnings` are pld-reorder.pl: hashes by
the begin index where the last line wins, the sorted output, and the check.
`InOrder` says of an output that it is the records of a set, each once, in the
order of the input.

`ResultStore` says what the two files are for: the results of some records, in
the order of the input, each once. Chunks are given out, apart from each other
and from what is stored (`Give`), and come back (`Drop`); a line of the log
stores the whole of one of them (`Commit`) or nothing (`Fail`), and no other step
changes the results. In `RunLog` the chunks given are the `seg` of the clients
and a step of the store is a `PutLog`, a `Give`, or anything that ends a chunk.

### ParaloadFiles

The variables of `Paraload` with the two files, `out` and `lines`, beside them: a
`HandlePut` whose result came whole appends the result and its line, nothing else
touches them. Which chunks are made, and when a round starts, is the code's, so a
behaviour of it is one the program can take.

### ConfFile, IndexFile, Command and Startup

`ConfFile` reads a line per step; `field_value` outlives the line, keys are
compared with the names by prefix in the order of the chain of `else if`.
`IndexFile` is the `getline`/`tellg` loop with `tellg` -1 once the end of the file
was met. `Command` is the pointer arithmetic of `format_cmd`. `Startup` chains
them: the sentinel of the configuration goes to the index, `PRGM` to the
clients. `Sensible` is assumed of the command: it does not begin with
`#chunkout#` without a `#chunkin#`, that is, it begins with a program.

### JobLease

A record is free, leased or complete. `Lease(h)` gives free records to a peer that
holds none, `Complete(h)` and `Release(h)` end the lease of everything it holds,
`ReleaseAll` is a restart. The mapping takes INPROGRESS for leased, DONE for
complete, and the peer whose `current_addr_idx` entry covers a record for its
holder. It holds when no command fails and no transfer is corrupted; the
findings below say why it does not without these two assumptions.

## Runs

Peers are model values. No run checks deadlock: the system really stops, when the
server has exited, when a file is read, or when after the last bound on faults
and starts nobody asks for work.

| run | instance | shows | states |
|---|---|---|---|
| `lease` | 4 records weighing 2,1,3,2, chunks of weight 3; 3 peers, room for 2; 2 deaths, 1 failed send, 1 restart | `OneHolder`, `AtMostOnceWritten`, `ExitMeansDone`, `DoneStays`, `LeaseSpec` | 75,658 |
| `faults` | 3 records, chunks of 2; 2 peers that give up after 2 failures; any command may fail, 2 rounds; 1 death, 1 failed send, 1 corrupted transfer, 1 restart | `TypeOK`, `CountersMatch`, `NoOrphan`, `EntryIsClientsSegment`, `DoneIsLogged` | 428,477 |
| `retry` | 3 records, chunks of 1; record 1 may fail, 1 death; clients keep coming | `NothingBehindCursor`, `MainLoopEnds` | 6,070 |
| `drain` | one peer is a probe, 3 processes, all faults but restart | `DrainTerminates` | 7,412 |
| `table` | 3 peers, one sometimes with another user id, for 2 places and 1 spare descriptor; batches of 3; 1 death before accept, any number after | `TypeOK`, `SlotsAgree`, `AddressIsPeers`, `EventsFresh`, `RoomForAll`, `PeerSpec`, `Answered` | 217,045 |
| `wire` | 2 chunks asked for; 1 delivery in two pieces, 1 damaged word, 1 death | `ActionsAreWords`, `InStep`, `AcceptedIntact`, `Answered`, `ServerReturns` | 405,621 |
| `policies` | 3 records of 1, 3 or 8 bytes, limits 1, 2, 4, five policies, 8-bit totals, 1 lost chunk | `TypeOK`, `MatchesReference`, `NeverEmpty`, `AllHandedOut` | 18,441 |
| `logs` | 3 records, 2 clients, chunks of at most 2; 1 failure, 1 client that leaves, 1 crash, 1 full device | `TypeOK`, `DoneIsSorted`, `QuietCheckIsRight`, `StoreSpec`, `RestartKeepsDone`, `RestartAgrees` | 392,268 |
| `startup` | every configuration of 3 lines, every input of 3 lines for 3 sentinels, every command of 5 pieces | `OwnValueIfWellFormed`, `EndedOffsetsRight`, `FilesInPlace`, `FillsItsBuffer` | 86,781 |

`lost_send`, `first_fails` and `log_stale` each violate one property, see
Findings.

Why the bounds are enough.

- `Paraload`: two peers are all a conflict over a record or an entry needs; the
  third in `lease` finds the server full and takes over the work of one that
  died. Three records give a chunk in progress, one done or failed and one behind
  or before the cursor; four in `lease` let chunks of different length meet after
  a rewind. Two rounds include the last one, which behaves differently.
- `table`: three peers for two places give a full server, a rejected peer, and a
  descriptor closed and given again while two other events wait in the batch. A
  batch is as long as the server has descriptors: `Poll` takes any of those that
  are ready, and with a shorter batch it might leave one out for ever, which the
  kernel, whose ready list is a queue, does not do.
- `wire`: the second chunk is what follows a PUT, when the two sides may be out
  of step. A result is a failed one without data or a good one with two words, so
  that a piece of the data may be taken for something else.
- `policies`: with 8 bits the square of 8 overflows with the second record and its
  cube alone; limit 4 is above what the root of a small chunk reaches.
- `logs`: a chunk of two records next to one of one gives two chunks of the same
  records that begin at different places, on which the result of pld-reorder.pl
  turns.
- `startup`: three lines let a value come from the line before, be set twice and
  be commented out; five pieces have both words twice or either missing.

One bound leaves a case out: `logs` has one failure, and it takes two for a record
that is done to be given out again and fail. There the line of the failure is in
the log before the table has it, and a server killed in between restarts with
fewer done records than the killed one had; `RestartKeepsDone` excepts these
(`Failing`). `logs` with `N = 2`, `MaxFails = 2` (191,811 states) holds with the
exception and fails without it, and the theorem `RestartKeepsAllDone` has no bound. That
such a record is given out again at all, with the cursor of the code, is seen in
`ParaloadFiles`: `log_stale` with the property `DoneStays`, which fails.

Every bound is a CONSTANT: deaths, failed sends, corrupted transfers and restarts
(`MaxDeaths`, `MaxLost`, `MaxCorrupt`, `MaxRestarts`), processes (`MaxStarts`, -1
for no bound), peers that die before accept (`MaxEarly`), deliveries in two pieces
and damaged words (`MaxSplits`, `MaxBad`), chunks asked for (`MaxGets`), failures,
leaves, crashes and full devices (`MaxFails`, `MaxLeaves`, `MaxCrashes`,
`MaxFull`), the size of a chunk in `RunLog` (`MaxChunk`); `oks` counts up to 2 and
`fails` only up to the limit of `--fails`. Symmetry over the peers is used in
`faults`, `logs` and `log_stale` only, where all peers are alike and no property is about
liveness.

Fairness.

- `Paraload`: each peer's events are handled in the end (`WF` of `ServerStep(c)`):
  epoll is level triggered and the kernel returns ready sockets in turn, and
  keepalive turns a silent machine into an error. A client process goes on (`WF`
  of `ClientStep(c)`): commands are assumed to end. The idle timeout of epoll and
  the exit of the drain loop are weakly fair. `Start` is fair only in `BusySpec`:
  the code does not start clients, `run.sh` or a user does, and without anybody
  who does the server waits for ever.
- `ClientTable`: the server goes on (`WF` of `ServerStep`), and a peer that has
  connected sends its user id (`WF` of `SendUid(p)`), as `C_auth` does. Without
  the second `S_auth`, which reads with no timeout, stops the server for all
  clients; the code has nothing against that.
- `Wire`: both sides go on and what was written arrives in the end.
- `Chunking`: clients keep asking.

## Findings

Each is a run that violates one property, stated from the comments of the code.

- `lost_send` (`AskGetsWork`): after a failed send the server calls
  `rewind(Index_begin())`, which never moves the cursor, since `rewind` wants an
  offset strictly before `begin_index`. The records stay behind the cursor and
  the next client gets an empty chunk.
- `first_fails` (`MainLoopEnds`): `rewind(0)` is refused when the last chunk
  starts at 0, so a failed first record may never be given out again and the
  loop serves empty chunks without end.
- `log_stale` (`SortedOnce`): a failed result leaves the entry of its client in
  `current_addr_idx`. When another client has done these records in a later round
  and the first one goes, they are TODO again and are computed a second time. It
  takes more for them to be in the sorted output twice: in the same chunk, the
  second line would replace the first. The run, 4 records in chunks of two, 2
  clients and 3 rounds, finds how: giving back record 0 leaves `begin_index` at
  `(size_type)(-1)`; the other client dies with the chunk <2,4>, `rewind(1)` is
  taken for a move back, and the next chunk is <1,3>. The good lines of <0,2> and
  <1,3> have two begin indexes, and record 1 is written for both.

Other disagreements that were met, and how to see them with the modules as they
are; they explain conditions in the properties.

| what | where | how |
|---|---|---|
| a lost segment that starts at record 0 leaves `begin_index` at `(size_type)(-1)`; the next disconnection moves the cursor forward, past record 0 | Fetch.cpp:195 | `lost_send` with `N = 3`, `MaxDeaths = 2`, `MaxLost = 0` |
| a record that is done is taken back: the stale entry of a failure gives it out again, and that client's failure makes it FAIL, first in the log, then in the table | paraload.cpp:238, 250 | `log_stale` with `DoneStays` for the entry; `logs` with `N = 2`, `MaxFails = 2` and `RestartKeepsDone` without `Failing` for the moment between log and table |
| a failed record may be given out again in the same round, after its client has left: the comment at paraload.cpp:146 says the next round | Monitor.cpp:134 | `HandlePut` leaves the entry of a failed result, `Disconnect` gives its records back |
| a result with a wrong MD5 changes nothing, the client asks for the next chunk, its entry is overwritten and the records of the first stay in progress for ever | Monitor.cpp:104 | `retry` with `MaxCorrupt = 1`, `FailingJobs <- NoFailure`: `MainLoopEnds` fails; the condition of `NoOrphan` |
| after the last round failed records are tagged TODO before the loop test: the report counts them as remaining, and one event is served in a round too many | paraload.cpp:167, 383 | read from `LoopHead` |
| with `POLICY_LIMIT` 0 or not a number every chunk is empty | Fetch.cpp:66 | `policies` with `Limits <- ZeroLimit`: `AllHandedOut` fails |
| a `POLICY` that is not known leaves the member uninitialised | Fetch.cpp:64 | `policies` with `Policies <- Misspelled` |
| on a full device the server counts and logs results that are not in the output | paraload.cpp:230 | `logs` with `Apart` without its second conjunct: `DoneIsSorted` fails |
| a log line cut by a crash is read with `rt_value` of the line before | Monitor.cpp:160 | not in the model, see below |
| pld-reorder.pl warns of a "Missing segment" where a chunk was done again in other pieces, though the output is right | pld-reorder.pl:54, 74 | `Warnings` is not empty in `RunLog` though `DoneIsSorted` holds |
| `S_auth` that fails on a peer that is gone leaves the descriptor open | networks.c:723 | `table` with `MaxEarly = 2` and `RoomForAll` without `early <= Spare` |
| a last line that begins a record and has no newline gets a wrong offset, as `tellg()` is -1 | Index.cpp:64 | `startup` with `OffsetsRight` |
| a line of the configuration without `=` takes the value of the line before | Conf.cpp:57 | `startup` with `OwnValue` |
| a field that `read()` returns in two pieces is an error, and its rest is taken for an action word | networks.c:147 | `wire` with `Whole == TRUE`; `AcceptedIntact` holds all the same |

## Proofs

The theorems are for every number of records and peers, every weight and limit,
every configuration and command, and every bound on the faults, under the
conditions of the third column. "No failing command" is `FailingJobs = {}`: a
command never ends with a return value other than 0.

| theorem | states | when |
|---|---|---|
| `ParaloadProofs`: `Invariance` | `Spec => []IInv` | |
| `TypeCorrect` | `Spec => []TypeOK` | |
| `CountersCorrect` | `Spec => []CountersMatch` | |
| `EntryCorrect` | `Spec => []EntryIsClientsSegment` | |
| `DoneLogged` | `Spec => []DoneIsLogged` | |
| `NothingOrphaned` | `Spec => []NoOrphan` | |
| `OneHolderAlways` | `Spec => []OneHolder` | no failing command |
| `WrittenOnce` | `Spec => []AtMostOnceWritten` | no failing command |
| `ExitsWithAllDone` | `Spec => []ExitMeansDone` | no failing command |
| `DoneIsFinal` | `Spec => DoneStays` | no failing command |
| `ImplementsJobLease` | `Spec => LeaseSpec` | no failing command, no corrupted transfer |
| `NothingLeftBehind` | `Spec => []NothingBehindCursor` | no failing command, no corrupted transfer, no failed send, at most one death |
| `AskerGetsWork` | `Spec => AskGetsWork` | the same, and a positive limit |
| `ClientTableProofs`: `Invariance`, `TypeCorrect` | `Spec => []IInv`, `Spec => []TypeOK` | |
| `SlotsAlwaysAgree` | `Spec => []SlotsAgree` | |
| `EventsStayFresh` | `Spec => []EventsFresh` | |
| `AddressIsAlwaysPeers` | `Spec => []AddressIsPeers` | |
| `RoomForAllAlways` | `Spec => []RoomForAll` | |
| `ServesPeerSet` | `Spec => PeerSpec` | |
| `WireProofs`: `WireIsInStep` | `Spec => []WireInv` | |
| `WordsAreActions` | `Spec => []ActionsAreWords` | |
| `CommandsStartInStep` | `Spec => []InStep` | |
| `WholeResultsIntact` | `Spec => [](Whole => AcceptedIntact)` | |
| `RunLogProofs`: `Invariance`, `TypeCorrect` | `Spec => []IInv`, `Spec => []TypeOK` | |
| `RestartKeepsAllDone` | `Spec => []RestartKeepsDone` | |
| `RestartReadsLastLines` | `Spec => RestartAgrees` | |
| `OffsetsNameResults` | `Spec => []LinesNameResults` | |
| `AllInvariance` | `Spec => []AllInv` | |
| `SortedIsDone` | `Spec => []DoneIsSorted` | |
| `QuietIsRight` | `Spec => []QuietCheckIsRight` | |
| `ImplementsStore` | `Spec => StoreSpec` | |
| `ChunkingProofs`: `TypeCorrect` | `Spec => []TypeOK` | |
| `NeverEmptyHanded` | `Spec => NeverEmpty` | |
| `PoliciesAgree` | `Spec => MatchesReference` | limits up to 6 |
| `StartupProofs`: `FieldsKeepTheirOwn` | `Spec => []OwnValueIfWellFormed` | |
| `CommandNamesItsFiles` | `Spec => []FilesInPlace` | |
| `CommandFits` | `Spec => []FillsItsBuffer` | |
| `OffsetsOfRecords` | `Spec => []EndedOffsetsRight` | |

Some of these properties have a condition of their own, which stands in their
definition: `Whole` in `ActionsAreWords` and `InStep`, as long as every delivery came
in one piece; `Apart` in `DoneIsSorted` and `StoreSpec`, as long as no command failed
or no client left, and the device was never full, of which `QuietCheckIsRight` has
only the last; `Exact` in `MatchesReference`, as long as no total overflows.

Each inductive invariant was found true by TLC before it was proved, in every
state of a run of its module.

### Paraload

`IInv` is `TypeOK`, `MonitorOK(mon)`, `PeerInv` and `DoneIsLogged`. `MonitorOK`
says that the counters match, that entries are segments of the input and that the
sentinel stays TODO; each operator of `Monitor` keeps it (lemmas `RetagKeeps`,
`TagSegmentKeeps`, `ChgStateKeeps`, `RestartKeeps` ... of `MonitorProofs`), which
reduces to counting the records that leave and enter each state. `PeerInv` relates
each peer's process, connection, word and chunk to the entry the server has for
it. It is needed because `HandlePut` marks done the server's entry and logs the
client's segment: `DoneIsLogged` is inductive only if the two are equal.
`NothingOrphaned` adds that, while no transfer was corrupted, a client never asks
for a chunk while its entry still covers records in progress. A corrupted PUT is
exactly the step that breaks this, so `NoOrphan` has that condition, and the proof
shows that no step takes a corruption back.

### One holder

`LInv` adds to `IInv` that no command has failed (`NoFail`: no record is FAIL, no
result under way and no line of the log a failed one), `OneHolder`,
`WrittenIsDone` (a record has at most one good result, then its last line is good,
and then it is done) and `ExitMeansDone`. Without a failure an
entry covers records in progress only, and `OneHolder` keeps the entries of two
peers apart: that is why the records a disconnection gives back, or a result
completes, belong to nobody else. `make_chunk` gives out records that are TODO,
so the new entry meets none of the old ones. `WrittenIsDone` needs `OneHolder`,
as a record that is completed must not have been completed already. A failure
breaks all of it, by the entry it leaves behind (`log_stale`); a lost or corrupted
transfer, a death and a restart do not.

For `ImplementsJobLease` every step of the server is mapped: `HandleGet` to
`Lease` of the records of the chunk, or, when its send fails, to the same; a good
`HandlePut` to `Complete`, `Disconnect` to `Release` of what the peer held,
`Restart` to `ReleaseAll`, everything else, and each of these when the chunk is
empty, to a step that changes nothing. A corrupted PUT leaves the peer its lease
and lets it ask for another one, which `Lease` does not allow: so that theorem
alone has the condition on corrupted transfers.

### The cursor

`NothingBehindCursor` is not inductive: a disconnection gives records back and
rewinds to the one before the first of them, which moves the cursor only if that
is before `begin_index`. `CInv` adds why that is enough
(`CursorInv`): a record in progress between `begin_index` and `end_index` belongs
to a peer that was given exactly this chunk, so a segment that is given back and
is behind the cursor starts at `begin_index` or before it. `PeerQuiet` says that
a living client with an entry has the chunk, `OneDeath` that only the client that
died leaves an entry or a word behind, and that `begin_index` is
`(size_type)(-1)` only after it was disconnected.

At most one death is needed. When the lost segment starts at record 0, `begin_index` is
`(size_type)(-1)` until the next chunk; a second client lost in this time moves
the cursor forward, past record 0, as the table of disagreements says. With two
deaths TLC finds the property false, so the condition is the code's. `AskerGetsWork`
shows that what `lost_send` refutes is true where nothing is lost but one client.

### The connection layer

`IInv` adds four things to the properties. `PeersApart`: a peer waits for accept
once or has one descriptor. `TableInv` with `Paired`: the entries of the table and
the descriptors of the epoll set are one to one, and the counter is their number;
`AddPairs` and `RemovePairs` show that `add_client` and the swap of
`remove_client` keep that, the last entry being the one that goes or not.
`OneEvent`: the batch has one event for a descriptor, so closing one for its event
touches no other event, and a descriptor given by `accept` is in none, as it was
not ready; that is what makes `EventsFresh` inductive though descriptors are used
again. `LostInv`: a descriptor out of the epoll set belongs to a dead peer that is
not served, and there are at most `early` of these; `RoomForAll` is then a count
of an injection from descriptors to lost peers.

### The exchanges

`WireInv` says that while `Whole` holds the two sides are in step: at each place of
the client (`Exchange`) it says where the server can be, and that the streams hold
the rest of the one message that one side has begun to write and the other to
read, and nothing else. `Putting` is such a rest of a result, counted in the words
that `S_put` has taken of those that `C_put` has written; `Getting` the rest of a
chunk. The positions matter because the last field of a result may have no words:
then the server is back in `wait()` while the client is still in `C_put`, and the
client's next action word may stand in the stream behind a result that the server
has not read to its end. `Gone` is what a client that died leaves, of which the
server still takes whole fields or none. Without `Exchange` none of the three
properties is inductive, as what a word is taken for depends on all that was read
before it.

`WholeResultsIntact` also needs that the words of the data are those put or their
damaged form (`DataWord`) and that the two indexes and the return value cannot be
damaged on the way, so a result whose checksum is right is the one the client put.
With deliveries in two pieces the server may start in the middle of a message;
that it still accepts nothing else depends on the values of the words, and there
`AcceptedIntact` stays with the run `wire`.

### The files

`RunLogProofs` carries the reading of the log along the behaviour: `Readable` says
that the recursive function that reads it exists for the log as it is, and what
table it ends with, and one more line keeps that (the function for the longer log
is the old one with one value more). `EntryInv` is the entry of a
peer that has a chunk, which is the segment of its log line; `LineIsLast` says
that between the log and the table the line is the last one of each of its
records; `DoneInLog` that a record done, but for `Failing`, has return value 0 on
its last line. From these `RestartKeepsAllDone` is immediate, and
`RestartReadsLastLines` compares the table read with that of `Monitor!restart`:
two tables that satisfy `MonitorOK`, have no entry and agree on the states are
equal. `OutInv` of `OffsetsNameResults` says of each line, while the device was
never full, that its two offsets delimit the whole result of its records in the
output, wherever a crash has cut the output before or after.

The sorted output needs more (`AllInv`). `ChunkInv`: no chunk and no line is empty.
`ApartInv`, under the condition of `DoneIsSorted`, is five facts that hold only
together: what a client computes is in progress and no other client computes it
(`Held`), so no line after a good one names any of its records (`GoodIsLast`),
because these are done in the table (`GoodIsDone`), with the one exception of the
line that the table has not been marked with yet (`LineIsCur`); and while nothing
failed an entry is that of a chunk a client has (`EntryIsHeld`), so a disconnection
takes nothing back that is done. The stale entry of `log_stale` breaks
`EntryIsHeld` first and the others after it. Then the good lines cut the done
records into pieces that do not meet, each is the last line with its begin index,
and sorted by it their results follow each other in the order of the input.

The sort itself is a flattening of the pieces, a recursive function that the
lemmas first show to exist for every length (`FlatteningExists`) and then to be in
order. For `QuietIsRight` the argument is the other way round: nothing is known of
the lines, but that `Warnings` is empty, which makes each sorted piece begin where
the one before it ended. `ImplementsStore` takes the sorted output for the
good lines (`GoodIsSorted`) before and after each step. A step that leaves the log
alone leaves the good lines, and gives nothing out but in `Give` (`DropStep`,
`GiveStep`): by `GoodIsDone` and `Held` the records that are to be done are in no
good line and in no client's chunk. The line of `PutLog` (`LineStep`) is about the
chunk of a client that still has it, and by `GoodIsLast` no good line before it
names a record of that chunk; it stores the chunk, or nothing when it is a failure.

### Sums and functions over data

A statement for every length is proved without an induction rule that takes an
operator: among the lengths for which it fails there is a least one
(`MinIsLeast`, from the well-foundedness of the library), it is not the first, and
what holds of the length before it contradicts the failure. `SumProofs` does this
once for sums over intervals, the other modules cite `SumIs`, `SumNext`, `SumSplit`
and `SumChanged`. A recursive function over a sequence is shown to exist in the
same way, by extending that of a shorter sequence by one value.

### What is read at start

`FieldsKeepTheirOwn` rests on `FirstIsLongest`: the first name in the chain of
`else if` that begins a key is the longest one, since the only two names of which
one begins the other are POLICY and POLICY_LIMIT, in the right order; with it the
lines that set a field grow by one line or none (`SettingGrows`).
`CommandNamesItsFiles` is `SpliceReplaces`, for the four cases of words there or
not and their two orders; it needs that the command is `Sensible`, which is
carried from the file to the client, and that nothing is handed over after a
command was formatted. `CommandFits` is about the same four cases: the length of
the command written is that of PRGM, changed by what each of the two pieces that
were replaced is longer or shorter (`ReplacedFits`), which is how `format_cmd`
computes the buffer before it writes.

`OffsetsOfRecords` rests on `IndexOK`: `tellg` is the start of the next line, and the
index is the offsets found so far, in order. Before the first line the index is
empty and says nothing of the sentinel, which the configuration may still change.
The condition of the property, a last line that is ended or begins no record, is
needed where `tellg` is -1.

### The policies

`NeverEmptyHanded` needs no sum but the empty one: a total of nothing has the root 0,
under each policy, so the first record is taken whatever its weight does to the
integers. `PoliciesAgree` is about all the others. Totals of one chunk are
differences of running totals (`TotalSplit`); below the overflow `Wrap` changes
nothing (`WrapSame`); and the truncated root of a total reaches the limit exactly
when the total reaches the least total with that root (`RootIs`). So the five loops
of `make_chunk` and the one of `Fetch` stop at the same record. `Least` is a table
for limits up to 6, which is the condition of the theorem.

### Assumptions and limits

The assumptions on constants are the named `ASSUME`s of the modules; N may be 0,
the limit may be 0, `MaxClients` may be 0; there must be a spare descriptor.
`WordAssumption` and `InputsType` give the words of keys and values a type, and
`InputsAssumption` is the condition on `PRGM`: its lines have their `=` and a
`Sensible` command.

Only model-checked:

- the liveness properties `MainLoopEnds`, `DrainTerminates`, `Answered` (twice),
  `ServerReturns` and `AllHandedOut`: fairness and ENABLED are out of the prover's
  reach;
- `AcceptedIntact` of `Wire` where a delivery comes in two pieces, see above;
- `OneHolder`, `AtMostOnceWritten`, `ExitMeansDone` and `DoneStays` when a command
  may fail, where they do not hold as they are, and `NothingBehindCursor` with a
  failing command (run `retry`).

## What is not modelled

- The options of the command line (Cline.cpp) and `main`'s choice between server
  and client: one pass over `argv`, nothing after it.
- MD5 (md5.c), third-party code: the models have the outcome of the comparison.
- The launchers extract.pl and paracmd.pl, run.sh and the sample command: no state
  shared with the server.
- In utils.c the times of a command and the names of temporary files: the times
  are written to the log and read by nobody, the names are taken for distinct.
- The report of `--bg` and the wording of messages.
- Log lines cut in the middle by a crash: a line is short and written whole. When
  lines may be cut, `DoneIsSorted` and `RestartKeepsDone` do not hold.
- The bytes of a result: `out <<` a C string stops at a NUL byte, which no module
  has.
- Socket options, keepalive and the rejection under a stop signal, which are
  system calls.
- The class `Tool`, which is not in the repository.

## Plan

Done: `Monitor`, `Fetch`, `Paraload`, `JobLease`, `ParaloadLease`; `Chunking`;
`LogFile`, `RunLog`, `ResultStore` and `ParaloadFiles`; `ClientTable` and `PeerSet`; `Wire`; `ConfFile`,
`IndexFile`, `Command`, `Startup`; the theorems above.

Open:

1. `NothingBehindCursor` with a failing command: a new round rewinds to 0, but for
   the case of `first_fails`, so the invariant has to follow the rounds.
2. `AcceptedIntact` with deliveries in two pieces: which words of a message that is
   read from its middle can pass for indexes, return value and checksum.
3. A table of least totals for any limit in `Chunking`.
4. Log lines cut by a crash, and the bytes of a result.
