-------------------------------- MODULE Wire --------------------------------
(* The exchanges of networks.c between the server and one connected client,  *)
(* word by word of four bytes.  An exchange is an action word, the flag of   *)
(* the server, and the fields of the action; nothing marks where a message   *)
(* starts, so both sides must take exactly the words the other one writes.   *)
(*                                                                           *)
(* TCP may deliver what one write() wrote in two pieces.  fread_sock, used   *)
(* for the command and the data, reads on; read_sock, used for all else,     *)
(* takes a piece for an error and leaves the rest in the socket.             *)
EXTENDS SequencesExt

CONSTANTS
    MaxSplits,  \* bound on the deliveries in two pieces
    MaxBad,     \* bound on the corrupted data words TCP lets through
    MaxDeaths,  \* bound on the deaths of the client
    MaxGets     \* bound on the chunks the client asks for

ASSUME BoundsAssumption == {MaxSplits, MaxBad, MaxDeaths, MaxGets} \subseteq Nat

VARIABLES
    up, down,   \* the two streams: words written and not read, how many arrived
    cpc,        \* where the client is
    result,     \* what it has to put: rt_value and the data
    cgot,       \* the fields it has read, or written, of the current message
    spc,        \* where the server is
    sgot,       \* the fields it has read of the current message
    taken,      \* as what the last word taken for an action was written
    stored,     \* the last result S_put returned with PLD_OK, and what was put
    gets,       \* chunks asked for
    faults      \* faults so far, by kind

stream == <<up, down>>
client == <<cpc, result, cgot, gets>>
server == <<spc, sgot, taken, stored>>
vars   == <<up, down, cpc, result, cgot, spc, sgot, taken, stored, gets, faults>>

PLD_SIG_OK   == 0
PLD_SIG_STOP == 15
PLD_GET      == 2
PLD_PUT      == 3
PLD_PING     == 7
PLD_INFO     == 8

Waiting == {"GET", "PUT", "PING", "INFO"}    \* for the flag of that action
\* A command that failed, with nothing to say, and a good one.
Result  == {[rt |-> 1, data |-> <<>>], [rt |-> 0, data |-> <<4, 5>>]}

-----------------------------------------------------------------------------
(* Messages: a message is a sequence of fields, a field a sequence of words. *)

\* A number of w words, low word first.
Number(x, w) == [i \in 1 .. w |-> IF i = 1 THEN x ELSE 0]

\* Different data, of two words at most here, have different checksums.
MD5(data) == <<Len(data), IF data = <<>> THEN 0 ELSE 8 * data[1] + Last(data)>>

Chunk == <<4, 5>>

\* What S_get writes before the chunk: the segment <<2, 3>>, two sizes, the
\* checksum, the command.
GetHeader == Number(2, 2) \o Number(3, 2) \o Number(1, 2) \o Number(Len(Chunk), 2)
             \o MD5(Chunk) \o <<9>>

\* What C_put writes: the segment, rt_value, the times, a size, the checksum,
\* the data.
PutMessage(r) == << Number(2, 2), Number(3, 2), Number(r.rt, 1), Number(9, 2),
                    Number(Len(r.data), 2), MD5(r.data), r.data >>

\* What S_info writes: four counters, the number of clients, their addresses.
InfoMessage == Number(1, 2) \o Number(0, 2) \o Number(0, 2) \o Number(0, 2)
               \o Number(1, 1) \o Number(9, 2)

\* The number in a field that was read; a high word makes it very large.
Value(f) == f[1] + IF Len(f) = 1 THEN 0 ELSE 1000 * f[2]

\* The words the readers take for the next field when they have got some.
C_getWidth(got) == IF Len(got) < 5 THEN 2
                   ELSE Value(got[IF Len(got) = 5 THEN 3 ELSE 4])

C_infoWidth(got) == IF Len(got) = 4 THEN 1 ELSE 2

\* Variant of S_putWidth that takes the size for an int.
S_putWidthInt(got) == CASE Len(got) \in {2, 4} -> 1
                        [] Len(got) = 6        -> Value(got[5])
                        [] OTHER               -> 2

\* Variant of S_putWidth that takes rt_value for an off_t.
S_putWidthLong(got) == IF Len(got) = 6 THEN Value(got[5]) ELSE 2

S_putWidth(got) == CASE Len(got) = 2 -> 1
                     [] Len(got) = 6 -> Value(got[5])
                     [] OTHER        -> 2

-----------------------------------------------------------------------------
(* Streams.                                                                  *)

\* Field f is written to stream s.
Written(s, f, kind) ==
    [q |-> s.q \o [i \in DOMAIN f |-> [kind |-> kind, v |-> f[i]]],
     n |-> IF s.n = Len(s.q) THEN s.n + Len(f) ELSE s.n]

\* A read of w words returns: there is something to read or the writer is gone.
\* fread_sock, for the command and the data, goes on until it has them all.
Returns(s, w, all, gone) ==
    \/ s.n >= IF all THEN w ELSE 1
    \/ gone /\ s.n = Len(s.q)

Got(s, w)  == [i \in 1 .. (IF w < s.n THEN w ELSE s.n) |-> s.q[i].v]
Rest(s, w) == LET k == Len(Got(s, w))
              IN  [q |-> SubSeq(s.q, k + 1, Len(s.q)), n |-> s.n - k]

Fault(kind, max) ==
    faults[kind] < max /\ faults' = [faults EXCEPT ![kind] = @ + 1]

\* The end of what was written is still on its way.
Delay ==
    /\ Fault("splits", MaxSplits)
    /\ \/ up.n = Len(up.q) /\ (\E k \in 0 .. (up.n - 1) : up' = [up EXCEPT !.n = k])
          /\ UNCHANGED down
       \/ down.n = Len(down.q) /\ (\E k \in 0 .. (down.n - 1) : down' = [down EXCEPT !.n = k])
          /\ UNCHANGED up
    /\ UNCHANGED <<client, server>>

\* Everything comes in the end.
Arrive ==
    /\ up' = [up EXCEPT !.n = Len(up.q)]
    /\ down' = [down EXCEPT !.n = Len(down.q)]
    /\ UNCHANGED <<client, server, faults>>

\* A word of the data or the chunk is another one when it arrives.
Damage ==
    /\ Fault("bad", MaxBad)
    /\ \/ (\E i \in DOMAIN up.q : up.q[i].kind = "data" /\ up' = [up EXCEPT !.q[i].v = 6])
          /\ UNCHANGED down
       \/ (\E i \in DOMAIN down.q : down.q[i].kind = "data" /\ down' = [down EXCEPT !.q[i].v = 6])
          /\ UNCHANGED up
    /\ UNCHANGED <<client, server>>

-----------------------------------------------------------------------------
ServerGone == spc = "closed"
ClientGone == cpc = "off"

Init ==
    /\ up = [q |-> <<>>, n |-> 0] /\ down = up
    /\ cpc \in {"idle", "probe"} /\ spc = "wait"
    /\ result = [rt |-> 1, data |-> <<>>]
    /\ cgot = <<>> /\ sgot = <<>>
    /\ gets = 0
    /\ taken = "action"
    /\ stored = [got |-> PutMessage(result), put |-> result]
    /\ faults = [k \in {"splits", "bad", "deaths"} |-> 0]

-----------------------------------------------------------------------------
(* The client.                                                               *)

\* The first half of C_action.
Ask(action, word) ==
    /\ cpc' = action
    /\ up' = Written(up, <<word>>, "action")
    /\ UNCHANGED <<down, cgot, server, faults>>

AskGet ==
    /\ cpc = "idle" /\ Ask("GET", PLD_GET) /\ UNCHANGED result
    /\ gets < MaxGets /\ gets' = gets + 1

AskProbe ==
    /\ cpc = "probe" /\ UNCHANGED <<result, gets>>
    /\ Ask("PING", PLD_PING) \/ Ask("INFO", PLD_INFO)

\* The command has run, with some result.
AskPut ==
    cpc = "run" /\ result' \in Result /\ Ask("PUT", PLD_PUT) /\ UNCHANGED gets

\* The other half.  Only Comm_C::receive looks at what C_action returns.
ReadFlag ==
    /\ cpc \in Waiting
    /\ Returns(down, 1, FALSE, ServerGone)
    /\ down' = Rest(down, 1)
    /\ cpc' = CASE cpc = "GET"  -> IF Got(down, 1) \in {<<>>, <<PLD_SIG_STOP>>}
                                   THEN "off" ELSE "get"
                [] cpc = "PUT"  -> "put"
                [] cpc = "PING" -> "ping"
                [] cpc = "INFO" -> "info"
    /\ UNCHANGED <<up, result, cgot, gets, server, faults>>

\* C_get reads a field; after the last one it compares the checksum, 15 of its
\* 16 bytes.  An error ends the process.
C_get ==
    /\ cpc = "get"
    /\ LET w   == C_getWidth(cgot)
           got == Append(cgot, Got(down, w))
           ok  == Len(Last(got)) = w
       IN  /\ Returns(down, w, Len(got) > 5, ServerGone)
           /\ down' = Rest(down, w)
           /\ cgot' = IF ok /\ Len(got) < 7 THEN got ELSE <<>>
           /\ cpc' = CASE ok /\ Len(got) < 7                          -> "get"
                       [] ok /\ Len(got) = 7 /\ got[5] = MD5(got[7]) -> "run"
                       [] OTHER                                       -> "off"
    /\ UNCHANGED <<up, result, gets, server, faults>>

\* C_put writes a field.  On a closed socket a signal ends the process.
C_put ==
    /\ cpc = "put"
    /\ LET i == Len(cgot) + 1
           f == PutMessage(result)[i]
       IN  /\ up' = Written(up, f, IF i = 7 THEN "data" ELSE "other")
           /\ cgot' = IF i = 7 THEN <<>> ELSE Append(cgot, f)
           /\ cpc' = IF ServerGone THEN "off" ELSE IF i = 7 THEN "idle" ELSE "put"
    /\ UNCHANGED <<down, result, gets, server, faults>>

\* C_ping writes a number and reads the next one.
C_ping ==
    /\ \/ /\ cpc = "ping" /\ cpc' = "pong"
          /\ up' = Written(up, <<9>>, "other")
          /\ UNCHANGED down
       \/ /\ cpc = "pong" /\ Returns(down, 1, FALSE, ServerGone)
          /\ cpc' = "off"
          /\ down' = Rest(down, 1)
          /\ UNCHANGED up
    /\ UNCHANGED <<result, cgot, gets, server, faults>>

\* C_info reads a field; the process ends after the last one or an error.
C_info ==
    /\ cpc = "info"
    /\ LET w   == C_infoWidth(cgot)
           got == Append(cgot, Got(down, w))
           on  == Len(Last(got)) = w /\ (Len(got) < 5 \/ Len(got) < 5 + got[5][1])
       IN  /\ Returns(down, w, FALSE, ServerGone)
           /\ down' = Rest(down, w)
           /\ cgot' = IF on THEN got ELSE <<>>
           /\ cpc' = IF on THEN "info" ELSE "off"
    /\ UNCHANGED <<up, result, gets, server, faults>>

\* The process is killed, anywhere in a message.
Die ==
    /\ ~ClientGone
    /\ Fault("deaths", MaxDeaths)
    /\ cpc' = "off" /\ cgot' = <<>>
    /\ UNCHANGED <<stream, result, gets, server>>

-----------------------------------------------------------------------------
(* The server.                                                               *)

\* The epoll error of a client that is gone, or a write to it that fails, hides
\* what it has written.
Hangup ==
    /\ spc = "wait" /\ ClientGone
    /\ spc' = "closed"
    /\ UNCHANGED <<stream, client, sgot, taken, stored, faults>>

\* What follows a word that S_action has read and answered: S_get and S_info are
\* done at once, S_put and S_pong have something to read.  Any other word has no
\* case in the switch of server(), or that of another event (PLD_CON, PLD_DEC,
\* PLD_CONT), met only out of step, which reads and writes nothing.
Dispatch(word, flag, s) ==
    CASE word = PLD_GET /\ flag = PLD_SIG_OK ->
           /\ spc' = "wait"
           /\ down' = Written(Written(s, GetHeader, "other"), Chunk, "data")
      [] word = PLD_GET /\ flag # PLD_SIG_OK -> spc' = "closed" /\ down' = s
      [] word = PLD_PUT  -> spc' = "put"  /\ down' = s
      [] word = PLD_PING -> spc' = "pong" /\ down' = s
      [] word = PLD_INFO -> spc' = "wait"
                            /\ down' = Written(s, InfoMessage, "other")
      [] OTHER           -> spc' = "wait" /\ down' = s

\* Variant of S_action that sends no flag to a client it does not stop.
S_actionMute ==
    /\ spc = "wait" /\ Returns(up, 1, FALSE, ClientGone)
    /\ up' = Rest(up, 1)
    /\ IF up.n = 0
       THEN spc' = "closed" /\ UNCHANGED <<down, taken>>
       ELSE /\ taken' = up.q[1].kind
            /\ \E flag \in {PLD_SIG_OK, PLD_SIG_STOP} :
                 Dispatch(up.q[1].v, flag,
                          IF flag = PLD_SIG_OK THEN down
                          ELSE Written(down, <<flag>>, "other"))
    /\ UNCHANGED <<client, sgot, stored, faults>>

\* The socket is ready: S_action reads one word, whatever it is, and answers
\* with the flag of the loop.  The end of the file closes the socket.
S_action ==
    /\ spc = "wait" /\ Returns(up, 1, FALSE, ClientGone)
    /\ up' = Rest(up, 1)
    /\ IF up.n = 0
       THEN spc' = "closed" /\ UNCHANGED <<down, taken>>
       ELSE /\ taken' = up.q[1].kind
            /\ \E flag \in {PLD_SIG_OK, PLD_SIG_STOP} :
                 Dispatch(up.q[1].v, flag, Written(down, <<flag>>, "other"))
    /\ UNCHANGED <<client, sgot, stored, faults>>

\* Variant of S_put that stores what it has read without a look at the checksum.
S_putBlind ==
    /\ spc = "put"
    /\ LET w   == S_putWidth(sgot)
           got == Append(sgot, Got(up, w))
           on  == Len(Last(got)) = w /\ Len(got) < 7
       IN  /\ Returns(up, w, Len(got) = 7, ClientGone)
           /\ up' = Rest(up, w)
           /\ sgot' = IF on THEN got ELSE <<>>
           /\ spc' = IF on THEN "put" ELSE "wait"
           /\ stored' = IF Len(got) = 7 THEN [got |-> got, put |-> result] ELSE stored
    /\ UNCHANGED <<down, client, taken, faults>>

\* S_put reads a field; after the last one it compares the checksum.  After an
\* error the server goes back to wait() with the connection as it is.
S_put ==
    /\ spc = "put"
    /\ LET w   == S_putWidth(sgot)
           got == Append(sgot, Got(up, w))
           ok  == Len(Last(got)) = w
           on  == ok /\ Len(got) < 7
       IN  /\ Returns(up, w, Len(got) = 7, ClientGone)
           /\ up' = Rest(up, w)
           /\ sgot' = IF on THEN got ELSE <<>>
           /\ spc' = IF on THEN "put" ELSE "wait"
           /\ stored' = IF ok /\ Len(got) = 7 /\ got[6] = MD5(got[7])
                        THEN [got |-> got, put |-> result] ELSE stored
    /\ UNCHANGED <<down, client, taken, faults>>

S_pong ==
    /\ spc = "pong" /\ Returns(up, 1, FALSE, ClientGone)
    /\ up' = Rest(up, 1)
    /\ down' = IF up.n = 0 THEN down ELSE Written(down, <<up.q[1].v + 1>>, "other")
    /\ spc' = "wait"
    /\ UNCHANGED <<client, sgot, taken, stored, faults>>

-----------------------------------------------------------------------------
ClientStep == \/ AskGet \/ AskProbe \/ AskPut \/ ReadFlag
              \/ C_get \/ C_put \/ C_ping \/ C_info
ServerStep == Hangup \/ S_action \/ S_put \/ S_pong

Next == ClientStep \/ ServerStep \/ Arrive \/ Delay \/ Damage \/ Die

\* Both sides go on and what was written arrives.
Spec == Init /\ [][Next]_vars /\ WF_vars(ClientStep) /\ WF_vars(ServerStep)
             /\ WF_vars(Arrive)

-----------------------------------------------------------------------------
(* After a field was found cut short the two sides are out of step and little *)
(* holds; what does is AcceptedIntact.                                        *)

\* No delivery has come in two pieces.
Whole == faults["splits"] = 0

\* The server takes for an action only what a client has sent as one ("the
\* server read the action asked by the client", networks.c:807).
ActionsAreWords == Whole => taken = "action"

\* When a command runs, all that was written has been read by the side it was
\* for: the next message starts where both sides think it does.
InStep == Whole /\ cpc = "run" /\ spc = "wait" => up.q = <<>> /\ down.q = <<>>

\* A result that S_put accepts is the one that C_put was given, field by field,
\* whatever was damaged, cut short or read out of step on the way.
AcceptedIntact == stored.got = PutMessage(stored.put)

\* A client that asks is answered: whatever exchange it is in, it comes to the
\* end of it, or its process ends.
Answered ==
    Whole /\ cpc \notin {"idle", "run", "probe", "off"}
        ~> cpc \in {"idle", "run", "off"} \/ ~Whole

\* The server, which reads with no timeout, goes back to all its other clients.
ServerReturns == Whole /\ spc \in {"put", "pong"} ~> spc = "wait" \/ ~Whole
=============================================================================
