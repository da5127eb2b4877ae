------------------------------ MODULE Chunking ------------------------------
(* The five policies of Fetch::make_chunk on the sizes of the records, with  *)
(* the width of their arithmetic.  Fetch has one loop and a running total    *)
(* that never overflows; here the weight of a chunk is a signed machine      *)
(* integer, and the limit of SQUARE, CUBIC and NLOGN is compared with a      *)
(* truncated root of it.  Chunks are made one after the other, and the       *)
(* clients that have them may be lost.                                       *)
EXTENDS Monitor, FiniteSetsExt

CONSTANTS
    Policies,   \* the values POLICY may have in the configuration
    Limits,     \* the values strtoul may return for POLICY_LIMIT
    Sizes,      \* the sizes records may have
    Half,       \* half the number of values a streamoff has
    MaxLost     \* bound on the chunks that are lost

ASSUME SizesAssumption  == Sizes \subseteq Nat \ {0} /\ Limits \subseteq Nat
ASSUME HalfAssumption   == Half \in Nat \ {0}
ASSUME LostAssumption   == MaxLost \in Nat

VARIABLES
    policy,     \* the member of that name
    limit,      \* policy_limit
    size,       \* per record: its size in bytes
    mon,        \* the Monitor
    fetch,      \* begin_index and end_index
    given,      \* the chunks clients have
    lost        \* chunks lost so far

vars == <<policy, limit, size, mon, fetch, given, lost>>

\* The reference: the cursor on the running total Work of exact weights.
Ref(Work, Limit) == INSTANCE Fetch

Known == {"STATIC", "LINEAR", "SQUARE", "CUBIC", "NLOGN"}

TypeOK ==
    /\ policy \in Known \cup {"garbage"}
    /\ limit \in Limits
    /\ size \in [Jobs -> Sizes]
    /\ mon \in MonitorType
    /\ fetch \in [begin : Cells \cup {-1}, end : Cells]
    /\ given \subseteq Segment
    /\ lost \in 0 .. MaxLost

-----------------------------------------------------------------------------
\* Two's complement.
Wrap(x) == ((x + Half) % (2 * Half)) - Half

\* (streampos)(log((double)s)): the powers of e that s reaches.
Ln(s) == Cardinality({t \in {3, 8, 21, 55, 149} : t <= s})

\* What a record of s bytes adds to the variable limit of make_chunk.
Weight(s) ==
    CASE policy = "STATIC" -> 1
      [] policy = "LINEAR" -> s
      [] policy = "SQUARE" -> s * s
      [] policy = "CUBIC"  -> s * s * s
      [] policy = "NLOGN"  -> s * Ln(s)
      [] OTHER             -> 0

\* The least total whose root is 1, 2, 3 ...: the squares, the cubes, and the
\* first integers where L / log(L / log(L)) reaches these values.
Least ==
    CASE policy = "SQUARE" -> [i \in 1 .. 6 |-> i * i]
      [] policy = "CUBIC"  -> [i \in 1 .. 6 |-> i * i * i]
      [] policy = "NLOGN"  -> <<2, 3, 4, 5, 7, 9>>
      [] OTHER             -> [i \in 1 .. 6 |-> i]

\* reciprocity_limit, or limit itself under STATIC and LINEAR, as far as it is
\* compared with a policy_limit of at most 6.  The root of a negative total is
\* negative or, for sqrt and log, a NaN whose conversion is.
Root(L) == IF L < 0 THEN -1 ELSE Cardinality({i \in 1 .. 6 : Least[i] <= L})

\* The exact weight of the records b .. e-1.
Total(b, e) == MapThenSumSet(LAMBDA i : Weight(size[i]), b .. (e - 1))

\* Variant of Full that tests the limit with the next record.
FullBefore(b, e) == Root(Wrap(Total(b, e) + Weight(size[e]))) >= limit

\* Variant of Full that sums without overflow but compares without the root.
FullNoRoot(b, e) == Wrap(Total(b, e)) >= limit

\* The policy takes no further record into the chunk b .. e-1.
Full(b, e) == Root(Wrap(Total(b, e))) >= limit

FirstTodo == Min({i \in fetch.end .. N : i = N \/ mon.states[i] = "TODO"})

\* Variant of ChunkEnd that relies on the sentinel cell to stop, which is TODO.
ChunkEndPast(b) ==
    IF policy \notin Known THEN b
    ELSE Min({e \in b .. (N + 1) : \/ e = N + 1
                                   \/ mon.states[e] # "TODO"
                                   \/ Full(b, e)})

\* No case of the switch is for a policy that is not known: the chunk is empty.
ChunkEnd(b) ==
    IF policy \notin Known THEN b
    ELSE Min({e \in b .. N : e = N \/ mon.states[e] # "TODO" \/ Full(b, e)})

-----------------------------------------------------------------------------
\* The name is compared with five prefixes; if none fits the member keeps what
\* the memory of the object held.
Init ==
    /\ \E name \in Policies : policy \in IF name \in Known THEN {name}
                                         ELSE Known \cup {"garbage"}
    /\ limit \in Limits
    /\ size \in [Jobs -> Sizes]
    /\ \E done \in SUBSET Jobs : mon = Retag(NewMonitor, done, "DONE")
    /\ fetch = [begin |-> 0, end |-> 0]
    /\ given = {}
    /\ lost = 0

\* A client asks: a chunk is made and handed out.
Make ==
    /\ In(mon, "TODO") # {}
    /\ LET b == FirstTodo
           e == ChunkEnd(b)
       IN  /\ fetch' = [begin |-> b, end |-> e]
           /\ mon' = tag_segment(mon, "INPROGRESS", b, e)
           /\ given' = IF b = e THEN given ELSE given \cup {<<b, e>>}
    /\ UNCHANGED <<policy, limit, size, lost>>

\* A client is lost with its chunk: it is to be done again.
Lose ==
    /\ lost < MaxLost
    /\ \E s \in given :
         /\ mon' = tag_segment(mon, "TODO", s[1], s[2])
         /\ fetch' = Ref(<<>>, 0)!rewind(fetch, s[1] - 1)
         /\ given' = given \ {s}
    /\ lost' = lost + 1
    /\ UNCHANGED <<policy, limit, size>>

Next == Make \/ Lose

\* Clients keep asking.
Spec == Init /\ [][Next]_vars /\ WF_vars(Make)

-----------------------------------------------------------------------------
\* Nothing overflows, even if one chunk takes the whole input.
Exact == Total(0, N) < Half

\* Below the overflow each loop of make_chunk is the one loop of Fetch, on the
\* running total of the weights and the least total whose root is the limit:
\* truncated roots and logarithms move no boundary.
MatchesReference ==
    [][Exact /\ limit > 0 /\ policy \in Known /\ Make =>
         LET Work == [i \in Cells |-> Total(0, i)]
         IN  fetch' = Ref(Work, Least[limit])!make_chunk(mon, fetch)]_vars

\* With a known policy and a limit, a client that asks while a record at or
\* after the cursor is to be done gets one, whatever overflows: the first
\* comparison of each loop is made before anything is added.
NeverEmpty ==
    [][limit > 0 /\ policy \in Known /\ Make /\ FirstTodo < N
         => fetch'.begin < fetch'.end]_vars

\* Every record is handed out ("try to do each job until all jobs are done",
\* paraload.cpp:144), a lost chunk again.
AllHandedOut == <>(In(mon, "TODO") = {})
=============================================================================
