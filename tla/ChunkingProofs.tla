-------------------------- MODULE ChunkingProofs --------------------------
(* The five policies, for any sizes of records, any limit and any width of   *)
(* the machine's integers: what the code compares before it adds anything.   *)
EXTENDS Chunking, MonitorProofs

IInv == TypeOK /\ MonitorOK(mon)

-----------------------------------------------------------------------------
(* The two searches.                                                         *)

\* The search for a record to be done stops at one, or at the sentinel.
LEMMA FirstTodoIs ==
  ASSUME TypeOK
  PROVE  /\ FirstTodo \in Cells
         /\ FirstTodo < N => mon.states[FirstTodo] = "TODO"
<1> DEFINE S == {i \in fetch.end .. N : i = N \/ mon.states[i] = "TODO"}
<1>1. fetch.end \in 0 .. N /\ N \in S /\ S \subseteq 0 .. N /\ 0 .. N \subseteq Nat
  BY NAssumption DEF TypeOK, Cells
<1>2. Min(S) \in S
  <2> HIDE DEF S
  <2> QED
    BY <1>1, MinIsLeast
<1>3. FirstTodo = Min(S)
  BY DEF FirstTodo
<1>4. Min(S) \in 0 .. N /\ (Min(S) = N \/ mon.states[Min(S)] = "TODO")
  BY <1>1, <1>2
<1> HIDE DEF S
<1> QED
  BY <1>3, <1>4, NAssumption DEF Cells

\* The loop of the policy stops at or after its first record, and at it only if
\* that one is not to be done or the empty chunk is full already.
LEMMA ChunkEndIs ==
  ASSUME NEW b \in Cells
  PROVE  /\ ChunkEnd(b) \in b .. N
         /\ policy \in Known /\ ChunkEnd(b) = b /\ b < N
              => mon.states[b] # "TODO" \/ Full(b, b)
<1> DEFINE S == {e \in b .. N : e = N \/ mon.states[e] # "TODO" \/ Full(b, e)}
<1>1. b \in 0 .. N /\ N \in S /\ S \subseteq b .. N /\ b .. N \subseteq Nat
  BY NAssumption DEF Cells
<1>2. Min(S) \in S
  <2> HIDE DEF S
  <2> QED
    BY <1>1, MinIsLeast
<1>3. ChunkEnd(b) = IF policy \notin Known THEN b ELSE Min(S)
  BY DEF ChunkEnd
<1>4. Min(S) \in b .. N
  BY <1>1, <1>2
<1>5. Min(S) = b /\ b < N => mon.states[b] # "TODO" \/ Full(b, b)
  <2>1. \A e \in S : e = N \/ mon.states[e] # "TODO" \/ Full(b, e)
    OBVIOUS
  <2> HIDE DEF S
  <2> SUFFICES ASSUME Min(S) = b, b < N PROVE mon.states[b] # "TODO" \/ Full(b, b)
    OBVIOUS
  <2>2. b \in S /\ b # N
    BY <1>1, <1>2
  <2> QED
    BY <2>1, <2>2
<1> HIDE DEF S
<1> QED
  BY <1>1, <1>3, <1>4, <1>5

-----------------------------------------------------------------------------
(* An empty chunk is not full.                                               *)

\* What each record weighs.
Weigh == [i \in Nat |-> Weight(size[i])]

\* A total is the sum of the weights, in any order.
LEMMA TotalIsSum ==
  ASSUME NEW b \in Nat, NEW e \in Int
  PROVE  Total(b, e) = Sum(Weigh, b .. (e - 1))
<1> DEFINE S == b .. (e - 1)
           w == Weigh
           g(i) == Weight(size[i])
           Iter(f) == [s \in SUBSET S |->
              IF s = {} THEN 0
              ELSE g(CHOOSE x \in s : TRUE) + f[s \ {CHOOSE x \in s : TRUE}]]
           c == CHOOSE f : f = Iter(f)
<1>1. Total(b, e) = c[S]
  BY DEF Total, MapThenSumSet, MapThenFoldSet
<1>2. \A x \in S : w[x] = g(x)
  BY DEF Weigh
<1>3. IsFiniteSet(S)
  BY FS_Interval
<1> HIDE DEF g, w, S
<1>4. ASSUME NEW f
      PROVE  f = Iter(f) <=> Adding(f, w, S)
  <2>1. ASSUME NEW s \in SUBSET S
        PROVE  Step(f, w, s) = IF s = {} THEN 0
                 ELSE g(CHOOSE x \in s : TRUE) + f[s \ {CHOOSE x \in s : TRUE}]
    <3>1. s # {} => Some(s) \in S
      BY SomeIn
    <3> QED
      BY <1>2, <3>1 DEF Step, Some
  <2>2. Iter(f) = [s \in SUBSET S |-> Step(f, w, s)]
    BY <2>1
  <2> HIDE DEF Iter
  <2> QED
    BY <2>2 DEF Adding
<1> HIDE DEF Iter
<1>5. c = Iter(c)
  <2>1. PICK f : Adding(f, w, S)
    BY <1>3, AddingExists
  <2>2. f = Iter(f)
    BY <1>4, <2>1
  <2> QED
    BY <2>2
<1>6. Adding(c, w, S)
  BY <1>4, <1>5
<1> HIDE DEF c
<1>7. c[S] = Sum(w, S)
  BY <1>3, <1>6, SumIs
<1> QED
  BY <1>1, <1>7 DEF w, S

\* Nothing weighs nothing.
LEMMA EmptySum ==
  ASSUME NEW b \in Nat
  PROVE  Total(b, b) = 0
<1>1. b .. (b - 1) = {}
  OBVIOUS
<1> QED
  BY <1>1, TotalIsSum, SumEmpty

\* A total of nothing has the root 0, below any limit there is.
LEMMA EmptyNotFull ==
  ASSUME TypeOK, limit > 0, NEW b \in Cells
  PROVE  ~Full(b, b)
<1>1. Total(b, b) = 0
  BY EmptySum, NAssumption DEF Cells
<1>2. Wrap(0) = 0
  <2>1. (0 + Half) % (2 * Half) = Half
    BY HalfAssumption
  <2> QED
    BY <2>1, HalfAssumption DEF Wrap
<1>3. \A i \in 1 .. 6 : ~(Least[i] <= 0)
  <2> SUFFICES ASSUME NEW i \in 1 .. 6 PROVE ~(Least[i] <= 0)
    OBVIOUS
  <2>1. i \in {1, 2, 3, 4, 5, 6}
    OBVIOUS
  <2>2. ~(i * i <= 0) /\ ~(i * i * i <= 0)
    BY <2>1
  <2>3. ~(<<2, 3, 4, 5, 7, 9>>[i] <= 0)
    BY <2>1
  <2>4. CASE policy = "SQUARE"
    BY <2>2, <2>4 DEF Least
  <2>5. CASE policy = "CUBIC"
    BY <2>2, <2>5 DEF Least
  <2>6. CASE policy = "NLOGN"
    BY <2>3, <2>6 DEF Least
  <2>7. CASE policy \notin {"SQUARE", "CUBIC", "NLOGN"}
    BY <2>1, <2>7 DEF Least
  <2> QED
    BY <2>4, <2>5, <2>6, <2>7
<1>4. Root(0) = 0
  <2>1. {i \in 1 .. 6 : Least[i] <= 0} = {}
    BY <1>3
  <2>2. ~(0 < 0)
    OBVIOUS
  <2> QED
    BY <2>1, <2>2, FS_EmptySet DEF Root
<1>5. limit \in Nat
  BY SizesAssumption DEF TypeOK
<1> QED
  BY <1>1, <1>2, <1>4, <1>5 DEF Full

-----------------------------------------------------------------------------
(* Below the overflow the wrapped total and its root are the reference.      *)

\* A record weighs a natural number, under every policy.
LEMMA WeightIs ==
  ASSUME TypeOK, NEW j \in Jobs
  PROVE  Weight(size[j]) \in Nat
<1>1. size[j] \in Nat
  BY SizesAssumption DEF TypeOK
<1>2. \A x, y \in Nat : x * y \in Nat
  OBVIOUS
<1>3. Ln(size[j]) \in Nat
  <2> DEFINE S == {t \in {3, 8, 21, 55, 149} : t <= size[j]}
  <2>1. IsFiniteSet(3 .. 149) /\ S \subseteq 3 .. 149
    <3> DEFINE a == 3
               b == 149
    <3>1. a \in Int /\ b \in Int /\ S \subseteq a .. b
      OBVIOUS
    <3> HIDE DEF a, b
    <3>2. IsFiniteSet(a .. b)
      BY <3>1, FS_Interval
    <3> QED
      BY <3>1, <3>2 DEF a, b
  <2> HIDE DEF S
  <2>2. Cardinality(S) \in Nat
    BY <2>1, FS_Subset, FS_CardinalityType
  <2> QED
    BY <2>2 DEF Ln, S
<1> DEFINE s == size[j]
<1>4. s * s \in Nat /\ s * s * s \in Nat /\ s * Ln(s) \in Nat /\ s \in Nat
  BY <1>1, <1>2, <1>3
<1> HIDE DEF s
<1>5. Weight(s) \in Nat
  BY <1>4 DEF Weight
<1> QED
  BY <1>5 DEF s

\* The total of two chunks, one after the other, is the sum of their totals.
LEMMA TotalSplit ==
  ASSUME TypeOK, NEW b \in Cells, NEW e \in Cells, b <= e
  PROVE  Total(b, e) \in Nat /\ Total(0, b) \in Nat /\ Total(0, e) = Total(0, b) + Total(b, e)
<1> DEFINE m == Weigh
<1>1. 0 \in Nat /\ b \in Nat /\ e \in Nat /\ 0 <= b /\ N \in Nat /\ e <= N
  BY NAssumption DEF Cells
<1>2. Total(b, e) = Sum(m, b .. (e - 1)) /\ Total(0, e) = Sum(m, 0 .. (e - 1))
      /\ Total(0, b) = Sum(m, 0 .. (b - 1))
  BY <1>1, TotalIsSum
<1>3. Counting(m, 0 .. (e - 1)) /\ Counting(m, 0 .. (b - 1))
  <2>1. \A x \in 0 .. (e - 1) : x \in Jobs /\ m[x] = Weight(size[x])
    BY <1>1 DEF Jobs, Weigh
  <2>2. \A x \in 0 .. (b - 1) : x \in 0 .. (e - 1)
    BY <1>1
  <2> HIDE DEF m
  <2> QED
    BY <2>1, <2>2, WeightIs DEF Counting
<1> HIDE DEF m
<1>4. /\ Sum(m, b .. (e - 1)) \in Nat
      /\ Sum(m, 0 .. (e - 1)) = Sum(m, 0 .. (b - 1)) + Sum(m, b .. (e - 1))
  BY <1>1, <1>3, SumSplit
<1>5. Sum(m, 0 .. (b - 1)) \in Nat
  <2>1. 0 <= 0 /\ 0 \in Int /\ b \in Int /\ 0 <= b
    BY <1>1
  <2> QED
    BY ONLY <1>3, <2>1, SumSplit
<1> QED
  BY <1>2, <1>4, <1>5

\* A total below the overflow is not changed by it.
LEMMA WrapSame ==
  ASSUME NEW x \in Nat, x < Half
  PROVE  Wrap(x) = x
<1>1. Half \in Nat /\ x + Half \in 0 .. (2 * Half - 1) /\ 2 * Half > 0
  BY HalfAssumption
<1>2. \A d \in Nat : \A y \in 0 .. (d - 1) : y % d = y
  OBVIOUS
<1>3. (x + Half) % (2 * Half) = x + Half
  BY <1>1, <1>2
<1> QED
  BY <1>1, <1>3 DEF Wrap

\* The least totals of the roots 1 .. 6 are ascending.
LEMMA LeastGrows ==
  /\ \A i \in 1 .. 6 : Least[i] \in Nat
  /\ \A i, j \in 1 .. 6 : i <= j => Least[i] <= Least[j]
<1> DEFINE Six(a, b, c, d, e, f) ==
              /\ Least[1] = a /\ Least[2] = b /\ Least[3] = c
              /\ Least[4] = d /\ Least[5] = e /\ Least[6] = f
<1>1. Six(1, 4, 9, 16, 25, 36) \/ Six(1, 8, 27, 64, 125, 216)
        \/ Six(2, 3, 4, 5, 7, 9) \/ Six(1, 2, 3, 4, 5, 6)
  <2>1. CASE policy = "SQUARE"
    BY <2>1 DEF Least
  <2>2. CASE policy = "CUBIC"
    BY <2>2 DEF Least
  <2>3. CASE policy = "NLOGN"
    BY <2>3 DEF Least
  <2>4. CASE policy \notin {"SQUARE", "CUBIC", "NLOGN"}
    BY <2>4 DEF Least
  <2> QED
    BY <2>1, <2>2, <2>3, <2>4
<1>2. \A i \in 1 .. 6 : i \in {1, 2, 3, 4, 5, 6}
  OBVIOUS
<1> QED
  BY <1>1, <1>2

\* A total has the root of the limit when it is not less than the least one
\* that has.
LEMMA RootIs ==
  ASSUME NEW n \in 1 .. 6, NEW L \in Nat
  PROVE  Root(L) >= n <=> L >= Least[n]
<1> DEFINE S == {i \in 1 .. 6 : Least[i] <= L}
<1>1. Root(L) = Cardinality(S)
  BY DEF Root
<1>2. IsFiniteSet(1 .. 6) /\ S \subseteq 1 .. 6
  <2> DEFINE a == 1
             b == 6
  <2>1. a \in Int /\ b \in Int /\ S \subseteq a .. b
    OBVIOUS
  <2> HIDE DEF a, b
  <2>2. IsFiniteSet(a .. b)
    BY <2>1, FS_Interval
  <2> QED
    BY <2>1, <2>2 DEF a, b
<1>3. IsFiniteSet(S) /\ Cardinality(S) \in Nat
  BY <1>2, FS_Subset, FS_CardinalityType
<1>4. \A k \in Nat : IsFiniteSet(1 .. k) /\ Cardinality(1 .. k) = k
  BY FS_Interval
<1>5. CASE L >= Least[n]
  <2>1. 1 .. n \subseteq S
    <3> SUFFICES ASSUME NEW i \in 1 .. n PROVE i \in 1 .. 6 /\ Least[i] <= L
      OBVIOUS
    <3>1. i \in 1 .. 6 /\ i <= n
      OBVIOUS
    <3>2. Least[i] <= Least[n] /\ Least[i] \in Nat /\ Least[n] \in Nat
      BY <3>1, LeastGrows
    <3> QED
      BY <1>5, <3>1, <3>2
  <2> HIDE DEF S
  <2>2. Cardinality(1 .. n) <= Cardinality(S)
    BY <1>3, <2>1, FS_Subset
  <2> QED
    BY <1>1, <1>3, <1>4, <1>5, <2>2
<1>6. CASE ~(L >= Least[n])
  <2>1. S \subseteq 1 .. (n - 1)
    <3> SUFFICES ASSUME NEW i \in 1 .. 6, Least[i] <= L PROVE i \in 1 .. (n - 1)
      OBVIOUS
    <3>1. Least[i] \in Nat /\ Least[n] \in Nat /\ (n <= i => Least[n] <= Least[i])
      BY LeastGrows
    <3>2. ~(n <= i)
      BY <1>6, <3>1
    <3> QED
      BY <3>2
  <2> HIDE DEF S
  <2>2. n - 1 \in Nat
    OBVIOUS
  <2>3. Cardinality(S) <= Cardinality(1 .. (n - 1)) /\ Cardinality(1 .. (n - 1)) = n - 1
    BY <1>4, <2>1, <2>2, FS_Subset
  <2> QED
    BY <1>1, <1>3, <1>6, <2>2, <2>3
<1> QED
  BY <1>5, <1>6

\* The running total of the reference.
WorkTotal == [i \in Cells |-> Total(0, i)]

\* A chunk is full when the reference has its limit in it.
LEMMA FullIs ==
  ASSUME TypeOK, Exact, limit \in 1 .. 6, NEW b \in Cells, NEW e \in b .. N
  PROVE  Full(b, e) <=> WorkTotal[e] - WorkTotal[b] >= Least[limit]
<1>1. e \in Cells /\ b <= e /\ N \in Cells /\ e <= N /\ b <= N
  BY NAssumption DEF Cells
<1>2. Total(b, e) \in Nat /\ Total(0, b) \in Nat /\ Total(0, e) = Total(0, b) + Total(b, e)
  BY <1>1, TotalSplit
<1>3. Total(e, N) \in Nat /\ Total(0, N) = Total(0, e) + Total(e, N)
  BY <1>1, TotalSplit
<1>4. Half \in Nat
  BY HalfAssumption
<1>5. Total(b, e) < Half
  BY <1>2, <1>3, <1>4 DEF Exact
<1>6. Wrap(Total(b, e)) = Total(b, e)
  BY <1>2, <1>5, WrapSame
<1>7. Root(Total(b, e)) >= limit <=> Total(b, e) >= Least[limit]
  BY <1>2, RootIs
<1>8. WorkTotal[e] = Total(0, e) /\ WorkTotal[b] = Total(0, b)
  BY <1>1 DEF WorkTotal
<1>9. WorkTotal[e] - WorkTotal[b] = Total(b, e)
  BY <1>2, <1>8
<1> QED
  BY <1>6, <1>7, <1>9 DEF Full

\* The chunk of the reference.
LEMMA ReferenceIs ==
  ASSUME TypeOK, Exact, limit \in 1 .. 6, policy \in Known
  PROVE  Ref(WorkTotal, Least[limit])!make_chunk(mon, fetch)
           = [begin |-> FirstTodo, end |-> ChunkEnd(FirstTodo)]
<1> DEFINE b == FirstTodo
<1>1. b \in Cells
  BY FirstTodoIs
<1>2. Ref(WorkTotal, Least[limit])!FirstTodo(mon, fetch.end) = b
  BY DEF Ref!FirstTodo, FirstTodo, Ref!Min, Min
<1> HIDE DEF b
<1>3. {e \in b .. N : e = N \/ mon.states[e] # "TODO" \/ Full(b, e)}
        = {e \in b .. N : \/ e = N
                          \/ mon.states[e] # "TODO"
                          \/ WorkTotal[e] - WorkTotal[b] >= Least[limit]}
  BY <1>1, FullIs
<1>4. Ref(WorkTotal, Least[limit])!ChunkEnd(mon, b) = ChunkEnd(b)
  <2> DEFINE S == {e \in b .. N : \/ e = N
                                  \/ mon.states[e] # "TODO"
                                  \/ WorkTotal[e] - WorkTotal[b] >= Least[limit]}
  <2>1. Ref(WorkTotal, Least[limit])!ChunkEnd(mon, b) = Min(S)
    BY DEF Ref!ChunkEnd, Ref!Min, Min
  <2>2. ChunkEnd(b) = Min(S)
    BY <1>3 DEF ChunkEnd
  <2> QED
    BY <2>1, <2>2
<1> QED
  BY <1>2, <1>4 DEF Ref!make_chunk, b

-----------------------------------------------------------------------------
(* The invariant.                                                            *)

\* It holds when the server starts, whatever the log says is done.
LEMMA InitIInv == Init => IInv
<1> SUFFICES ASSUME Init PROVE IInv
  OBVIOUS
<1>1. PICK d \in SUBSET Jobs : mon = Retag(NewMonitor, d, "DONE")
  BY DEF Init
<1>2. MonitorOK(mon)
  BY <1>1, NewMonitorOK, RetagKeeps DEF State
<1>3. policy \in Known \cup {"garbage"}
  BY DEF Init
<1>4. fetch \in [begin : Cells \cup {-1}, end : Cells]
  BY NAssumption DEF Init, Cells
<1>5. mon \in MonitorType
  BY <1>2 DEF MonitorOK
<1> QED
  BY <1>2, <1>3, <1>4, <1>5, LostAssumption DEF Init, IInv, TypeOK

\* Every step keeps it.
LEMMA NextIInv == IInv /\ [Next]_vars => IInv'
<1> SUFFICES ASSUME IInv, [Next]_vars PROVE IInv'
  OBVIOUS
<1> USE DEF IInv
<1>1. CASE Make
  <2> DEFINE b == FirstTodo
             e == ChunkEnd(b)
  <2>1. /\ fetch' = [begin |-> b, end |-> e]
        /\ mon' = tag_segment(mon, "INPROGRESS", b, e)
        /\ given' = IF b = e THEN given ELSE given \cup {<<b, e>>}
        /\ UNCHANGED <<policy, limit, size, lost>>
    BY <1>1 DEF Make
  <2>2. b \in Cells /\ e \in Cells /\ <<b, e>> \in Segment
    <3>1. b \in Cells
      BY FirstTodoIs
    <3> HIDE DEF b
    <3>2. e \in b .. N
      BY <3>1, ChunkEndIs
    <3> HIDE DEF e
    <3> QED
      BY <3>1, <3>2, NAssumption DEF Cells, Segment
  <2> HIDE DEF b, e
  <2>3. MonitorOK(mon')
    <3>1. "INPROGRESS" \in State /\ <<b, e>>[1] = b /\ <<b, e>>[2] = e
      BY DEF State
    <3> QED
      BY <2>1, <2>2, <3>1, TagSegmentKeeps
  <2>4. mon' \in MonitorType
    BY <2>3 DEF MonitorOK
  <2>5. fetch' \in [begin : Cells \cup {-1}, end : Cells]
    BY <2>1, <2>2
  <2> QED
    BY <2>1, <2>2, <2>3, <2>4, <2>5 DEF TypeOK
<1>2. CASE Lose
  <2>1. PICK s \in given :
          /\ mon' = tag_segment(mon, "TODO", s[1], s[2])
          /\ fetch' = Ref(<<>>, 0)!rewind(fetch, s[1] - 1)
          /\ given' = given \ {s}
    BY <1>2 DEF Lose
  <2>2. s \in Segment /\ s[1] \in Cells
    BY DEF TypeOK, Segment
  <2>3. MonitorOK(mon')
    BY <2>1, <2>2, TagSegmentKeeps DEF State
  <2>4. mon' \in MonitorType
    BY <2>3 DEF MonitorOK
  <2>5. fetch' \in [begin : Cells \cup {-1}, end : Cells]
    <3> DEFINE o == s[1] - 1
    <3>1. o \in Cells \cup {-1}
      BY <2>2, NAssumption DEF Cells
    <3> HIDE DEF o
    <3>2. \/ o # -1 /\ fetch' = [begin |-> o, end |-> o]
          \/ fetch' = [begin |-> -1, end |-> 0]
          \/ fetch' = fetch
      BY <2>1 DEF o, Ref!rewind, Ref!ULess, Ref!NPOS
    <3> QED
      BY <3>1, <3>2, NAssumption DEF TypeOK, Cells
  <2>6. lost' \in 0 .. MaxLost
    BY <1>2, LostAssumption DEF Lose, TypeOK
  <2> QED
    BY <1>2, <2>1, <2>3, <2>4, <2>5, <2>6 DEF Lose, TypeOK
<1>3. CASE UNCHANGED vars
  BY <1>3 DEF vars, TypeOK
<1> QED
  BY <1>1, <1>2, <1>3 DEF Next

-----------------------------------------------------------------------------
\* The cursor stays in the input, or at (size_type)(-1), and chunks are parts
\* of the input, for any policy, known or not.
THEOREM TypeCorrect == Spec => []TypeOK
<1>1. IInv => TypeOK
  BY DEF IInv
<1> QED
  BY InitIInv, NextIInv, <1>1, PTL DEF Spec

\* With a known policy and a limit, a client that asks while a record at or
\* after the cursor is to be done gets one: each loop of make_chunk compares
\* before it adds, so it is so for weights that overflow at the first record.
THEOREM NeverEmptyHanded == Spec => NeverEmpty
<1>1. IInv /\ [Next]_vars =>
        [limit > 0 /\ policy \in Known /\ Make /\ FirstTodo < N
           => fetch'.begin < fetch'.end]_vars
  <2> SUFFICES ASSUME IInv, limit > 0, policy \in Known, Make, FirstTodo < N
               PROVE  fetch'.begin < fetch'.end
    OBVIOUS
  <2> DEFINE b == FirstTodo
             e == ChunkEnd(b)
  <2>1. fetch' = [begin |-> b, end |-> e]
    BY DEF Make
  <2>2. b \in Cells /\ mon.states[b] = "TODO" /\ b < N
    BY FirstTodoIs DEF IInv
  <2> HIDE DEF b
  <2>3. e \in b .. N /\ e # b
    BY <2>2, ChunkEndIs, EmptyNotFull DEF IInv
  <2> HIDE DEF e
  <2> QED
    BY <2>1, <2>2, <2>3, NAssumption DEF Cells
<1> QED
  BY InitIInv, NextIInv, <1>1, PTL DEF Spec, NeverEmpty

\* As long as no total overflows, each of the five loops makes the chunk that
\* the one loop of Fetch makes on exact running totals, for any sizes: the
\* truncated roots and logarithms and the width of the integers move no
\* boundary.  The limits are those whose least total Least gives.
THEOREM PoliciesAgree ==
  ASSUME Limits \subseteq 0 .. 6
  PROVE  Spec => MatchesReference
<1>1. IInv /\ [Next]_vars =>
        [Exact /\ limit > 0 /\ policy \in Known /\ Make =>
           LET Work == [i \in Cells |-> Total(0, i)]
           IN  fetch' = Ref(Work, Least[limit])!make_chunk(mon, fetch)]_vars
  <2> SUFFICES ASSUME IInv, Exact, limit > 0, policy \in Known, Make
               PROVE  fetch' = Ref(WorkTotal, Least[limit])!make_chunk(mon, fetch)
    BY DEF WorkTotal
  <2>1. limit \in 1 .. 6
    BY DEF IInv, TypeOK
  <2>2. fetch' = [begin |-> FirstTodo, end |-> ChunkEnd(FirstTodo)]
    BY DEF Make
  <2> QED
    BY <2>1, <2>2, ReferenceIs DEF IInv
<1> QED
  BY InitIInv, NextIInv, <1>1, PTL DEF Spec, MatchesReference
=============================================================================
