----------------------------- MODULE SumProofs -----------------------------
(* Least elements of sets of natural numbers, and sums over finite sets as   *)
(* the library makes them: with MapThenSumSet, which takes the elements in   *)
(* an order that CHOOSE picks.  A property of every number or of every       *)
(* finite set is proved from its least counterexample.                       *)
EXTENDS Integers, FiniteSetsExt, FiniteSetTheorems, WellFoundedInduction, TLAPS

\* A set of natural numbers that is not empty has a least element, and Min is
\* that element.
LEMMA MinIsLeast ==
  ASSUME NEW S, S \subseteq Nat, S # {}
  PROVE  Min(S) \in S /\ \A y \in S : Min(S) <= y
<1>1. \E x \in S : \A y \in S : ~ (<<y, x>> \in OpToRel(<, Nat))
  BY NatLessThanWellFounded, WFMin
<1>2. \A x, y \in Nat : <<y, x>> \notin OpToRel(<, Nat) => x <= y
  BY DEF OpToRel
<1>3. \E x \in S : \A y \in S : x <= y
  BY <1>1, <1>2
<1> QED
  BY <1>3 DEF Min

-----------------------------------------------------------------------------
(* The function that MapThenSumSet defines: f[s] is the sum of w over s, for *)
(* every subset s of S.                                                      *)

Some(s) == CHOOSE x \in s : TRUE

\* The weights of the elements of S are integers; two weights agree on S.
Weights(w, S) == \A x \in S : w[x] \in Int
Agree(w, v, S) == \A x \in S : w[x] = v[x]

Step(f, w, s) == IF s = {} THEN 0 ELSE w[Some(s)] + f[s \ {Some(s)}]

Adding(f, w, S) == f = [s \in SUBSET S |-> Step(f, w, s)]

\* The same for the subsets of at most n elements.
AddingFew(f, w, S, n) ==
    f = [s \in {t \in SUBSET S : Cardinality(t) <= n} |-> Step(f, w, s)]

\* A set has the element that was chosen.
LEMMA SomeIn ==
  ASSUME NEW s, s # {}
  PROVE  Some(s) \in s
  BY DEF Some

\* Without one of its elements a finite set is one smaller.
LEMMA OneLess ==
  ASSUME NEW S, IsFiniteSet(S), NEW s \in SUBSET S, NEW x \in s
  PROVE  /\ Cardinality(s) \in Nat /\ Cardinality(s \ {x}) \in Nat
         /\ Cardinality(s \ {x}) = Cardinality(s) - 1
         /\ s \ {x} \in SUBSET S
         /\ IsFiniteSet(s)
<1>1. IsFiniteSet(s)
  BY FS_Subset
<1> QED
  BY <1>1, FS_RemoveElement, FS_CardinalityType

\* There is a sum of the subsets of at most n elements.
LEMMA AddingFewExists ==
  ASSUME NEW w, NEW S, IsFiniteSet(S), NEW n \in Nat
  PROVE  \E f : AddingFew(f, w, S, n)
<1> DEFINE T == {k \in Nat : ~ \E f : AddingFew(f, w, S, k)}
<1>1. ASSUME T # {}
      PROVE  FALSE
  <2> DEFINE k == Min(T)
             U(m) == {t \in SUBSET S : Cardinality(t) <= m}
  <2>1. k \in Nat /\ (\A f : ~AddingFew(f, w, S, k)) /\ \A y \in T : k <= y
    BY <1>1, MinIsLeast
  <2> HIDE DEF k
  <2>2. CASE k = 0
    <3> DEFINE g == [s \in U(0) |-> 0]
    <3>1. \A s \in U(0) : s = {}
      <4> SUFFICES ASSUME NEW s \in SUBSET S, Cardinality(s) <= 0
                   PROVE  s = {}
        OBVIOUS
      <4>1. IsFiniteSet(s)
        BY FS_Subset
      <4> QED
        BY <4>1, FS_EmptySet, FS_CardinalityType
    <3>2. g = [s \in U(0) |-> Step(g, w, s)]
      BY <3>1 DEF Step
    <3>3. AddingFew(g, w, S, 0)
      BY <3>2 DEF AddingFew
    <3> QED
      BY <2>1, <2>2, <3>3
  <2>3. CASE k # 0
    <3>1. k - 1 \in Nat /\ ~(k <= k - 1)
      BY <2>1, <2>3
    <3>2. PICK f : AddingFew(f, w, S, k - 1)
      BY <2>1, <3>1
    <3> DEFINE g == [s \in U(k) |-> Step(f, w, s)]
    <3>3. \A s \in U(k - 1) : f[s] = Step(f, w, s)
      BY <3>2 DEF AddingFew
    <3>4. \A s \in U(k - 1) : s \in U(k) /\ g[s] = f[s]
      <4>1. \A s \in U(k - 1) : s \in U(k)
        <5> SUFFICES ASSUME NEW s \in SUBSET S, Cardinality(s) <= k - 1
                     PROVE  Cardinality(s) <= k
          OBVIOUS
        <5>1. Cardinality(s) \in Nat
          BY FS_Subset, FS_CardinalityType
        <5> QED
          BY <2>1, <5>1
      <4> HIDE DEF U
      <4> QED
        BY <3>3, <4>1
    <3>5. \A s \in U(k) : Step(f, w, s) = Step(g, w, s)
      <4> SUFFICES ASSUME NEW s \in U(k), s # {}
                   PROVE  f[s \ {Some(s)}] = g[s \ {Some(s)}]
        BY DEF Step
      <4>1. Some(s) \in s
        BY SomeIn
      <4>2. s \ {Some(s)} \in U(k - 1)
        BY <2>1, <4>1, OneLess
      <4> QED
        BY <3>4, <4>2
    <3>6. g = [s \in U(k) |-> Step(g, w, s)]
      <4> HIDE DEF U
      <4> QED
        BY <3>5
    <3>7. AddingFew(g, w, S, k)
      BY <3>6 DEF AddingFew
    <3> QED
      BY <2>1, <3>7
  <2> QED
    BY <2>2, <2>3
<1> QED
  BY <1>1

\* There is a sum of all of them.
LEMMA AddingExists ==
  ASSUME NEW w, NEW S, IsFiniteSet(S)
  PROVE  \E f : Adding(f, w, S)
<1>1. Cardinality(S) \in Nat
  BY FS_CardinalityType
<1>2. {t \in SUBSET S : Cardinality(t) <= Cardinality(S)} = SUBSET S
  BY FS_Subset
<1>3. PICK f : AddingFew(f, w, S, Cardinality(S))
  BY <1>1, AddingFewExists
<1>4. Adding(f, w, S)
  BY <1>2, <1>3 DEF Adding, AddingFew
<1> QED
  BY <1>4

\* One step of it.
LEMMA AddingStep ==
  ASSUME NEW f, NEW w, NEW S, Adding(f, w, S), NEW s \in SUBSET S
  PROVE  f[s] = IF s = {} THEN 0 ELSE w[Some(s)] + f[s \ {Some(s)}]
  BY DEF Adding, Step

\* It depends on the weights of what is added, and on nothing else.
LEMMA AddingSame ==
  ASSUME NEW f, NEW g, NEW w, NEW v, NEW S, NEW T, NEW R,
         IsFiniteSet(S), Adding(f, w, S), Adding(g, v, T),
         R \subseteq S, R \subseteq T, Agree(w, v, R)
  PROVE  f[R] = g[R]
<1> DEFINE C == {n \in Nat : \E s \in SUBSET R : Cardinality(s) = n /\ f[s] # g[s]}
<1>1. ASSUME C # {}
      PROVE  FALSE
  <2> DEFINE n == Min(C)
  <2>1. n \in C /\ \A y \in C : n <= y
    BY <1>1, MinIsLeast
  <2> HIDE DEF n
  <2>2. PICK s \in SUBSET R : Cardinality(s) = n /\ f[s] # g[s]
    BY <2>1
  <2>3. s \in SUBSET S /\ s \in SUBSET T
    OBVIOUS
  <2>4. CASE s = {}
    BY <2>2, <2>3, <2>4, AddingStep
  <2>5. CASE s # {}
    <3> DEFINE x == Some(s)
    <3>1. x \in s
      BY <2>5, SomeIn
    <3>2. f[s] = w[x] + f[s \ {x}]
      <4>1. s \in SUBSET S /\ s # {} /\ Adding(f, w, S)
        BY <2>3, <2>5
      <4> QED
        BY ONLY <4>1, AddingStep
    <3>6. g[s] = v[x] + g[s \ {x}]
      <4>1. s \in SUBSET T /\ s # {} /\ Adding(g, v, T)
        BY <2>3, <2>5
      <4> QED
        BY ONLY <4>1, AddingStep
    <3> HIDE DEF x, C
    <3>3. Cardinality(s \ {x}) \in Nat /\ Cardinality(s \ {x}) = n - 1 /\ n \in Nat
      BY <2>2, <2>3, <3>1, OneLess
    <3>4. Cardinality(s \ {x}) \notin C
      BY <2>1, <3>3
    <3>5. f[s \ {x}] = g[s \ {x}]
      BY <3>3, <3>4 DEF C
    <3> QED
      BY <2>2, <3>1, <3>2, <3>5, <3>6 DEF Agree
  <2> QED
    BY <2>4, <2>5
<1>2. IsFiniteSet(R) /\ Cardinality(R) \in Nat
  BY FS_Subset, FS_CardinalityType
<1> QED
  BY <1>1, <1>2

\* The order in which the elements are taken does not matter.
LEMMA AddingAny ==
  ASSUME NEW f, NEW w, NEW S, IsFiniteSet(S), Adding(f, w, S), Weights(w, S)
  PROVE  \A s \in SUBSET S : f[s] \in Int /\ \A x \in s : f[s] = w[x] + f[s \ {x}]
<1> DEFINE Fine(s) == f[s] \in Int /\ \A x \in s : f[s] = w[x] + f[s \ {x}]
           C == {n \in Nat : \E s \in SUBSET S : Cardinality(s) = n /\ ~Fine(s)}
<1>1. ASSUME C # {}
      PROVE  FALSE
  <2> DEFINE n == Min(C)
  <2>1. n \in C /\ \A y \in C : n <= y
    BY <1>1, MinIsLeast
  <2> HIDE DEF n
  <2>2. PICK s \in SUBSET S : Cardinality(s) = n /\ ~Fine(s)
    BY <2>1
  <2>3. \A t \in SUBSET S : Cardinality(t) \in Nat /\ Cardinality(t) < n => Fine(t)
    <3> HIDE DEF Fine
    <3>1. n \in Nat
      BY <2>1
    <3> QED
      BY <2>1, <3>1
  <2>4. CASE s = {}
    <3>1. f[s] = 0
      BY <2>4, AddingStep
    <3> QED
      BY <2>2, <2>4, <3>1
  <2>5. CASE s # {}
    <3> DEFINE y == Some(s)
    <3>1. y \in s /\ w[y] \in Int
      BY <2>5, SomeIn DEF Weights
    <3>2. f[s] = w[y] + f[s \ {y}]
      BY <2>5, AddingStep
    <3> HIDE DEF y
    <3>3. \A x \in s : s \ {x} \in SUBSET S /\ Fine(s \ {x})
      <4> SUFFICES ASSUME NEW x \in s
                   PROVE  s \ {x} \in SUBSET S /\ Fine(s \ {x})
        OBVIOUS
      <4>1. /\ Cardinality(s \ {x}) \in Nat /\ n \in Nat
            /\ Cardinality(s \ {x}) = n - 1 /\ s \ {x} \in SUBSET S
        BY <2>2, OneLess
      <4>2. Cardinality(s \ {x}) < n
        BY <4>1
      <4> HIDE DEF Fine
      <4> QED
        BY <2>3, <4>1, <4>2
    <3>4. f[s] \in Int
      <4>1. f[s \ {y}] \in Int
        BY <3>1, <3>3
      <4> QED
        BY <3>1, <3>2, <4>1
    <3>5. ASSUME NEW x \in s, x # y
          PROVE  f[s] = w[x] + f[s \ {x}]
      <4> DEFINE r == (s \ {x}) \ {y}
      <4>1. r = (s \ {y}) \ {x} /\ x \in s \ {y} /\ y \in s \ {x}
        BY <3>1, <3>5
      <4>2. f[s \ {x}] = w[y] + f[r]
        BY <3>3, <4>1
      <4>3. f[s \ {y}] = w[x] + f[r]
        BY <3>1, <3>3, <4>1
      <4>5. w[x] \in Int
        BY DEF Weights
      <4>4. f[r] \in Int
        <5>1. /\ Cardinality(s \ {x}) = n - 1 /\ n \in Nat /\ s \ {x} \in SUBSET S
          BY <2>2, OneLess
        <5>2. /\ Cardinality(r) \in Nat /\ Cardinality(r) = (n - 1) - 1 /\ r \in SUBSET S
          BY <4>1, <5>1, OneLess
        <5>3. Cardinality(r) < n
          BY <5>1, <5>2
        <5>4. Fine(r)
          <6> HIDE DEF Fine, r
          <6> QED
            BY <2>3, <5>2, <5>3
        <5> QED
          BY <5>4
      <4> HIDE DEF r
      <4> QED
        BY <3>1, <3>2, <4>2, <4>3, <4>4, <4>5
    <3> QED
      BY <2>2, <3>2, <3>4, <3>5
  <2> QED
    BY <2>4, <2>5
<1>2. \A s \in SUBSET S : Cardinality(s) \in Nat
  BY FS_Subset, FS_CardinalityType
<1> HIDE DEF Fine
<1>3. \A s \in SUBSET S : Fine(s)
  BY <1>1, <1>2
<1> QED
  BY <1>3 DEF Fine

-----------------------------------------------------------------------------
(* The sum of w over S.                                                      *)

Sum(w, S) == (CHOOSE f : Adding(f, w, S))[S]

\* Any function that adds makes the sum.
LEMMA SumIs ==
  ASSUME NEW f, NEW w, NEW S, IsFiniteSet(S), Adding(f, w, S)
  PROVE  f[S] = Sum(w, S)
<1> DEFINE g == CHOOSE h : Adding(h, w, S)
<1>1. Adding(g, w, S)
  OBVIOUS
<1> HIDE DEF g
<1>2. f[S] = g[S]
  <2>1. S \subseteq S /\ Agree(w, w, S)
    BY DEF Agree
  <2> QED
    BY <1>1, <2>1, AddingSame
<1> QED
  BY <1>2 DEF Sum, g

\* Nothing adds up to zero.
LEMMA SumEmpty ==
  ASSUME NEW w
  PROVE  Sum(w, {}) = 0
<1>1. IsFiniteSet({})
  BY FS_EmptySet
<1>2. PICK f : Adding(f, w, {})
  BY <1>1, AddingExists
<1>3. f[{}] = 0
  BY <1>2, AddingStep
<1> QED
  BY <1>1, <1>2, <1>3, SumIs

\* Any element can be taken out of a sum.
LEMMA SumAdd ==
  ASSUME NEW w, NEW S, IsFiniteSet(S), Weights(w, S), NEW x \in S
  PROVE  Sum(w, S) \in Int /\ Sum(w, S \ {x}) \in Int /\ Sum(w, S) = w[x] + Sum(w, S \ {x})
<1>1. PICK f : Adding(f, w, S)
  BY AddingExists
<1>2. IsFiniteSet(S \ {x})
  BY FS_Subset
<1>3. PICK g : Adding(g, w, S \ {x})
  BY <1>2, AddingExists
<1>4. f[S \ {x}] = g[S \ {x}]
  <2> DEFINE T == S \ {x}
  <2>1. T \subseteq S /\ T \subseteq T /\ Agree(w, w, T)
    BY DEF Agree
  <2>2. Adding(g, w, T)
    BY <1>3
  <2> HIDE DEF T
  <2>3. f[T] = g[T]
    BY <1>1, <2>1, <2>2, AddingSame
  <2> QED
    BY <2>3 DEF T
<1>5. /\ f[S] \in Int /\ f[S \ {x}] \in Int /\ f[S] = w[x] + f[S \ {x}]
  <2>1. \A s \in SUBSET S : f[s] \in Int /\ \A y \in s : f[s] = w[y] + f[s \ {y}]
    BY ONLY IsFiniteSet(S), Weights(w, S), <1>1, AddingAny
  <2> QED
    BY <2>1
<1> QED
  BY <1>1, <1>2, <1>3, <1>4, <1>5, SumIs

\* A sum of integers is an integer.
LEMMA SumType ==
  ASSUME NEW w, NEW S, IsFiniteSet(S), Weights(w, S)
  PROVE  Sum(w, S) \in Int
<1>1. CASE S = {}
  BY <1>1, SumEmpty
<1>2. CASE S # {}
  BY <1>2, SumAdd
<1> QED
  BY <1>1, <1>2

\* A sum depends on the weights of its elements only.
LEMMA SumSame ==
  ASSUME NEW w, NEW v, NEW S, IsFiniteSet(S), Agree(w, v, S)
  PROVE  Sum(w, S) = Sum(v, S)
<1>1. PICK f : Adding(f, w, S)
  BY AddingExists
<1>2. PICK g : Adding(g, v, S)
  BY AddingExists
<1>3. S \subseteq S
  OBVIOUS
<1>4. f[S] = g[S]
  BY ONLY IsFiniteSet(S), Agree(w, v, S), <1>1, <1>2, <1>3, AddingSame
<1> QED
  BY <1>1, <1>2, <1>4, SumIs

\* With another weight for one element the sum is another by as much.
LEMMA SumChanged ==
  ASSUME NEW w, NEW v, NEW S, IsFiniteSet(S), Weights(w, S), Weights(v, S),
         NEW x \in S, Agree(w, v, S \ {x})
  PROVE  Sum(w, S) \in Int /\ Sum(v, S) = (Sum(w, S) - w[x]) + v[x]
<1> DEFINE R == S \ {x}
<1>1. IsFiniteSet(R) /\ Agree(w, v, R)
  BY FS_Subset
<1>2. ASSUME NEW m, Weights(m, S)
      PROVE  Sum(m, S) \in Int /\ Sum(m, R) \in Int /\ Sum(m, S) = m[x] + Sum(m, R)
  BY ONLY IsFiniteSet(S), x \in S, <1>2, SumAdd
<1> HIDE DEF R
<1>3. /\ Sum(w, S) \in Int /\ Sum(w, R) \in Int /\ Sum(w, S) = w[x] + Sum(w, R)
      /\ Sum(v, S) \in Int /\ Sum(v, R) \in Int /\ Sum(v, S) = v[x] + Sum(v, R)
  BY <1>2
<1>4. w[x] \in Int /\ v[x] \in Int
  BY DEF Weights
<1>5. Sum(w, R) = Sum(v, R)
  BY <1>1, SumSame
<1> QED
  BY <1>3, <1>4, <1>5

\* The numbers b .. e-1, one more of them.
LEMMA SumNext ==
  ASSUME NEW w, NEW b \in Int, NEW e \in Int, b <= e, Weights(w, b .. e)
  PROVE  /\ Sum(w, b .. (e - 1)) \in Int
         /\ Sum(w, b .. ((e + 1) - 1)) = w[e] + Sum(w, b .. (e - 1))
<1>1. b .. ((e + 1) - 1) = b .. e /\ (b .. e) \ {e} = b .. (e - 1) /\ e \in b .. e
  OBVIOUS
<1>2. IsFiniteSet(b .. e)
  BY FS_Interval
<1> DEFINE S == b .. e
<1>3. Sum(w, S) = w[e] + Sum(w, S \ {e}) /\ Sum(w, S \ {e}) \in Int
  <2>1. e \in S /\ IsFiniteSet(S) /\ Weights(w, S)
    BY <1>1, <1>2
  <2> HIDE DEF S
  <2> QED
    BY ONLY <2>1, SumAdd
<1> QED
  BY <1>1, <1>3

\* The weights of the elements of S are natural numbers.
Counting(w, S) == \A x \in S : w[x] \in Nat

\* Of such weights the sum is a natural number, and the sum of an interval is
\* that of its two parts.
LEMMA SumSplit ==
  ASSUME NEW w, NEW a \in Int, NEW b \in Int, NEW e \in Int, a <= b, b <= e,
         Counting(w, a .. (e - 1))
  PROVE  /\ Sum(w, b .. (e - 1)) \in Nat
         /\ Sum(w, a .. (e - 1)) = Sum(w, a .. (b - 1)) + Sum(w, b .. (e - 1))
<1> DEFINE Fine(k) == /\ Sum(w, b .. (k - 1)) \in Nat
                      /\ Sum(w, a .. (k - 1)) = Sum(w, a .. (b - 1)) + Sum(w, b .. (k - 1))
           C == {n \in Nat : b + n <= e /\ ~Fine(b + n)}
<1>1. Sum(w, a .. (b - 1)) \in Int
  <2> DEFINE R == a .. (b - 1)
  <2>1. IsFiniteSet(R)
    BY FS_Interval
  <2>2. Weights(w, R)
    BY DEF Weights, Counting
  <2> HIDE DEF R
  <2>3. Sum(w, R) \in Int
    BY ONLY <2>1, <2>2, SumType
  <2> QED
    BY <2>3 DEF R
<1>2. ASSUME C # {}
      PROVE  FALSE
  <2> DEFINE n == Min(C)
             k == (b + n) - 1
  <2>1. n \in C /\ \A y \in C : n <= y
    BY <1>2, MinIsLeast
  <2> HIDE DEF n
  <2>2. n \in Nat /\ b + n <= e /\ ~Fine(b + n)
    BY <2>1
  <2>3. CASE n = 0
    <3>1. b .. ((b + n) - 1) = {} /\ (b + n) - 1 = b - 1
      BY <2>3
    <3>2. Sum(w, b .. ((b + n) - 1)) = 0
      BY <3>1, SumEmpty
    <3> QED
      BY <1>1, <2>2, <3>1, <3>2
  <2>4. CASE n # 0
    <3>1. /\ n - 1 \in Nat /\ ~(n <= n - 1) /\ b + (n - 1) = k /\ k \in Int
          /\ b <= k /\ a <= k /\ k <= e - 1 /\ (k + 1) - 1 = (b + n) - 1 /\ k \in a .. (e - 1)
      BY <2>2, <2>4
    <3> HIDE DEF k
    <3>2. Fine(k)
      <4>1. n - 1 \notin C
        BY <2>1, <3>1
      <4>2. b + (n - 1) <= e
        BY <3>1
      <4> QED
        BY <3>1, <4>1, <4>2
    <3>3. Weights(w, a .. k) /\ Weights(w, b .. k) /\ w[k] \in Nat
      BY <3>1 DEF Weights, Counting
    <3>4. /\ Sum(w, a .. (k - 1)) \in Int
          /\ Sum(w, a .. ((k + 1) - 1)) = w[k] + Sum(w, a .. (k - 1))
      <4>1. a \in Int /\ k \in Int /\ a <= k /\ Weights(w, a .. k)
        BY <3>1, <3>3
      <4> QED
        BY ONLY <4>1, SumNext
    <3>5. /\ Sum(w, b .. (k - 1)) \in Int
          /\ Sum(w, b .. ((k + 1) - 1)) = w[k] + Sum(w, b .. (k - 1))
      <4>1. b \in Int /\ k \in Int /\ b <= k /\ Weights(w, b .. k)
        BY <3>1, <3>3
      <4> QED
        BY ONLY <4>1, SumNext
    <3>6. Sum(w, a .. (b - 1)) \in Int
      BY <1>1
    <3>7. /\ Sum(w, b .. (k - 1)) \in Nat
          /\ Sum(w, a .. (k - 1)) = Sum(w, a .. (b - 1)) + Sum(w, b .. (k - 1))
      BY <3>2
    <3>8. /\ Sum(w, b .. ((k + 1) - 1)) \in Nat
          /\ Sum(w, a .. ((k + 1) - 1)) = Sum(w, a .. (b - 1)) + Sum(w, b .. ((k + 1) - 1))
      BY ONLY <3>3, <3>4, <3>5, <3>6, <3>7
    <3>9. Fine(b + n)
      BY <3>1, <3>8
    <3> QED
      BY <2>2, <3>9
  <2> QED
    BY <2>3, <2>4
<1>3. e - b \in Nat /\ b + (e - b) = e
  OBVIOUS
<1> HIDE DEF Fine
<1>4. Fine(e)
  <2>1. e - b \notin C
    BY <1>2
  <2>2. b + (e - b) <= e
    BY <1>3
  <2>3. Fine(b + (e - b))
    BY <1>3, <2>1, <2>2
  <2> QED
    BY <1>3, <2>3
<1> QED
  BY <1>4 DEF Fine
=============================================================================
