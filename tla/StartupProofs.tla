--------------------------- MODULE StartupProofs ---------------------------
(* What becomes of the configuration and of the command, for every           *)
(* configuration file, any words in it and any number of lines.              *)
EXTENDS Startup, SumProofs

Text == Seq(Word)
PRGM == <<"PRGM">>

-----------------------------------------------------------------------------
(* Numbers and sequences.                                                    *)

\* An element that no other exceeds is the one Max chooses.
LEMMA MaxIs ==
  ASSUME NEW S, S \subseteq Nat, NEW x \in S, \A y \in S : y <= x
  PROVE  Max(S) = x
<1>1. \A y \in S : (\A z \in S : y >= z) <=> y = x
  OBVIOUS
<1> QED
  BY <1>1 DEF Max

\* A prefix word by word.
LEMMA PrefixIs ==
  ASSUME NEW s \in Text, NEW t \in Text
  PROVE  IsPrefix(s, t) <=> Len(s) <= Len(t) /\ \A i \in 1 .. Len(s) : s[i] = t[i]
<1>1. SubSeq(s, 1, Len(s)) = s
  BY DEF Text
<1>2. ASSUME Len(s) <= Len(t)
      PROVE  SubSeq(t, 1, Len(s)) = s <=> \A i \in 1 .. Len(s) : s[i] = t[i]
  <2> DEFINE u == SubSeq(t, 1, Len(s))
  <2>1. u \in Text /\ Len(u) = Len(s) /\ \A i \in 1 .. Len(s) : u[i] = t[i]
    BY <1>2 DEF Text
  <2> HIDE DEF u
  <2>2. u = s <=> \A i \in 1 .. Len(s) : u[i] = s[i]
    BY <2>1 DEF Text
  <2> QED
    BY <2>1, <2>2 DEF u
<1> QED
  BY <1>1, <1>2 DEF IsPrefix

\* A value without the blanks before it is a value.
LEMMA TrimType ==
  ASSUME NEW v \in Text
  PROVE  Trim(v) \in Text
<1> DEFINE S == {i \in 1 .. (Len(v) + 1) : i <= Len(v) => v[i] # " "}
<1>1. S \subseteq Nat /\ Len(v) + 1 \in S /\ S \subseteq 1 .. (Len(v) + 1)
  <2>1. Len(v) \in Nat
    BY DEF Text
  <2>2. Len(v) + 1 \in 1 .. (Len(v) + 1) /\ ~(Len(v) + 1 <= Len(v))
    BY <2>1
  <2>3. S \subseteq 1 .. (Len(v) + 1)
    OBVIOUS
  <2>4. 1 .. (Len(v) + 1) \subseteq Nat
    BY <2>1
  <2>5. Len(v) + 1 \in S
    BY <2>2
  <2> QED
    BY <2>3, <2>4, <2>5
<1>2. Min(S) \in 1 .. (Len(v) + 1)
  <2> HIDE DEF S
  <2> QED
    BY <1>1, MinIsLeast
<1>3. Trim(v) = SubSeq(v, Min(S), Len(v))
  BY DEF Trim
<1> HIDE DEF S
<1> QED
  BY <1>2, <1>3 DEF Text

-----------------------------------------------------------------------------
(* The names of the fields.                                                  *)

\* Thirteen names of one word, but for the third, which begins with the fourth;
\* no two others begin with the same word, and none with a #.
LEMMA NamesAre ==
  /\ DOMAIN Names = 1 .. 13
  /\ \A i \in 1 .. 13 : /\ Names[i] \in Text
                        /\ Len(Names[i]) = IF i = 3 THEN 2 ELSE 1
                        /\ Names[i][1] # "#"
  /\ Names[3][1] = Names[4][1]
  /\ \A i, j \in 1 .. 13 : Names[i][1] = Names[j][1] =>
        i = j \/ (i = 3 /\ j = 4) \/ (i = 4 /\ j = 3)
  /\ Names[1] = PRGM
<1>1. DOMAIN Names = 1 .. 13
  BY DEF Names
<1>2. ASSUME NEW i \in 1 .. 13
      PROVE  /\ Names[i] \in Text
             /\ Len(Names[i]) = IF i = 3 THEN 2 ELSE 1
             /\ Names[i][1] # "#"
  <2>1. Names[i] \in Text
    BY <1>1, WordAssumption DEF Text
  <2>2. CASE i = 3
    <3>1. Names[i] = <<"POLICY", "_LIMIT">>
      BY <2>2 DEF Names
    <3> QED
      BY <2>1, <2>2, <3>1
  <2>3. CASE i # 3
    <3>1. i \in {1, 2, 4, 5, 6, 7, 8, 9, 10, 11, 12, 13}
      BY <2>3
    <3>2. \E w : Names[i] = <<w>> /\ w # "#"
      BY <3>1 DEF Names
    <3> QED
      BY <2>1, <2>3, <3>2
  <2> QED
    BY <2>2, <2>3
<1>3. \A i, j \in 1 .. 13 : Names[i][1] = Names[j][1] =>
        i = j \/ (i = 3 /\ j = 4) \/ (i = 4 /\ j = 3)
  BY DEF Names
<1>4. Names[3][1] = Names[4][1] /\ Names[1] = PRGM
  BY DEF Names, PRGM
<1> QED
  BY <1>1, <1>2, <1>3, <1>4

\* The first name in the chain that begins the key is the longest one: POLICY
\* is looked for after POLICY_LIMIT.
LEMMA FirstIsLongest ==
  ASSUME NEW key \in Text, NEW f \in Field
  PROVE  f \in Matching(key) <=>
            /\ IsPrefix(f, key)
            /\ \A g \in Field : IsPrefix(g, key) => Len(g) <= Len(f)
<1> DEFINE fits == {i \in DOMAIN Names : IsPrefix(Names[i], key)}
<1>1. Matching(key) = IF fits = {} THEN {} ELSE {Names[Min(fits)]}
  BY DEF Matching
<1>2. Field = {Names[i] : i \in 1 .. 13} /\ fits \subseteq 1 .. 13
      /\ \A i \in 1 .. 13 : i \in fits <=> IsPrefix(Names[i], key)
  BY NamesAre DEF Field
<1>3. \A i \in 1 .. 13 : i \in fits <=> /\ Len(Names[i]) <= Len(key)
                                       /\ \A k \in 1 .. Len(Names[i]) : Names[i][k] = key[k]
  <2> SUFFICES ASSUME NEW i \in 1 .. 13
               PROVE  IsPrefix(Names[i], key) <=>
                        /\ Len(Names[i]) <= Len(key)
                        /\ \A k \in 1 .. Len(Names[i]) : Names[i][k] = key[k]
    BY <1>2
  <2> DEFINE s == Names[i]
  <2>1. s \in Text
    BY NamesAre
  <2> HIDE DEF s
  <2>2. IsPrefix(s, key) <=> Len(s) <= Len(key) /\ \A k \in 1 .. Len(s) : s[k] = key[k]
    BY <2>1, PrefixIs
  <2> QED
    BY <2>2 DEF s
<1>4. \A i \in fits : Names[i][1] = key[1]
  <2> SUFFICES ASSUME NEW i \in fits PROVE Names[i][1] = key[1]
    OBVIOUS
  <2>1. i \in 1 .. 13 /\ 1 \in 1 .. Len(Names[i])
    BY <1>2, NamesAre
  <2> QED
    BY <1>3, <2>1
<1>5. \A i, j \in fits : i = j \/ (i = 3 /\ j = 4) \/ (i = 4 /\ j = 3)
  BY <1>2, <1>4, NamesAre
<1> HIDE DEF fits
<1>6. ASSUME fits # {}
      PROVE  Min(fits) \in fits /\ \A i \in fits : Min(fits) <= i
  <2>1. fits \subseteq Nat
    BY <1>2
  <2> QED
    BY <1>6, <2>1, MinIsLeast
<1>7. \A i \in fits : i = Min(fits) \/ (Min(fits) = 3 /\ i = 4)
  <2> SUFFICES ASSUME NEW i \in fits, i # Min(fits) PROVE Min(fits) = 3 /\ i = 4
    OBVIOUS
  <2>1. i \in 1 .. 13 /\ Min(fits) \in 1 .. 13 /\ Min(fits) <= i
    BY <1>2, <1>6
  <2> QED
    BY <1>5, <1>6, <2>1
<1>8. \A i \in 1 .. 13 : Len(Names[i]) = IF i = 3 THEN 2 ELSE 1
  BY NamesAre
<1>9. PICK m \in 1 .. 13 : f = Names[m]
  BY <1>2
<1>10. CASE fits = {}
  BY <1>1, <1>2, <1>9, <1>10
<1>11. CASE fits # {}
  <2>1. Matching(key) = {Names[Min(fits)]} /\ Min(fits) \in fits /\ Min(fits) \in 1 .. 13
    BY <1>1, <1>2, <1>6, <1>11
  <2>2. CASE Min(fits) = 3
    <3>1. \A g \in Field : Len(g) <= 2 /\ (Len(g) = 2 => g = Names[3])
      <4> SUFFICES ASSUME NEW i \in 1 .. 13
                   PROVE  Len(Names[i]) <= 2 /\ (Len(Names[i]) = 2 => i = 3)
        BY <1>2
      <4>1. PICK n \in {1, 2} : Len(Names[i]) = n /\ (n = 2 => i = 3)
        BY <1>8
      <4> QED
        BY <4>1
    <3>2. IsPrefix(Names[3], key) /\ Names[3] \in Field /\ Len(Names[3]) = 2
      BY <1>2, <1>8, <2>1, <2>2
    <3>3. Len(f) \in {1, 2}
      BY <1>8, <1>9
    <3>4. f \in Matching(key) <=> f = Names[3]
      BY <2>1, <2>2
    <3>5. CASE f = Names[3]
      BY <3>1, <3>2, <3>4, <3>5
    <3>6. CASE f # Names[3]
      <4>1. Len(f) = 1 /\ ~(Len(Names[3]) <= Len(f))
        BY <3>1, <3>2, <3>3, <3>6
      <4> QED
        BY <3>2, <3>4, <3>6, <4>1
    <3> QED
      BY <3>5, <3>6
  <2>3. CASE Min(fits) # 3
    <3>1. \A i \in fits : i = Min(fits)
      BY <1>7, <2>3
    <3>2. \A g \in Field : IsPrefix(g, key) => g = Names[Min(fits)]
      BY <1>2, <3>1
    <3>3. IsPrefix(Names[Min(fits)], key)
      BY <1>2, <2>1
    <3>4. Len(f) \in {1, 2}
      BY <1>8, <1>9
    <3> QED
      BY <2>1, <3>2, <3>3, <3>4
  <2> QED
    BY <2>2, <2>3
<1> QED
  BY <1>10, <1>11

\* A line that begins with # sets no field.
LEMMA CommentIsNoField ==
  ASSUME NEW key \in Text, key # <<>>, Head(key) = "#", NEW f \in Field
  PROVE  ~IsPrefix(f, key)
<1>1. PICK m \in 1 .. 13 : f = Names[m]
  BY NamesAre DEF Field
<1>2. f \in Text /\ Len(f) >= 1 /\ f[1] # "#"
  BY <1>1, NamesAre
<1>3. key[1] = "#"
  BY DEF Text
<1> QED
  BY <1>2, <1>3, PrefixIs

-----------------------------------------------------------------------------
(* The configuration.                                                        *)

Lines == Seq(ConfLine(Text, Text))

ConfType ==
    /\ file \in Lines
    /\ lines_read \in 0 .. Len(file)
    /\ field_value \in Text
    /\ conf \in [Field -> Text]

\* The parts of a line.
LEMMA LineParts ==
  ASSUME ConfType, NEW k \in 1 .. Len(file)
  PROVE  /\ file[k].key \in Text /\ file[k].sep \in BOOLEAN /\ file[k].value \in Text
         /\ file[k] \in ConfLine(Text, Text)
<1>1. file[k] \in ConfLine(Text, Text)
  BY DEF ConfType, Lines
<1> QED
  BY <1>1 DEF ConfLine

\* One line more sets the field of the longest name that begins its key, and
\* no other.
LEMMA SettingGrows ==
  ASSUME ConfType, ReadLine, NEW f \in Field
  PROVE  LET n == lines_read + 1
             l == file[n]
         IN  Setting(f)' = IF f \in Matching(l.key) THEN Setting(f) \cup {n} ELSE Setting(f)
<1> DEFINE n == lines_read + 1
           l == file[n]
<1>1. n \in 1 .. Len(file) /\ lines_read' = n /\ file' = file /\ lines_read \in Nat
  BY DEF ConfType, ReadLine
<1>2. l.key \in Text
  BY <1>1, LineParts
<1>3. f \in Matching(l.key) <=>
        /\ IsPrefix(f, file[n].key)
        /\ \A g \in Field : IsPrefix(g, file[n].key) => Len(g) <= Len(f)
  BY <1>2, FirstIsLongest
<1>4. 1 .. lines_read' = (1 .. lines_read) \cup {n}
  BY <1>1
<1> HIDE DEF n, l
<1>5. Setting(f)' = {i \in (1 .. lines_read) \cup {n} :
        /\ IsPrefix(f, file[i].key)
        /\ \A g \in Field : IsPrefix(g, file[i].key) => Len(g) <= Len(f)}
  BY <1>1, <1>4 DEF Setting
<1> QED
  BY <1>3, <1>5 DEF Setting, n, l

\* Types are kept.
LEMMA ReadLineType ==
  ASSUME ConfType, ReadLine
  PROVE  ConfType'
<1> DEFINE n == lines_read + 1
           l == file[n]
           v == IF l.sep THEN l.value ELSE field_value
<1>1. n \in 1 .. Len(file) /\ lines_read' = n /\ file' = file
  BY DEF ConfType, ReadLine
<1>2. v \in Text /\ Trim(v) \in Text
  BY <1>1, LineParts, TrimType DEF ConfType
<1>3. /\ field_value' \in {v, Trim(v)}
      /\ conf' = conf \/ conf' = [f \in Field |->
                              IF f \in Matching(l.key) THEN Trim(v) ELSE conf[f]]
  BY DEF ReadLine
<1>4. conf' \in [Field -> Text]
  BY <1>2, <1>3 DEF ConfType
<1> QED
  BY <1>1, <1>2, <1>3, <1>4 DEF ConfType, Lines

\* A line with its '=' that names no comment sets its field to its own value.
LEMMA ReadLineOwn ==
  ASSUME ConfType, OwnValueIfWellFormed, ReadLine
  PROVE  OwnValueIfWellFormed'
<1> DEFINE n == lines_read + 1
           l == file[n]
           v == IF l.sep THEN l.value ELSE field_value
<1>1. n \in 1 .. Len(file) /\ lines_read' = n /\ file' = file /\ lines_read \in Nat
  BY DEF ConfType, ReadLine
<1>2. /\ l.key \in Text /\ l.value \in Text
      /\ conf \in [Field -> Text]
  BY <1>1, LineParts DEF ConfType
<1> SUFFICES ASSUME \A i \in 1 .. n : ~Bare(file[i]), NEW f \in Field
             PROVE  conf'[f] = IF Setting(f)' = {} THEN <<>>
                               ELSE IF file[Max(Setting(f)')].sep
                                    THEN Trim(file[Max(Setting(f)')].value) ELSE <<>>
  BY <1>1 DEF OwnValueIfWellFormed, OwnValue
<1>3. conf[f] = IF Setting(f) = {} THEN <<>>
                ELSE IF file[Max(Setting(f))].sep
                     THEN Trim(file[Max(Setting(f))].value) ELSE <<>>
  <2>1. \A i \in 1 .. lines_read : ~Bare(file[i])
    BY <1>1
  <2> QED
    BY <2>1 DEF OwnValueIfWellFormed, OwnValue
<1>4. CASE f \in Matching(l.key)
  <2>1. IsPrefix(f, l.key)
    BY <1>2, <1>4, FirstIsLongest
  <2>2. l.sep
    <3>1. ~Bare(l)
      BY <1>1
    <3> QED
      BY <2>1, <3>1 DEF Bare
  <2>3. ~(l.key # <<>> /\ Head(l.key) = "#")
    BY <1>2, <2>1, CommentIsNoField
  <2>4. conf'[f] = Trim(l.value)
    <3>1. conf' = [g \in Field |-> IF g \in Matching(l.key) THEN Trim(v) ELSE conf[g]]
      BY <2>3 DEF ReadLine
    <3> QED
      BY <1>4, <2>2, <3>1
  <2>5. Setting(f)' = Setting(f) \cup {n}
    BY <1>4, SettingGrows
  <2>6. Setting(f) \subseteq 1 .. lines_read
    BY DEF Setting
  <2>7. Max(Setting(f)') = n
    <3>1. Setting(f)' \subseteq Nat /\ n \in Setting(f)' /\ \A y \in Setting(f)' : y <= n
      BY <1>1, <2>5, <2>6
    <3> HIDE DEF n
    <3> QED
      BY <3>1, MaxIs
  <2> QED
    BY <2>2, <2>4, <2>5, <2>7
<1>5. CASE f \notin Matching(l.key)
  <2>1. Setting(f)' = Setting(f)
    BY <1>5, SettingGrows
  <2>2. conf'[f] = conf[f]
    <3>1. \/ conf' = conf
          \/ conf' = [g \in Field |-> IF g \in Matching(l.key) THEN Trim(v) ELSE conf[g]]
      BY DEF ReadLine
    <3> QED
      BY <1>5, <3>1
  <2> QED
    BY <1>3, <2>1, <2>2
<1> QED
  BY <1>4, <1>5

-----------------------------------------------------------------------------
(* The command.                                                              *)

\* The pieces of PRGM with its two words replaced.
Replaced ==
    [i \in DOMAIN cmd |-> CASE i = Find("in") + 1  -> "tmp_in"
                            [] i = Find("out") + 1 -> "tmp_out"
                            [] OTHER               -> cmd[i]]

\* strstr finds the first of the pieces p, or nothing.
LEMMA FindIs ==
  ASSUME cmd \in Text, NEW p
  PROVE  \/ /\ Has(p) /\ Find(p) + 1 \in 1 .. Len(cmd) /\ cmd[Find(p) + 1] = p
            /\ Find(p) \in 0 .. (Len(cmd) - 1)
         \/ ~Has(p) /\ Find(p) = -1 /\ \A i \in 1 .. Len(cmd) : cmd[i] # p
<1> DEFINE I == {i \in 1 .. Len(cmd) : cmd[i] = p}
<1>1. Find(p) = (IF I # {} THEN Min(I) ELSE 0) - 1
  BY DEF Find, SelectInSeq
<1>2. I \subseteq Nat /\ I \subseteq 1 .. Len(cmd) /\ Len(cmd) \in Nat
  BY DEF Text
<1>3. CASE I = {}
  BY <1>1, <1>3 DEF Has
<1>4. CASE I # {}
  <2>1. Min(I) \in I
    <3> HIDE DEF I
    <3> QED
      BY <1>2, <1>4, MinIsLeast
  <2>2. Min(I) \in 1 .. Len(cmd) /\ cmd[Min(I)] = p
    BY <2>1
  <2>3. Find(p) = Min(I) - 1
    BY <1>1, <1>4
  <2> HIDE DEF I
  <2> QED
    BY <1>2, <2>2, <2>3 DEF Has
<1> QED
  BY <1>3, <1>4

\* The elements of a concatenation.
LEMMA ConcatIs ==
  ASSUME NEW V, NEW a \in Seq(V), NEW b \in Seq(V)
  PROVE  /\ a \o b \in Seq(V) /\ Len(a \o b) = Len(a) + Len(b)
         /\ \A i \in 1 .. (Len(a) + Len(b)) :
               (a \o b)[i] = IF i <= Len(a) THEN a[i] ELSE b[i - Len(a)]
OBVIOUS

\* s has the elements of g.
LEMMA SameSeq ==
  ASSUME NEW V, NEW s \in Seq(V), NEW g, \A i \in 1 .. Len(s) : s[i] = g[i],
         g = [i \in 1 .. Len(s) |-> g[i]]
  PROVE  s = g
<1>1. s = [i \in 1 .. Len(s) |-> s[i]]
  OBVIOUS
<1> QED
  BY <1>1

\* What precedes place p of s, then x, is s up to p with x at place p.
LEMMA Head1 ==
  ASSUME NEW V, NEW s \in Seq(V), NEW p \in 1 .. Len(s), NEW x \in V
  PROVE  LET a == SubSeq(s, 1, p - 1) \o <<x>>
         IN  /\ a \in Seq(V) /\ Len(a) = p
             /\ \A i \in 1 .. p : a[i] = IF i = p THEN x ELSE s[i]
<1> DEFINE h == SubSeq(s, 1, p - 1)
<1>1. p \in Nat /\ Len(s) \in Nat /\ p <= Len(s) /\ 1 <= p
  OBVIOUS
<1>2. h \in Seq(V) /\ Len(h) = p - 1 /\ \A i \in 1 .. (p - 1) : h[i] = s[i]
  BY <1>1
<1>3. <<x>> \in Seq(V) /\ Len(<<x>>) = 1 /\ <<x>>[1] = x
  OBVIOUS
<1> HIDE DEF h
<1>4. /\ h \o <<x>> \in Seq(V) /\ Len(h \o <<x>>) = p
      /\ \A i \in 1 .. p : (h \o <<x>>)[i] = IF i = p THEN x ELSE s[i]
  BY <1>1, <1>2, <1>3, ConcatIs
<1> QED
  BY <1>4 DEF h

\* Up to place p of s it is e, and after it what follows in s up to place q.
LEMMA Tail1 ==
  ASSUME NEW V, NEW s \in Seq(V), NEW e \in Seq(V), NEW q \in 0 .. Len(s),
         Len(e) <= q
  PROVE  LET f == e \o SubSeq(s, Len(e) + 1, q)
         IN  /\ f \in Seq(V) /\ Len(f) = q
             /\ \A i \in 1 .. q : f[i] = IF i <= Len(e) THEN e[i] ELSE s[i]
<1> DEFINE p == Len(e)
           t == SubSeq(s, p + 1, q)
<1>1. p \in Nat /\ q \in Nat /\ Len(s) \in Nat /\ q <= Len(s) /\ p <= q /\ q - p \in Nat
  OBVIOUS
<1>2. t \in Seq(V) /\ Len(t) = q - p /\ \A i \in 1 .. (q - p) : t[i] = s[i + p]
  BY <1>1
<1> HIDE DEF t
<1>3. /\ e \o t \in Seq(V) /\ Len(e \o t) = q
      /\ \A i \in 1 .. q : (e \o t)[i] = IF i <= p THEN e[i] ELSE t[i - p]
  BY <1>1, <1>2, ConcatIs
<1>4. \A i \in 1 .. q : ~(i <= p) => i - p \in 1 .. (q - p) /\ t[i - p] = s[i]
  <2> SUFFICES ASSUME NEW i \in 1 .. q, ~(i <= p)
               PROVE  i - p \in 1 .. (q - p) /\ t[i - p] = s[i]
    OBVIOUS
  <2>1. i - p \in 1 .. (q - p) /\ (i - p) + p = i
    BY <1>1
  <2> QED
    BY <1>2, <2>1
<1>5. \A i \in 1 .. q : (e \o t)[i] = IF i <= p THEN e[i] ELSE s[i]
  BY <1>3, <1>4
<1> QED
  BY <1>3, <1>5 DEF t

\* s with x at place p; and with y at place q as well.
With(s, p, x) == [i \in 1 .. Len(s) |-> IF i = p THEN x ELSE s[i]]
WithTwo(s, p, x, q, y) ==
    [i \in 1 .. Len(s) |-> IF i = p THEN x ELSE IF i = q THEN y ELSE s[i]]

\* One element of a sequence put in the place of another.
LEMMA OneReplaced ==
  ASSUME NEW V, NEW s \in Seq(V), NEW p \in 1 .. Len(s), NEW x \in V
  PROVE  SubSeq(s, 1, p - 1) \o <<x>> \o SubSeq(s, p + 1, Len(s)) = With(s, p, x)
<1> DEFINE e == SubSeq(s, 1, p - 1) \o <<x>>
           f == e \o SubSeq(s, p + 1, Len(s))
           g == With(s, p, x)
<1>1. p \in Nat /\ Len(s) \in 0 .. Len(s) /\ p <= Len(s)
  OBVIOUS
<1>2. e \in Seq(V) /\ Len(e) = p /\ \A i \in 1 .. p : e[i] = IF i = p THEN x ELSE s[i]
  BY Head1
<1> HIDE DEF e
<1>3. /\ f \in Seq(V) /\ Len(f) = Len(s)
      /\ \A i \in 1 .. Len(s) : f[i] = IF i <= p THEN e[i] ELSE s[i]
  <2> DEFINE m == Len(s)
  <2>1. Len(e) <= m /\ e \in Seq(V) /\ m \in 0 .. Len(s)
    BY <1>1, <1>2
  <2> HIDE DEF m
  <2>2. LET h == e \o SubSeq(s, Len(e) + 1, m)
        IN  /\ h \in Seq(V) /\ Len(h) = m
            /\ \A i \in 1 .. m : h[i] = IF i <= Len(e) THEN e[i] ELSE s[i]
    BY <2>1, Tail1
  <2> QED
    BY <1>2, <2>2 DEF m
<1> HIDE DEF f
<1>4. \A i \in 1 .. Len(s) : f[i] = g[i]
  BY <1>1, <1>2, <1>3 DEF With
<1>5. g = [i \in 1 .. Len(f) |-> g[i]]
  BY <1>3 DEF With
<1> HIDE DEF g
<1>6. f = g
  BY <1>3, <1>4, <1>5, SameSeq
<1> QED
  BY <1>6 DEF e, f, g

\* The parts of s around the places p and q, with x and y in these places.
Around(s, p, x, q, y) ==
    SubSeq(s, 1, p - 1) \o <<x>> \o SubSeq(s, p + 1, q - 1) \o <<y>>
      \o SubSeq(s, q + 1, Len(s))

\* Two of them, the first before the second.
LEMMA TwoReplaced ==
  ASSUME NEW V, NEW s \in Seq(V), NEW p \in 1 .. Len(s), NEW q \in 1 .. Len(s), p < q,
         NEW x \in V, NEW y \in V
  PROVE  Around(s, p, x, q, y) = WithTwo(s, p, x, q, y)
<1> DEFINE a == SubSeq(s, 1, p - 1) \o <<x>>
           b == a \o SubSeq(s, p + 1, q - 1)
           e == b \o <<y>>
           f == e \o SubSeq(s, q + 1, Len(s))
           g == WithTwo(s, p, x, q, y)
<1>1. /\ p \in Nat /\ q \in Nat /\ p <= q - 1 /\ q <= Len(s) /\ Len(s) \in Nat
      /\ q - 1 \in 0 .. Len(s) /\ Len(s) \in 0 .. Len(s)
  OBVIOUS
<1>2. a \in Seq(V) /\ Len(a) = p /\ \A i \in 1 .. p : a[i] = IF i = p THEN x ELSE s[i]
  BY Head1
<1> HIDE DEF a
<1>3. /\ b \in Seq(V) /\ Len(b) = q - 1
      /\ \A i \in 1 .. (q - 1) : b[i] = IF i <= p THEN a[i] ELSE s[i]
  <2> DEFINE m == q - 1
  <2>1. Len(a) <= m /\ a \in Seq(V) /\ m \in 0 .. Len(s)
    BY <1>1, <1>2
  <2> HIDE DEF m
  <2>2. LET h == a \o SubSeq(s, Len(a) + 1, m)
        IN  /\ h \in Seq(V) /\ Len(h) = m
            /\ \A i \in 1 .. m : h[i] = IF i <= Len(a) THEN a[i] ELSE s[i]
    BY <2>1, Tail1
  <2> QED
    BY <1>2, <2>2 DEF m
<1> HIDE DEF b
<1>4. <<y>> \in Seq(V) /\ Len(<<y>>) = 1 /\ <<y>>[1] = y
  OBVIOUS
<1>5. /\ e \in Seq(V) /\ Len(e) = q
      /\ \A i \in 1 .. q : e[i] = IF i = q THEN y ELSE b[i]
  BY <1>1, <1>3, <1>4, ConcatIs
<1> HIDE DEF e
<1>6. /\ f \in Seq(V) /\ Len(f) = Len(s)
      /\ \A i \in 1 .. Len(s) : f[i] = IF i <= q THEN e[i] ELSE s[i]
  <2>1. Len(e) <= Len(s) /\ e \in Seq(V) /\ Len(s) \in 0 .. Len(s)
    BY <1>1, <1>5
  <2>2. LET h == e \o SubSeq(s, Len(e) + 1, Len(s))
        IN  /\ h \in Seq(V) /\ Len(h) = Len(s)
            /\ \A i \in 1 .. Len(s) : h[i] = IF i <= Len(e) THEN e[i] ELSE s[i]
    BY <2>1, Tail1
  <2> QED
    BY <1>5, <2>2
<1> HIDE DEF f
<1>7. \A i \in 1 .. Len(s) : f[i] = g[i]
  <2> SUFFICES ASSUME NEW i \in 1 .. Len(s) PROVE f[i] = g[i]
    OBVIOUS
  <2>1. CASE i <= p
    <3>1. i \in 1 .. p /\ i \in 1 .. (q - 1) /\ i \in 1 .. q /\ i # q /\ i <= q
      BY <1>1, <2>1
    <3>2. f[i] = e[i] /\ e[i] = b[i] /\ b[i] = a[i] /\ a[i] = IF i = p THEN x ELSE s[i]
      BY <1>2, <1>3, <1>5, <1>6, <2>1, <3>1
    <3> QED
      BY <3>1, <3>2 DEF WithTwo
  <2>2. CASE p < i /\ i < q
    BY <1>1, <1>3, <1>5, <1>6, <2>2 DEF WithTwo
  <2>3. CASE i >= q
    BY <1>1, <1>5, <1>6, <2>3 DEF WithTwo
  <2> QED
    BY <1>1, <2>1, <2>2, <2>3
<1>8. g = [i \in 1 .. Len(f) |-> g[i]]
  BY <1>6 DEF WithTwo
<1> HIDE DEF g
<1>9. f = g
  BY <1>6, <1>7, <1>8, SameSeq
<1> QED
  BY <1>9 DEF a, b, e, f, g, Around

\* The same of the copies of a command: a pointer is one less than a place.
LEMMA CopyOne ==
  ASSUME NEW V, cmd \in Seq(V), NEW p \in 0 .. (Len(cmd) - 1), NEW x \in V
  PROVE  Copy(0, p) \o <<x>> \o Copy(p + 1, Len(cmd)) = With(cmd, p + 1, x)
<1>1. p + 1 \in 1 .. Len(cmd) /\ p \in Nat /\ Len(cmd) \in Nat
  OBVIOUS
<1>2. Copy(0, p) = SubSeq(cmd, 1, (p + 1) - 1)
  <2>1. 0 + p < Len(cmd) /\ 0 + 1 = 1 /\ 0 + p = (p + 1) - 1
    BY <1>1
  <2> QED
    BY <2>1 DEF Copy
<1>3. Copy(p + 1, Len(cmd)) = SubSeq(cmd, (p + 1) + 1, Len(cmd))
  <2>1. ~((p + 1) + Len(cmd) < Len(cmd))
    BY <1>1
  <2> QED
    BY <2>1 DEF Copy
<1>4. SubSeq(cmd, 1, (p + 1) - 1) \o <<x>> \o SubSeq(cmd, (p + 1) + 1, Len(cmd))
        = With(cmd, p + 1, x)
  <2> DEFINE P == p + 1
  <2>1. P \in 1 .. Len(cmd)
    BY <1>1
  <2> HIDE DEF P
  <2>2. SubSeq(cmd, 1, P - 1) \o <<x>> \o SubSeq(cmd, P + 1, Len(cmd)) = With(cmd, P, x)
    BY <2>1, OneReplaced
  <2> QED
    BY <2>2 DEF P
<1> QED
  BY <1>2, <1>3, <1>4

\* The copies around the pointers p and q, with x and y in between.
Copies(p, x, q, y) ==
    Copy(0, p) \o <<x>> \o Copy(p + 1, q - (p + 1)) \o <<y>> \o Copy(q + 1, Len(cmd))

\* And with two words replaced.
LEMMA CopyTwo ==
  ASSUME NEW V, cmd \in Seq(V), NEW p \in 0 .. (Len(cmd) - 1),
         NEW q \in 0 .. (Len(cmd) - 1), p < q, NEW x \in V, NEW y \in V
  PROVE  Copies(p, x, q, y) = WithTwo(cmd, p + 1, x, q + 1, y)
<1>1. /\ p + 1 \in 1 .. Len(cmd) /\ q + 1 \in 1 .. Len(cmd) /\ p + 1 < q + 1
      /\ p \in Nat /\ q \in Nat /\ Len(cmd) \in Nat
  OBVIOUS
<1>2. Copy(0, p) = SubSeq(cmd, 1, (p + 1) - 1)
  <2>1. 0 + p < Len(cmd) /\ 0 + 1 = 1 /\ 0 + p = (p + 1) - 1
    BY <1>1
  <2> QED
    BY <2>1 DEF Copy
<1>3. Copy(p + 1, q - (p + 1)) = SubSeq(cmd, (p + 1) + 1, (q + 1) - 1)
  <2>1. (p + 1) + (q - (p + 1)) < Len(cmd) /\ (p + 1) + (q - (p + 1)) = (q + 1) - 1
    BY <1>1
  <2> QED
    BY <2>1 DEF Copy
<1>4. Copy(q + 1, Len(cmd)) = SubSeq(cmd, (q + 1) + 1, Len(cmd))
  <2>1. ~((q + 1) + Len(cmd) < Len(cmd))
    BY <1>1
  <2> QED
    BY <2>1 DEF Copy
<1>5. Around(cmd, p + 1, x, q + 1, y) = WithTwo(cmd, p + 1, x, q + 1, y)
  BY <1>1, TwoReplaced
<1> QED
  BY <1>2, <1>3, <1>4, <1>5 DEF Around, Copies

\* A copy of the start is a sequence that <<>> adds nothing to.
LEMMA CopyStart ==
  ASSUME NEW V, cmd \in Seq(V), NEW p \in 0 .. (Len(cmd) - 1)
  PROVE  Copy(0, 0) \o <<>> \o Copy(0, p) = Copy(0, p)
<1>1. Copy(0, 0) = <<>>
  BY DEF Copy
<1>2. Copy(0, p) = SubSeq(cmd, 1, p)
  <2>1. 0 + p < Len(cmd) /\ 0 + 1 = 1 /\ 0 + p = p
    OBVIOUS
  <2> QED
    BY <2>1 DEF Copy
<1>3. SubSeq(cmd, 1, p) \in Seq(V)
  OBVIOUS
<1> QED
  BY <1>1, <1>2, <1>3

\* What format_cmd makes of a sensible command, with its two words there or
\* not and in any order.
LEMMA SpliceReplaces ==
  ASSUME cmd \in Text, Sensible(cmd), format_cmd
  PROVE  f_cmd' = Replaced
<1> DEFINE L == Len(cmd)
           a == Find("in")
           b == Find("out")
           V == Word \cup {"tmp_in", "tmp_out"}
<1>1. L \in Nat /\ cmd \in Seq(V) /\ DOMAIN cmd = 1 .. L
      /\ "tmp_in" \in V /\ "tmp_out" \in V
  BY DEF Text
<1>2. \/ Has("in") /\ a + 1 \in 1 .. L /\ cmd[a + 1] = "in" /\ a \in 0 .. (L - 1)
      \/ ~Has("in") /\ a = -1 /\ \A i \in 1 .. L : cmd[i] # "in"
  BY FindIs
<1>3. \/ Has("out") /\ b + 1 \in 1 .. L /\ cmd[b + 1] = "out" /\ b \in 0 .. (L - 1)
      \/ ~Has("out") /\ b = -1 /\ \A i \in 1 .. L : cmd[i] # "out"
  BY FindIs
<1>4. f_cmd' = Splice(IF Has("in") THEN a ELSE 0, IF Has("in") THEN a + 1 ELSE 0,
                      IF Has("out") THEN b ELSE 0, IF Has("out") THEN b + 1 ELSE 0,
                      IF Has("in") THEN <<"tmp_in">> ELSE <<>>,
                      IF Has("out") THEN <<"tmp_out">> ELSE <<>>)
  BY DEF format_cmd
<1>5. Replaced = WithTwo(cmd, a + 1, "tmp_in", b + 1, "tmp_out")
  <2>1. a # b \/ a = -1
    BY <1>2, <1>3
  <2>2. ASSUME NEW i \in 1 .. L
        PROVE  (CASE i = a + 1 -> "tmp_in" [] i = b + 1 -> "tmp_out" [] OTHER -> cmd[i])
                 = IF i = a + 1 THEN "tmp_in" ELSE IF i = b + 1 THEN "tmp_out" ELSE cmd[i]
    <3>1. ~(i = a + 1 /\ i = b + 1)
      BY <1>2, <1>3, <2>1
    <3> HIDE DEF a, b
    <3> QED
      BY <3>1
  <2> QED
    BY <1>1, <2>2 DEF Replaced, WithTwo
<1>6. Copy(0, 0) = <<>> /\ Copy(0, L) = cmd
  BY <1>1 DEF Copy
<1> HIDE DEF a, b, V
<1>7. L \in Nat /\ \A i \in 1 .. L : i \in Int
  BY <1>1
<1>8. CASE Has("in") /\ Has("out") /\ a < b
  <2>1. f_cmd' = Copy(0, a) \o <<"tmp_in">> \o Copy(a + 1, b - (a + 1)) \o <<"tmp_out">>
                   \o Copy(b + 1, L)
    BY <1>4, <1>8 DEF Splice
  <2>2. f_cmd' = WithTwo(cmd, a + 1, "tmp_in", b + 1, "tmp_out")
    <3>1. a \in 0 .. (Len(cmd) - 1) /\ b \in 0 .. (Len(cmd) - 1) /\ cmd \in Seq(V)
      BY <1>1, <1>2, <1>3, <1>8
    <3>2. Copies(a, "tmp_in", b, "tmp_out") = WithTwo(cmd, a + 1, "tmp_in", b + 1, "tmp_out")
      <4>1. /\ "tmp_in" \in V /\ "tmp_out" \in V /\ cmd \in Seq(V) /\ a < b
            /\ a \in 0 .. (Len(cmd) - 1) /\ b \in 0 .. (Len(cmd) - 1)
        BY <1>1, <1>8, <3>1
      <4> QED
        BY ONLY <4>1, CopyTwo
    <3> QED
      BY <2>1, <3>2 DEF Copies
  <2> QED
    BY <1>5, <2>2
<1>9. CASE Has("in") /\ Has("out") /\ ~(a < b)
  <2>1. b < a /\ a + 1 # b + 1
    BY <1>2, <1>3, <1>9
  <2>2. f_cmd' = Copy(0, b) \o <<"tmp_out">> \o Copy(b + 1, a - (b + 1)) \o <<"tmp_in">>
                   \o Copy(a + 1, L)
    BY <1>4, <1>9 DEF Splice
  <2>3. f_cmd' = WithTwo(cmd, b + 1, "tmp_out", a + 1, "tmp_in")
    <3>1. a \in 0 .. (Len(cmd) - 1) /\ b \in 0 .. (Len(cmd) - 1) /\ cmd \in Seq(V)
      BY <1>1, <1>2, <1>3, <1>9
    <3>2. Copies(b, "tmp_out", a, "tmp_in") = WithTwo(cmd, b + 1, "tmp_out", a + 1, "tmp_in")
      <4>1. /\ "tmp_in" \in V /\ "tmp_out" \in V /\ cmd \in Seq(V) /\ b < a
            /\ a \in 0 .. (Len(cmd) - 1) /\ b \in 0 .. (Len(cmd) - 1)
        BY <1>1, <2>1, <3>1
      <4> QED
        BY ONLY <4>1, CopyTwo
    <3> QED
      BY <2>2, <3>2 DEF Copies
  <2>4. WithTwo(cmd, b + 1, "tmp_out", a + 1, "tmp_in")
          = WithTwo(cmd, a + 1, "tmp_in", b + 1, "tmp_out")
    BY <2>1 DEF WithTwo
  <2> QED
    BY <1>5, <2>3, <2>4
<1>10. CASE Has("in") /\ ~Has("out")
  <2>1. a \in 0 .. (L - 1) /\ a - 0 = a /\ ~(a < 0) /\ \A i \in 1 .. L : i # b + 1
    BY <1>2, <1>3, <1>7, <1>10
  <2>2. f_cmd' = Copy(0, 0) \o <<>> \o Copy(0, a) \o <<"tmp_in">> \o Copy(a + 1, L)
    BY <1>4, <1>10, <2>1 DEF Splice
  <2>3. f_cmd' = Copy(0, a) \o <<"tmp_in">> \o Copy(a + 1, L)
    BY <1>1, <2>1, <2>2, CopyStart
  <2>4. f_cmd' = With(cmd, a + 1, "tmp_in")
    <3>1. a \in 0 .. (Len(cmd) - 1) /\ cmd \in Seq(V)
      BY <1>1, <2>1
    <3>2. Copy(0, a) \o <<"tmp_in">> \o Copy(a + 1, Len(cmd)) = With(cmd, a + 1, "tmp_in")
      BY <1>1, <3>1, CopyOne
    <3> QED
      BY <2>3, <3>2
  <2>5. WithTwo(cmd, a + 1, "tmp_in", b + 1, "tmp_out") = With(cmd, a + 1, "tmp_in")
    BY <2>1 DEF With, WithTwo
  <2> QED
    BY <1>5, <2>4, <2>5
<1>11. CASE ~Has("in") /\ Has("out")
  <2>1. 0 < b
    <3>1. cmd # <<>> /\ Head(cmd) = cmd[1]
      BY <1>1, <1>3, <1>11
    <3>2. b = 0 => cmd[1] = "out"
      BY <1>3, <1>11
    <3>3. b = 0 => \E i \in 1 .. L : cmd[i] = "in"
      BY <1>1, <3>1, <3>2 DEF Sensible
    <3> QED
      BY <1>2, <1>3, <1>11, <3>3
  <2>2. b \in 0 .. (L - 1) /\ b - 0 = b /\ \A i \in 1 .. L : i # a + 1
    BY <1>2, <1>3, <1>7, <1>11
  <2>3. f_cmd' = Copy(0, 0) \o <<>> \o Copy(0, b) \o <<"tmp_out">> \o Copy(b + 1, L)
    BY <1>4, <1>11, <2>1, <2>2 DEF Splice
  <2>4. f_cmd' = Copy(0, b) \o <<"tmp_out">> \o Copy(b + 1, L)
    BY <1>1, <2>2, <2>3, CopyStart
  <2>5. f_cmd' = With(cmd, b + 1, "tmp_out")
    <3>1. b \in 0 .. (Len(cmd) - 1) /\ cmd \in Seq(V)
      BY <1>1, <2>2
    <3>2. Copy(0, b) \o <<"tmp_out">> \o Copy(b + 1, Len(cmd)) = With(cmd, b + 1, "tmp_out")
      BY <1>1, <3>1, CopyOne
    <3> QED
      BY <2>4, <3>2
  <2>6. WithTwo(cmd, a + 1, "tmp_in", b + 1, "tmp_out") = With(cmd, b + 1, "tmp_out")
    BY <2>2 DEF With, WithTwo
  <2> QED
    BY <1>5, <2>5, <2>6
<1>12. CASE ~Has("in") /\ ~Has("out")
  <2>1. a = -1 /\ b = -1
    BY <1>2, <1>3, <1>12
  <2>2. f_cmd' = Copy(0, 0) \o <<>> \o Copy(0, 0) \o <<>> \o Copy(0, L)
    BY <1>4, <1>12 DEF Splice, L
  <2>3. f_cmd' = cmd
    <3>1. <<>> \o <<>> \o <<>> \o <<>> \o cmd = cmd
      BY <1>1
    <3> QED
      BY <1>6, <2>2, <3>1
  <2>4. \A i \in 1 .. L : i # a + 1 /\ i # b + 1
    BY <2>1
  <2>5. cmd = [i \in 1 .. L |-> cmd[i]]
    BY <1>1
  <2>6. WithTwo(cmd, a + 1, "tmp_in", b + 1, "tmp_out") = [i \in 1 .. L |-> cmd[i]]
    BY <2>4 DEF WithTwo
  <2> QED
    BY <1>5, <2>3, <2>5, <2>6
<1> QED
  BY <1>8, <1>9, <1>10, <1>11, <1>12

-----------------------------------------------------------------------------
(* The length of the command.                                                *)

\* What a piece adds to the length.
PieceLength(p) == CASE p = "in"      -> 9
                    [] p = "out"     -> 10
                    [] p = "tmp_in"  -> InLen
                    [] p = "tmp_out" -> OutLen
                    [] OTHER         -> 1

Lengths(s) == [i \in DOMAIN s |-> PieceLength(s[i])]

\* A length is the sum of the lengths of the pieces, in any order.
LEMMA LengthIs ==
  ASSUME NEW s, IsFiniteSet(DOMAIN s)
  PROVE  Length(s) = Sum(Lengths(s), DOMAIN s)
<1> DEFINE S == DOMAIN s
           w == Lengths(s)
           g(i) == CASE s[i] = "in"      -> 9
                     [] s[i] = "out"     -> 10
                     [] s[i] = "tmp_in"  -> InLen
                     [] s[i] = "tmp_out" -> OutLen
                     [] OTHER            -> 1
           Iter(f) == [t \in SUBSET S |->
              IF t = {} THEN 0
              ELSE g(CHOOSE x \in t : TRUE) + f[t \ {CHOOSE x \in t : TRUE}]]
           c == CHOOSE f : f = Iter(f)
<1>1. Length(s) = c[S]
  BY DEF Length, MapThenSumSet, MapThenFoldSet
<1>2. \A x \in S : w[x] = g(x)
  BY DEF Lengths, PieceLength
<1> HIDE DEF g, w
<1>3. ASSUME NEW f
      PROVE  f = Iter(f) <=> Adding(f, w, S)
  <2>1. ASSUME NEW t \in SUBSET S
        PROVE  Step(f, w, t) = IF t = {} THEN 0
                 ELSE g(CHOOSE x \in t : TRUE) + f[t \ {CHOOSE x \in t : TRUE}]
    <3>1. t # {} => Some(t) \in S
      BY SomeIn
    <3> QED
      BY <1>2, <3>1 DEF Step, Some
  <2>2. Iter(f) = [t \in SUBSET S |-> Step(f, w, t)]
    BY <2>1
  <2> HIDE DEF Iter
  <2> QED
    BY <2>2 DEF Adding
<1> HIDE DEF Iter
<1>4. c = Iter(c)
  <2>1. PICK f : Adding(f, w, S)
    BY AddingExists
  <2>2. f = Iter(f)
    BY <1>3, <2>1
  <2> QED
    BY <2>2
<1>5. Adding(c, w, S)
  BY <1>3, <1>4
<1> HIDE DEF c
<1>6. c[S] = Sum(w, S)
  BY <1>5, SumIs
<1> QED
  BY <1>1, <1>6 DEF w

\* The length of a piece is a number, and that of a sequence of pieces.
LEMMA LengthType ==
  /\ \A q : PieceLength(q) \in Int
  /\ \A V : \A s \in Seq(V) : IsFiniteSet(DOMAIN s) /\ Length(s) \in Int
<1>1. \A q : PieceLength(q) \in Int
  BY LengthsAssumption DEF PieceLength
<1>2. ASSUME NEW V, NEW s \in Seq(V)
      PROVE  IsFiniteSet(DOMAIN s) /\ Length(s) \in Int
  <2> DEFINE S == DOMAIN s
             w == Lengths(s)
  <2>1. IsFiniteSet(S)
    <3>1. IsFiniteSet(1 .. Len(s))
      BY FS_Interval
    <3> QED
      BY <3>1
  <2>2. Weights(w, S)
    BY <1>1 DEF Weights, Lengths
  <2>3. Length(s) = Sum(w, S)
    BY <2>1, LengthIs
  <2> HIDE DEF S, w
  <2>4. Sum(w, S) \in Int
    BY <2>1, <2>2, SumType
  <2> QED
    BY <2>1, <2>3, <2>4 DEF S
<1> QED
  BY <1>1, <1>2

\* With another piece in one place the length is another by as much.
LEMMA LengthChanged ==
  ASSUME NEW s, NEW u, IsFiniteSet(DOMAIN s), DOMAIN u = DOMAIN s, NEW p \in DOMAIN s,
         \A i \in DOMAIN s \ {p} : u[i] = s[i]
  PROVE  Length(u) = (Length(s) - PieceLength(s[p])) + PieceLength(u[p])
<1> DEFINE D == DOMAIN s
           m == Lengths(s)
           v == Lengths(u)
<1>1. \A i \in D : m[i] = PieceLength(s[i]) /\ v[i] = PieceLength(u[i])
  BY DEF Lengths
<1>2. Weights(m, D) /\ Weights(v, D) /\ Agree(m, v, D \ {p})
  BY <1>1, LengthType DEF Weights, Agree
<1>3. Length(s) = Sum(m, D) /\ Length(u) = Sum(v, D)
  BY LengthIs
<1> HIDE DEF m, v
<1>4. Sum(v, D) = (Sum(m, D) - m[p]) + v[p]
  BY <1>2, SumChanged
<1> QED
  BY <1>1, <1>3, <1>4

\* So it is for a sequence.
LEMMA LengthWith ==
  ASSUME NEW V, NEW s \in Seq(V), NEW p \in 1 .. Len(s), NEW x
  PROVE  Length(With(s, p, x)) = (Length(s) - PieceLength(s[p])) + PieceLength(x)
<1> DEFINE u == With(s, p, x)
<1>1. /\ DOMAIN u = DOMAIN s /\ p \in DOMAIN s /\ u[p] = x
      /\ \A i \in DOMAIN s \ {p} : u[i] = s[i]
  BY DEF With
<1>2. IsFiniteSet(DOMAIN s)
  BY LengthType
<1> HIDE DEF u
<1>3. Length(u) = (Length(s) - PieceLength(s[p])) + PieceLength(u[p])
  BY <1>1, <1>2, LengthChanged
<1> QED
  BY <1>1, <1>3 DEF u

\* The command with its two files has the length that was computed for it.
LEMMA ReplacedFits ==
  ASSUME cmd \in Text
  PROVE  Length(Replaced) = Size /\ Size \in Int
<1> DEFINE L == Len(cmd)
           a == Find("in")
           b == Find("out")
           V == Word \cup {"tmp_in", "tmp_out"}
           r == IF Has("in") THEN With(cmd, a + 1, "tmp_in") ELSE cmd
<1>1. L \in Nat /\ DOMAIN cmd = 1 .. L /\ cmd \in Seq(V)
      /\ "tmp_in" \in V /\ "tmp_out" \in V
  BY DEF Text
<1>2. \/ Has("in") /\ a + 1 \in 1 .. L /\ cmd[a + 1] = "in"
      \/ ~Has("in") /\ \A i \in 1 .. L : i # a + 1
  BY <1>1, FindIs
<1>3. \/ Has("out") /\ b + 1 \in 1 .. L /\ cmd[b + 1] = "out"
      \/ ~Has("out") /\ \A i \in 1 .. L : i # b + 1
  BY <1>1, FindIs
<1> HIDE DEF a, b, V
<1>4. r \in Seq(V) /\ Len(r) = L /\ \A i \in 1 .. L : r[i] = IF i = a + 1 THEN "tmp_in" ELSE cmd[i]
  BY <1>1, <1>2 DEF With
<1>5. /\ Length(r) \in Int
      /\ Length(r) = Length(cmd) + IF Has("in") THEN InLen - 9 ELSE 0
  <2>1. CASE Has("in")
    <3>1. /\ Length(cmd) \in Int
          /\ Length(r) = (Length(cmd) - PieceLength("in")) + PieceLength("tmp_in")
      BY <1>1, <1>2, <2>1, LengthType, LengthWith
    <3>2. PieceLength("in") = 9 /\ PieceLength("tmp_in") = InLen
      BY DEF PieceLength
    <3> HIDE DEF r
    <3> QED
      BY <2>1, <3>1, <3>2, LengthsAssumption
  <2>2. CASE ~Has("in")
    <3>1. Length(cmd) \in Int
      BY <1>1, LengthType
    <3> QED
      BY <2>2, <3>1
  <2> QED
    BY <2>1, <2>2
<1>6. Replaced = IF Has("out") THEN With(r, b + 1, "tmp_out") ELSE r
  <2>1. ASSUME NEW i \in 1 .. L, i = a + 1, i = b + 1
        PROVE  FALSE
    BY <1>2, <1>3, <2>1
  <2>2. Replaced = [i \in 1 .. L |-> IF i = b + 1 THEN "tmp_out" ELSE r[i]]
    <3>1. ASSUME NEW i \in 1 .. L
          PROVE  (CASE i = a + 1 -> "tmp_in" [] i = b + 1 -> "tmp_out" [] OTHER -> cmd[i])
                   = IF i = b + 1 THEN "tmp_out" ELSE r[i]
      BY <1>4, <2>1
    <3> QED
      BY <1>1, <3>1 DEF Replaced, a, b
  <2>3. CASE Has("out")
    BY <1>4, <2>2, <2>3 DEF With
  <2>4. CASE ~Has("out")
    <3>1. Replaced = [i \in 1 .. L |-> r[i]]
      BY <1>3, <2>2, <2>4
    <3>2. r = [i \in 1 .. L |-> r[i]]
      BY <1>4
    <3> QED
      BY <2>4, <3>1, <3>2
  <2> QED
    BY <2>3, <2>4
<1>7. CASE Has("out")
  <2>1. r[b + 1] = "out"
    BY <1>2, <1>3, <1>4, <1>7
  <2> HIDE DEF r
  <2>2. Length(Replaced) = (Length(r) - PieceLength("out")) + PieceLength("tmp_out")
    BY <1>3, <1>4, <1>6, <1>7, <2>1, LengthWith
  <2>3. PieceLength("out") = 10 /\ PieceLength("tmp_out") = OutLen
    BY DEF PieceLength
  <2>4. Length(Replaced) = Length(r) + (OutLen - 10) /\ OutLen \in Nat
    BY <1>5, <2>2, <2>3, LengthsAssumption
  <2>5. Size = Length(r) + (OutLen - 10)
    BY <1>5, <1>7 DEF Size
  <2> QED
    BY <1>5, <2>4, <2>5
<1>8. CASE ~Has("out")
  <2> HIDE DEF r
  <2>1. Length(Replaced) = Length(r)
    BY <1>6, <1>8
  <2>2. Size = Length(r)
    BY <1>5, <1>8 DEF Size
  <2> QED
    BY <1>5, <2>1, <2>2
<1> QED
  BY <1>7, <1>8

-----------------------------------------------------------------------------
(* The offsets of the index.                                                 *)

\* Of the lines t and a sentinel s: where line i starts, the number of the
\* first n lines that begin a record, the k-th line that does, the offsets of
\* those among the first n, the size of the file.
StartOf(t, i) == MapThenSumSet(LAMBDA j : t[j].len + 1, 1 .. (i - 1))
CountOf(t, s, n) == Cardinality({j \in 1 .. n : IsPrefix(s, t[j].head)})
LineOf(t, s, k) ==
    CHOOSE i \in DOMAIN t : IsPrefix(s, t[i].head) /\ CountOf(t, s, i) = k
FoundOf(t, s, n) == [k \in 1 .. CountOf(t, s, n) |-> StartOf(t, LineOf(t, s, k))]
SizeOf(t, nl) == StartOf(t, Len(t) + 1) - IF nl THEN 0 ELSE 1
EndedOf(t, nl, s) == nl \/ ~IsPrefix(s, Last(t).head)

TextLine == [head : Text, len : Nat]

\* What lines are, and where the stream is in them.
InputOK ==
    /\ text \in Seq(TextLine)
    /\ newline \in BOOLEAN /\ (text = <<>> => newline)
    /\ got \in 0 .. Len(text)
    /\ tell = IF got = Len(text) /\ ~newline THEN -1 ELSE StartOf(text, got + 1)

\* The index has the offsets found in the lines that were read.  Before the
\* first of them the sentinel may still change.
IndexOK ==
    /\ InputOK
    /\ got = 0 /\ ~done => index = <<>>
    /\ done => got = Len(text)
    /\ EndedOf(text, newline, sentinel) =>
          index = IF done THEN Append(FoundOf(text, sentinel, got), SizeOf(text, newline))
                  ELSE FoundOf(text, sentinel, got)

\* What line j adds to the offset of those after it.
Widths(t) == [j \in Nat |-> t[j].len + 1]

\* A line starts where the widths of those before it add up to.
LEMMA StartIsSum ==
  ASSUME NEW t, NEW i \in Nat
  PROVE  StartOf(t, i) = Sum(Widths(t), 1 .. (i - 1))
<1> DEFINE S == 1 .. (i - 1)
           w == Widths(t)
           g(j) == t[j].len + 1
           Iter(f) == [r \in SUBSET S |->
              IF r = {} THEN 0
              ELSE g(CHOOSE x \in r : TRUE) + f[r \ {CHOOSE x \in r : TRUE}]]
           c == CHOOSE f : f = Iter(f)
<1>1. StartOf(t, i) = c[S]
  BY DEF StartOf, MapThenSumSet, MapThenFoldSet
<1>2. \A x \in S : w[x] = g(x)
  BY DEF Widths
<1>3. IsFiniteSet(S)
  BY FS_Interval
<1> HIDE DEF g, w, S
<1>4. ASSUME NEW f
      PROVE  f = Iter(f) <=> Adding(f, w, S)
  <2>1. ASSUME NEW r \in SUBSET S
        PROVE  Step(f, w, r) = IF r = {} THEN 0
                 ELSE g(CHOOSE x \in r : TRUE) + f[r \ {CHOOSE x \in r : TRUE}]
    <3>1. r # {} => Some(r) \in S
      BY SomeIn
    <3> QED
      BY <1>2, <3>1 DEF Step, Some
  <2>2. Iter(f) = [r \in SUBSET S |-> Step(f, w, r)]
    BY <2>1
  <2> HIDE DEF Iter
  <2> QED
    BY <2>2 DEF Adding
<1> HIDE DEF Iter
<1>5. c = Iter(c)
  <2>1. PICK f : Adding(f, w, S)
    BY <1>3, AddingExists
  <2>2. f = Iter(f)
    BY <1>4, <2>1
  <2> QED
    BY <2>2
<1>6. Adding(c, w, S)
  BY <1>4, <1>5
<1> HIDE DEF c
<1>7. c[S] = Sum(w, S)
  BY <1>3, <1>6, SumIs
<1> QED
  BY <1>1, <1>7 DEF w, S

\* The first line starts at 0, each other one after the one before it.
LEMMA StartNext ==
  ASSUME NEW t \in Seq(TextLine)
  PROVE  /\ StartOf(t, 1) = 0
         /\ \A i \in 1 .. Len(t) :
               /\ StartOf(t, i) \in Int
               /\ StartOf(t, i + 1) = StartOf(t, i) + t[i].len + 1
<1>1. StartOf(t, 1) = 0
  <2>1. StartOf(t, 1) = Sum(Widths(t), 1 .. 0)
    BY StartIsSum
  <2>2. 1 .. 0 = {}
    OBVIOUS
  <2> QED
    BY <2>1, <2>2, SumEmpty
<1>2. ASSUME NEW i \in 1 .. Len(t)
      PROVE  /\ StartOf(t, i) \in Int
             /\ StartOf(t, i + 1) = StartOf(t, i) + t[i].len + 1
  <2> DEFINE m == Widths(t)
  <2>1. \A j \in 1 .. i : j \in Nat /\ j \in 1 .. Len(t) /\ t[j].len \in Nat
    <3> SUFFICES ASSUME NEW j \in 1 .. i
                 PROVE  j \in Nat /\ j \in 1 .. Len(t) /\ t[j].len \in Nat
      OBVIOUS
    <3>1. j \in 1 .. Len(t)
      OBVIOUS
    <3>2. t[j] \in TextLine
      BY <3>1
    <3> QED
      BY <3>1, <3>2 DEF TextLine
  <2>2. Weights(m, 1 .. i) /\ m[i] = t[i].len + 1 /\ m[i] \in Int
    BY <2>1 DEF Weights, Widths
  <2>3. StartOf(t, i) = Sum(m, 1 .. (i - 1)) /\ StartOf(t, i + 1) = Sum(m, 1 .. ((i + 1) - 1))
    BY StartIsSum
  <2> HIDE DEF m
  <2>4. /\ Sum(m, 1 .. (i - 1)) \in Int
        /\ Sum(m, 1 .. ((i + 1) - 1)) = m[i] + Sum(m, 1 .. (i - 1))
    <3>1. 1 \in Int /\ i \in Int /\ 1 <= i
      OBVIOUS
    <3> QED
      BY ONLY <2>2, <3>1, SumNext
  <2>5. t[i].len \in Int
    BY <2>1
  <2> QED
    BY <2>2, <2>3, <2>4, <2>5
<1> QED
  BY <1>1, <1>2

\* The lines that begin a record among the first n, one of them more.
LEMMA CountNext ==
  ASSUME NEW t, NEW s, NEW n \in Nat
  PROVE  /\ CountOf(t, s, n) \in Nat
         /\ CountOf(t, s, 0) = 0
         /\ n > 0 => CountOf(t, s, n) = CountOf(t, s, n - 1)
                                          + IF IsPrefix(s, t[n].head) THEN 1 ELSE 0
<1> DEFINE B(k) == {j \in 1 .. k : IsPrefix(s, t[j].head)}
<1>1. \A k \in Int : IsFiniteSet(B(k)) /\ Cardinality(B(k)) \in Nat
  <2>1. \A k \in Int : IsFiniteSet(1 .. k)
    BY FS_Interval
  <2> QED
    BY <2>1, FS_Subset, FS_CardinalityType
<1>2. B(0) = {}
  OBVIOUS
<1>3. ASSUME n > 0
      PROVE  Cardinality(B(n)) = Cardinality(B(n - 1))
                                   + IF IsPrefix(s, t[n].head) THEN 1 ELSE 0
  <2>1. n \notin B(n - 1) /\ n - 1 \in Int
    OBVIOUS
  <2>2. B(n) = IF IsPrefix(s, t[n].head) THEN B(n - 1) \cup {n} ELSE B(n - 1)
    BY <1>3
  <2>3. IsFiniteSet(B(n - 1)) /\ Cardinality(B(n - 1)) \in Nat
    BY <1>1, <2>1
  <2> HIDE DEF B
  <2>4. Cardinality(B(n - 1) \cup {n}) = Cardinality(B(n - 1)) + 1
    BY <2>1, <2>3, FS_AddElement
  <2> QED
    BY <2>2, <2>3, <2>4
<1>4. \A k : CountOf(t, s, k) = Cardinality(B(k))
  BY DEF CountOf
<1> HIDE DEF B
<1> QED
  BY <1>1, <1>2, <1>3, <1>4, FS_EmptySet

\* Of two lines that begin a record the later one has the larger number.
LEMMA CountGrows ==
  ASSUME NEW t, NEW s, NEW i \in Nat, NEW k \in Nat, i < k, IsPrefix(s, t[k].head)
  PROVE  CountOf(t, s, i) < CountOf(t, s, k)
<1> DEFINE A == {j \in 1 .. i : IsPrefix(s, t[j].head)}
           B == {j \in 1 .. k : IsPrefix(s, t[j].head)}
<1>1. A \subseteq B /\ k \in B /\ k \notin A
  OBVIOUS
<1>2. IsFiniteSet(B)
  <2>1. IsFiniteSet(1 .. k)
    BY FS_Interval
  <2> QED
    BY <2>1, FS_Subset
<1>3. CountOf(t, s, i) = Cardinality(A) /\ CountOf(t, s, k) = Cardinality(B)
  BY DEF CountOf
<1> HIDE DEF A, B
<1>4. IsFiniteSet(A) /\ Cardinality(A) \in Nat /\ Cardinality(B) \in Nat
  BY <1>1, <1>2, FS_Subset, FS_CardinalityType
<1>5. Cardinality(A) <= Cardinality(B) /\ Cardinality(A) # Cardinality(B)
  BY <1>1, <1>2, FS_Subset
<1> QED
  BY <1>3, <1>4, <1>5

\* A sequence with its next element.
LEMMA AppendNext ==
  ASSUME NEW c \in Nat, NEW g
  PROVE  Append([k \in 1 .. c |-> g[k]], g[c + 1]) = [k \in 1 .. (c + 1) |-> g[k]]
<1> DEFINE V == {g[k] : k \in 1 .. (c + 1)}
           e == [k \in 1 .. c |-> g[k]]
<1>1. e \in Seq(V) /\ Len(e) = c
  <2>1. \A k \in 1 .. c : g[k] \in V
    OBVIOUS
  <2> HIDE DEF V
  <2> QED
    BY <2>1
<1>2. g[c + 1] \in V
  OBVIOUS
<1>3. \A k \in 1 .. c : e[k] = g[k]
  OBVIOUS
<1> HIDE DEF e, V
<1>4. /\ Append(e, g[c + 1]) \in Seq(V) /\ Len(Append(e, g[c + 1])) = c + 1
      /\ \A k \in 1 .. (c + 1) : Append(e, g[c + 1])[k] = g[k]
  BY <1>1, <1>2, <1>3
<1>5. Append(e, g[c + 1]) = [k \in 1 .. (c + 1) |-> g[k]]
  BY <1>4
<1> QED
  BY <1>5 DEF e

\* The last of n lines is found if it begins a record, and changes nothing else.
LEMMA FoundNext ==
  ASSUME NEW t \in Seq(TextLine), NEW s, NEW n \in 1 .. Len(t)
  PROVE  FoundOf(t, s, n) = IF IsPrefix(s, t[n].head)
                            THEN Append(FoundOf(t, s, n - 1), StartOf(t, n))
                            ELSE FoundOf(t, s, n - 1)
<1> DEFINE c == CountOf(t, s, n - 1)
           g == [k \in 1 .. (c + 1) |-> StartOf(t, LineOf(t, s, k))]
<1>1. c \in Nat /\ CountOf(t, s, n) = c + IF IsPrefix(s, t[n].head) THEN 1 ELSE 0
  BY CountNext
<1>2. /\ FoundOf(t, s, n - 1) = [k \in 1 .. c |-> g[k]]
      /\ IsPrefix(s, t[n].head) => FoundOf(t, s, n) = [k \in 1 .. (c + 1) |-> g[k]]
      /\ ~IsPrefix(s, t[n].head) => FoundOf(t, s, n) = [k \in 1 .. c |-> g[k]]
  BY <1>1 DEF FoundOf
<1>3. CASE ~IsPrefix(s, t[n].head)
  BY <1>1, <1>2, <1>3
<1>4. CASE IsPrefix(s, t[n].head)
  <2>1. LineOf(t, s, c + 1) = n
    <3>1. n \in DOMAIN t /\ CountOf(t, s, n) = c + 1
      BY <1>1, <1>4
    <3>2. ASSUME NEW i \in DOMAIN t, IsPrefix(s, t[i].head), CountOf(t, s, i) = c + 1
          PROVE  i = n
      <4>1. i \in Nat /\ n \in Nat
        OBVIOUS
      <4>2. ~(i < n) /\ ~(n < i)
        BY <1>1, <1>4, <3>1, <3>2, <4>1, CountGrows
      <4> QED
        BY <4>1, <4>2
    <3> HIDE DEF c
    <3> QED
      BY <1>4, <3>1, <3>2 DEF LineOf
  <2>2. g[c + 1] = StartOf(t, n)
    BY <1>1, <2>1
  <2> HIDE DEF g, c
  <2>3. Append([k \in 1 .. c |-> g[k]], g[c + 1]) = [k \in 1 .. (c + 1) |-> g[k]]
    BY <1>1, AppendNext
  <2> QED
    BY <1>2, <1>4, <2>2, <2>3
<1> QED
  BY <1>3, <1>4

\* Nothing has been read: it holds at first.
LEMMA InitIndex == Init => IndexOK
<1> SUFFICES ASSUME Init PROVE IndexOK
  OBVIOUS
<1>1. PICK i \in Inputs : text = i.text
  BY DEF Init
<1>2. text \in Seq(TextLine)
  BY <1>1, InputsType DEF Text, TextLine
<1>3. /\ newline \in BOOLEAN /\ (text = <<>> => newline)
      /\ got = 0 /\ tell = 0 /\ index = <<>> /\ ~done
  BY DEF Init, IndexInit, Ended
<1>4. got = Len(text) => text = <<>>
  BY <1>2, <1>3
<1>5. tell = IF got = Len(text) /\ ~newline THEN -1 ELSE StartOf(text, got + 1)
  <2>1. StartOf(text, 1) = 0 /\ got + 1 = 1
    BY <1>2, <1>3, StartNext
  <2> QED
    BY <1>3, <1>4, <2>1
<1>6. FoundOf(text, sentinel, 0) = <<>>
  BY CountNext DEF FoundOf
<1>7. got \in 0 .. Len(text)
  BY <1>2, <1>3
<1> QED
  BY <1>2, <1>3, <1>5, <1>6, <1>7 DEF IndexOK, InputOK

\* Every step keeps it.
LEMMA NextIndex == IndexOK /\ [Next]_vars => IndexOK'
<1> SUFFICES ASSUME IndexOK, [Next]_vars PROVE IndexOK'
  OBVIOUS
<1>1. CASE UNCHANGED indexVars
  BY <1>1 DEF indexVars, IndexOK, InputOK
<1>2. CASE HandOver
  <2>1. /\ got = 0 /\ ~done
        /\ UNCHANGED <<text, newline, got, tell, index, done>>
    BY <1>2 DEF HandOver
  <2>2. FoundOf(text, sentinel', 0) = <<>>
    BY CountNext DEF FoundOf
  <2> QED
    BY <2>1, <2>2 DEF IndexOK, InputOK
<1>3. CASE NextLine
  <2> DEFINE n == got + 1
             l == text[n]
  <2>1. /\ ~done /\ got < Len(text) /\ got' = n
        /\ tell' = IF n = Len(text) /\ ~newline THEN -1 ELSE tell + l.len + 1
        /\ index' = IF IsPrefix(sentinel, l.head) THEN Append(index, tell' - l.len - 1)
                    ELSE index
        /\ UNCHANGED <<text, newline, sentinel, done>>
    BY <1>3 DEF NextLine, Sent, Offset
  <2>2. /\ n \in 1 .. Len(text) /\ n - 1 = got /\ got # Len(text) /\ Len(text) \in Nat
        /\ n \in Nat /\ n # 0 /\ l.len \in Nat /\ text # <<>>
    <3>1. got \in 0 .. Len(text) /\ text \in Seq(TextLine)
      BY DEF IndexOK, InputOK
    <3>2. n \in 1 .. Len(text) /\ n - 1 = got /\ got # Len(text) /\ Len(text) \in Nat
          /\ n \in Nat /\ n # 0
      BY <2>1, <3>1
    <3> HIDE DEF n
    <3>3. text[n] \in TextLine /\ text # <<>>
      BY <3>1, <3>2
    <3> QED
      BY <3>2, <3>3 DEF TextLine
  <2>3. tell = StartOf(text, n) /\ tell \in Int
        /\ StartOf(text, n + 1) = tell + l.len + 1
    BY <2>1, <2>2, StartNext DEF IndexOK, InputOK
  <2>4. InputOK'
    BY <2>1, <2>2, <2>3 DEF IndexOK, InputOK
  <2>5. FoundOf(text, sentinel, n) = IF IsPrefix(sentinel, l.head)
                                     THEN Append(FoundOf(text, sentinel, got), tell)
                                     ELSE FoundOf(text, sentinel, got)
    BY <2>2, <2>3, FoundNext DEF IndexOK, InputOK
  <2>6. ASSUME EndedOf(text, newline, sentinel)
        PROVE  index' = FoundOf(text, sentinel, n)
    <3>1. index = FoundOf(text, sentinel, got)
      BY <2>1, <2>6 DEF IndexOK
    <3>2. CASE IsPrefix(sentinel, l.head)
      <4>1. ~(n = Len(text) /\ ~newline)
        BY <2>2, <2>6, <3>2 DEF EndedOf, Last
      <4>2. tell' = tell + l.len + 1
        BY <2>1, <4>1
      <4>3. tell' - l.len - 1 = tell
        BY <2>2, <2>3, <4>2
      <4> HIDE DEF l
      <4> QED
        BY <2>1, <2>5, <3>1, <3>2, <4>3
    <3>3. CASE ~IsPrefix(sentinel, l.head)
      BY <2>1, <2>5, <3>1, <3>3
    <3> QED
      BY <3>2, <3>3
  <2> HIDE DEF n, l
  <2> QED
    BY <2>1, <2>2, <2>4, <2>6 DEF IndexOK
<1>4. CASE Finish
  <2>1. /\ ~done /\ got = Len(text) /\ done'
        /\ index' = Append(index, SizeOf(text, newline))
        /\ UNCHANGED <<text, newline, sentinel, got, tell>>
    BY <1>4 DEF Finish, FileSize, SizeOf, Start, StartOf
  <2> QED
    BY <2>1 DEF IndexOK, InputOK
<1> QED
  BY <1>1, <1>2, <1>3, <1>4 DEF Next, GetConf, GetIndex, Format, vars, indexVars

\* Once the constructor has returned the index is what it should be.
LEMMA IndexIsRight == IndexOK => EndedOffsetsRight
<1> SUFFICES ASSUME IndexOK, EndedOf(text, newline, sentinel), done
             PROVE  index = Append(Wanted, FileSize)
  BY DEF EndedOffsetsRight, OffsetsRight, EndedOf, Sent
<1>1. DOMAIN text = 1 .. Len(text)
  BY DEF IndexOK, InputOK
<1>2. FoundOf(text, sentinel, Len(text)) = Wanted
  BY <1>1 DEF Wanted, FoundOf, CountOf, LineOf, StartOf, Start, Sent
<1>3. SizeOf(text, newline) = FileSize
  BY DEF SizeOf, FileSize, StartOf, Start
<1> QED
  BY <1>2, <1>3 DEF IndexOK

-----------------------------------------------------------------------------
(* From the files to the command.                                            *)

\* Every line of PRGM has its '=' and a sensible command.
PrgmLines ==
    \A k \in 1 .. Len(file) :
        IsPrefix(PRGM, file[k].key) => file[k].sep /\ Sensible(Trim(file[k].value))

\* A command is formatted after the configuration and the index were read: the
\* values it was made of change no more.
IInv ==
    /\ ConfType /\ OwnValueIfWellFormed
    /\ PrgmLines /\ Sensible(conf[PRGM])
    /\ cmd \in Text /\ Sensible(cmd)
    /\ Formatted => done /\ ConfRead
    /\ FilesInPlace /\ FillsItsBuffer

\* No record is set, no command is made: it holds at first.
LEMMA InitIInv == Init => IInv
<1> SUFFICES ASSUME Init PROVE IInv
  OBVIOUS
<1>1. PICK i \in Inputs : file = i.conf
  BY DEF Init
<1>2. /\ file \in Lines /\ Len(file) \in Nat /\ DOMAIN file = 1 .. Len(file)
  BY <1>1, InputsType DEF Lines, Text
<1>3. PrgmLines
  BY <1>1, <1>2, InputsAssumption DEF PrgmLines, PRGM
<1>4. lines_read = 0 /\ field_value = <<>> /\ conf = [f \in Field |-> <<>>]
      /\ cmd = <<>> /\ f_cmd = <<>> /\ allocated = 0
  BY DEF Init, ConfInit, CommandInit
<1>5. <<>> \in Text
  BY DEF Text
<1>6. ConfType
  BY <1>2, <1>4, <1>5 DEF ConfType
<1>7. OwnValueIfWellFormed
  <2>1. \A f \in Field : Setting(f) = {}
    BY <1>4 DEF Setting
  <2> QED
    BY <1>4, <2>1 DEF OwnValueIfWellFormed, OwnValue
<1>8. PRGM \in Field
  BY NamesAre DEF Field
<1>9. Sensible(<<>>)
  BY DEF Sensible
<1> QED
  BY <1>3, <1>4, <1>5, <1>6, <1>7, <1>8, <1>9
     DEF IInv, Formatted, FilesInPlace, FillsItsBuffer

\* The value PRGM has is a sensible command: the last line that set it had one.
LEMMA PrgmSensible ==
  ASSUME ConfType, PrgmLines, Sensible(conf[PRGM]), ReadLine
  PROVE  Sensible(conf'[PRGM])
<1> DEFINE n == lines_read + 1
           l == file[n]
           v == IF l.sep THEN l.value ELSE field_value
<1>1. n \in 1 .. Len(file) /\ PRGM \in Field
  BY NamesAre DEF ConfType, ReadLine, Field
<1>2. l.key \in Text /\ conf \in [Field -> Text]
  BY <1>1, LineParts DEF ConfType
<1>3. CASE PRGM \in Matching(l.key)
  <2>1. IsPrefix(PRGM, l.key)
    BY <1>1, <1>2, <1>3, FirstIsLongest
  <2>2. l.sep /\ Sensible(Trim(l.value))
    BY <1>1, <2>1 DEF PrgmLines
  <2>3. conf' = conf \/ conf'[PRGM] = Trim(v)
    BY <1>1, <1>3 DEF ReadLine
  <2> QED
    BY <2>2, <2>3
<1>4. CASE PRGM \notin Matching(l.key)
  <2>1. conf' = conf \/ conf'[PRGM] = conf[PRGM]
    BY <1>1, <1>4 DEF ReadLine
  <2> QED
    BY <2>1
<1> QED
  BY <1>3, <1>4

\* What is said of the configuration depends on nothing else.
LEMMA SameConf ==
  ASSUME UNCHANGED confVars
  PROVE  /\ ConfType => ConfType'
         /\ OwnValueIfWellFormed => OwnValueIfWellFormed'
         /\ PrgmLines => PrgmLines'
         /\ ConfRead' <=> ConfRead
         /\ conf' = conf
<1>1. file' = file /\ lines_read' = lines_read /\ field_value' = field_value /\ conf' = conf
  BY DEF confVars
<1>2. \A f : Setting(f)' = Setting(f)
  BY <1>1 DEF Setting
<1>3. OwnValue' <=> OwnValue
  BY <1>1, <1>2 DEF OwnValue
<1>4. OwnValueIfWellFormed' <=> OwnValueIfWellFormed
  BY <1>1, <1>3 DEF OwnValueIfWellFormed
<1> QED
  BY <1>1, <1>4 DEF ConfType, PrgmLines, ConfRead

\* And of the command.
LEMMA SameCommand ==
  ASSUME UNCHANGED commandVars
  PROVE  /\ FilesInPlace => FilesInPlace'
         /\ FillsItsBuffer => FillsItsBuffer'
         /\ Formatted' <=> Formatted
         /\ cmd' = cmd
<1>1. cmd' = cmd /\ f_cmd' = f_cmd /\ allocated' = allocated
  BY DEF commandVars
<1>2. Replaced' = Replaced
  BY <1>1 DEF Replaced, Find, SelectInSeq
<1>3. Length(f_cmd)' = Length(f_cmd)
  BY <1>1
<1> QED
  BY <1>1, <1>2, <1>3 DEF FilesInPlace, FillsItsBuffer, Formatted, Replaced

\* Every step keeps it.
LEMMA NextIInv == IInv /\ [Next]_vars => IInv'
<1> SUFFICES ASSUME IInv, [Next]_vars PROVE IInv'
  OBVIOUS
<1>1. CASE GetConf
  <2>1. ReadLine /\ UNCHANGED commandVars /\ done' = done /\ ~ConfRead /\ file' = file
    BY <1>1 DEF GetConf, ReadLine, ConfRead, indexVars, IInv, ConfType
  <2>2. ConfType' /\ OwnValueIfWellFormed'
    BY <2>1, ReadLineType, ReadLineOwn DEF IInv
  <2>3. Sensible(conf'[PRGM])
    BY <2>1, PrgmSensible DEF IInv
  <2>4. PrgmLines'
    BY <2>1 DEF IInv, PrgmLines
  <2>5. ~Formatted' /\ cmd' = cmd
    BY <2>1 DEF IInv, Formatted, commandVars
  <2> QED
    BY <2>2, <2>3, <2>4, <2>5 DEF IInv, FilesInPlace, FillsItsBuffer
<1>2. CASE HandOver
  <2>1. /\ UNCHANGED confVars /\ ~Formatted /\ allocated' = allocated
        /\ cmd' = conf[PRGM] /\ done' = done
    BY <1>2 DEF HandOver, IInv, PRGM
  <2>2. PRGM \in Field
    BY NamesAre DEF Field
  <2>3. cmd' \in Text
    BY <2>1, <2>2 DEF IInv, ConfType
  <2>4. /\ ConfType' /\ OwnValueIfWellFormed' /\ PrgmLines'
    BY <2>1, SameConf DEF IInv
  <2>5. ~Formatted' /\ conf' = conf
    BY <2>1 DEF Formatted, confVars
  <2> QED
    BY <2>1, <2>3, <2>4, <2>5 DEF IInv, FilesInPlace, FillsItsBuffer
<1>3. CASE GetIndex
  <2>1. UNCHANGED <<confVars, commandVars>> /\ (done => done')
    BY <1>3 DEF GetIndex, NextLine, Finish
  <2>2. conf' = conf /\ ConfType' /\ OwnValueIfWellFormed' /\ PrgmLines' /\ (ConfRead' <=> ConfRead)
    BY <2>1, SameConf DEF IInv
  <2>3. cmd' = cmd /\ FilesInPlace' /\ FillsItsBuffer' /\ (Formatted' <=> Formatted)
    BY <2>1, SameCommand DEF IInv
  <2>4. Sensible(conf'[PRGM]) /\ Sensible(cmd') /\ cmd' \in Text
    BY <2>2, <2>3 DEF IInv
  <2> QED
    BY <2>1, <2>2, <2>3, <2>4 DEF IInv
<1>4. CASE Format
  <2>1. UNCHANGED confVars /\ done /\ done' = done /\ ConfRead /\ format_cmd /\ cmd' = cmd
    BY <1>4 DEF Format, Ready, indexVars, format_cmd
  <2>2. f_cmd' = Replaced
    BY <2>1, SpliceReplaces DEF IInv
  <2>3. Replaced' = Replaced
    BY <2>1 DEF Replaced, Find, SelectInSeq
  <2>4. FilesInPlace'
    BY <2>2, <2>3 DEF FilesInPlace, Replaced
  <2>5. conf' = conf /\ ConfType' /\ OwnValueIfWellFormed' /\ PrgmLines' /\ ConfRead'
    BY <2>1, SameConf DEF IInv
  <2>6. Sensible(conf'[PRGM]) /\ Sensible(cmd') /\ cmd' \in Text
    BY <2>1, <2>5 DEF IInv
  <2>7. FillsItsBuffer'
    <3>1. Length(Replaced) = Size /\ Size \in Int /\ allocated' = Size + 1
      BY <2>1, ReplacedFits DEF IInv, format_cmd
    <3>2. Length(f_cmd)' = Length(Replaced)
      BY <2>2
    <3> QED
      BY <3>1, <3>2 DEF FillsItsBuffer
  <2> QED
    BY <2>1, <2>4, <2>5, <2>6, <2>7 DEF IInv
<1>5. CASE UNCHANGED vars
  <2>1. UNCHANGED <<confVars, commandVars>> /\ done' = done
    BY <1>5 DEF vars, indexVars
  <2>2. conf' = conf /\ ConfType' /\ OwnValueIfWellFormed' /\ PrgmLines' /\ (ConfRead' <=> ConfRead)
    BY <2>1, SameConf DEF IInv
  <2>3. cmd' = cmd /\ FilesInPlace' /\ FillsItsBuffer' /\ (Formatted' <=> Formatted)
    BY <2>1, SameCommand DEF IInv
  <2>4. Sensible(conf'[PRGM]) /\ Sensible(cmd') /\ cmd' \in Text
    BY <2>2, <2>3 DEF IInv
  <2> QED
    BY <2>1, <2>2, <2>3, <2>4 DEF IInv
<1> QED
  BY <1>1, <1>2, <1>3, <1>4, <1>5 DEF Next

\* The value of a field is what stands on the last line that names it, however
\* long the file, as long as no line lacks its '=' (Conf.cpp 66 ff.).
THEOREM FieldsKeepTheirOwn == Spec => []OwnValueIfWellFormed
<1>1. IInv => OwnValueIfWellFormed
  BY DEF IInv
<1> QED
  BY InitIInv, NextIInv, <1>1, PTL DEF Spec

\* The command a client runs is PRGM with its two files in place of its two
\* words, in any order, one or both of them missing (utils.c).
THEOREM CommandNamesItsFiles == Spec => []FilesInPlace
<1>1. IInv => FilesInPlace
  BY DEF IInv
<1> QED
  BY InitIInv, NextIInv, <1>1, PTL DEF Spec

\* The command fills, with its NUL, exactly the bytes that were allocated for it
\* before it was written, whatever the lengths of the two names (utils.c).
THEOREM CommandFits == Spec => []FillsItsBuffer
<1>1. IInv => FillsItsBuffer
  BY DEF IInv
<1> QED
  BY InitIInv, NextIInv, <1>1, PTL DEF Spec

\* The index has the offset of every line that begins a record, and the size of
\* the file, whatever the lengths of the lines, when the last line is ended or
\* begins no record (Index.cpp).
THEOREM OffsetsOfRecords == Spec => []EndedOffsetsRight
  BY InitIndex, NextIndex, IndexIsRight, PTL DEF Spec
=============================================================================
