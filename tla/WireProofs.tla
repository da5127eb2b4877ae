------------------------------ MODULE WireProofs ------------------------------
(* Proofs about Wire.  While every delivery comes whole, each side is always at *)
(* a place in its message that the other side and the two streams agree on:     *)
(* what is written and not read of a PUT is the rest of it, of a GET the rest   *)
(* of the answer, and nothing else is in the streams (TwoSides).                *)
EXTENDS Wire, SequenceTheorems, TLAPS

\* A word in a stream, and a stream of which everything has arrived.
Item == [kind : {"action", "data", "other"}, v : Nat]
Stream == [q : Seq(Item), n : Nat]
Arrived(s) == s \in Stream /\ s.n = Len(s.q)

Asked(v) == <<[kind |-> "action", v |-> v]>>
Other(v) == <<[kind |-> "other", v |-> v]>>

\* Words of result r that come before field k + 1.
PutStart(r, k) == CASE k = 0 -> 0 [] k = 1 -> 2 [] k = 2 -> 4 [] k = 3 -> 5
                    [] k = 4 -> 7 [] k = 5 -> 9 [] k = 6 -> 11
                    [] OTHER -> 11 + Len(r.data)

\* Word p of what C_put writes before the data.
PutWord(r, p) == CASE p = 1 -> 2 [] p = 3 -> 3 [] p = 5 -> r.rt [] p = 6 -> 9
                   [] p = 8 -> Len(r.data)
                   [] p = 10 -> MD5(r.data)[1] [] p = 11 -> MD5(r.data)[2]
                   [] OTHER -> 0

\* Word x can be word p of the data of r when it arrives.
DataWord(r, p, x) == x.kind = "data" /\ x.v \in {r.data[p], 6}

\* The client has written m fields of r, and then tail; the server has read the
\* fields got of it; stream s has the rest.
Putting(s, got, r, m, tail) ==
    LET b == PutStart(r, Len(got))
        e == PutStart(r, m)
    IN  /\ Len(got) \in 0 .. 6 /\ m \in 0 .. 7 /\ Len(got) <= m
        /\ Len(s.q) = e - b + Len(tail)
        /\ \A p \in (b + 1) .. e :
              IF p <= 11 THEN s.q[p - b] = [kind |-> "other", v |-> PutWord(r, p)]
              ELSE DataWord(r, p - 11, s.q[p - b])
        /\ \A i \in 1 .. Len(tail) : s.q[e - b + i] = tail[i]
        /\ \A j \in 1 .. Len(got) : got[j] = PutMessage(r)[j]

\* Words of the answer to a GET that come before field k + 1.
GetStart(k) == CASE k = 0 -> 0 [] k = 1 -> 2 [] k = 2 -> 4 [] k = 3 -> 6
                 [] k = 4 -> 8 [] k = 5 -> 10 [] k = 6 -> 11 [] OTHER -> 13

\* Word p of it, the flag before it and the sizes of the command and the chunk.
GetWord(p) == CASE p = 5 -> 1 [] p = 7 -> 2 [] OTHER -> 0

\* The client has read b words of the answer; stream s has the rest.
Getting(s, b) ==
    /\ Len(s.q) = 13 - b
    /\ \A p \in (b + 1) .. 13 :
          p \in {0, 5, 6, 7, 8} => s.q[p - b] = [kind |-> "other", v |-> GetWord(p)]

\* What the client knows of the sizes.
Sizes(got) == /\ Len(got) >= 3 => got[3] = <<1, 0>>
              /\ Len(got) >= 4 => got[4] = <<2, 0>>

Word(c) == CASE c = "GET" -> PLD_GET [] c = "PUT" -> PLD_PUT
             [] c = "PING" -> PLD_PING [] OTHER -> PLD_INFO

\* An action is asked for and the server has not seen it, or has answered it.
Waited ==
    \/ spc = "wait" /\ up.q = Asked(Word(cpc)) /\ down.q = <<>>
    \/ cpc = "GET" /\ spc = "put" /\ Putting(up, sgot, result, 7, Asked(PLD_GET))
       /\ down.q = <<>>
    \/ cpc = "GET" /\ up.q = <<>> /\ spc = "wait" /\ Getting(down, 0 - 1)
    \/ cpc = "GET" /\ up.q = <<>> /\ spc = "closed" /\ down.q = Other(PLD_SIG_STOP)
    \/ cpc = "PUT" /\ up.q = <<>> /\ spc = "put" /\ sgot = <<>> /\ Len(down.q) = 1
    \/ cpc = "PING" /\ up.q = <<>> /\ spc = "pong" /\ Len(down.q) = 1
    \/ cpc = "INFO" /\ up.q = <<>> /\ spc = "wait"

Idle ==
    /\ down.q = <<>>
    /\ \/ spc = "wait" /\ up.q = <<>>
       \/ cpc = "idle" /\ spc = "put" /\ Putting(up, sgot, result, 7, <<>>)

InGet == /\ spc = "wait" /\ up.q = <<>>
         /\ Len(cgot) \in 0 .. 6 /\ Getting(down, GetStart(Len(cgot))) /\ Sizes(cgot)

\* A server that needs no words for the data does not wait for the client.
InPut == /\ down.q = <<>>
         /\ Len(cgot) \in 0 .. 6
         /\ \/ spc = "put" /\ Putting(up, sgot, result, Len(cgot), <<>>)
            \/ spc = "wait" /\ up.q = <<>> /\ Len(cgot) = 6 /\ result.data = <<>>

InPong == \/ spc = "pong" /\ up.q = Other(9) /\ down.q = <<>>
          \/ spc = "wait" /\ up.q = <<>> /\ Len(down.q) = 1

\* What the server still has to read of a client that is gone.
Gone ==
    \/ spc = "closed"
    \/ spc = "wait" /\ (up.q = <<>> \/ \E w \in Nat : up.q = Asked(w))
    \/ spc = "pong" /\ (up.q = <<>> \/ up.q = Other(9))
    \/ spc = "put" /\ \E m \in 0 .. 7 : Putting(up, sgot, result, m, <<>>)
    \/ spc = "put" /\ Putting(up, sgot, result, 7, Asked(PLD_GET))

Typed ==
    /\ Arrived(up) /\ Arrived(down)
    /\ result \in Result
    /\ cgot \in Seq(Seq(Nat)) /\ sgot \in Seq(Seq(Nat))
    /\ spc \in {"wait", "put", "pong", "closed"}
    /\ spc # "put" => sgot = <<>>
    /\ cpc \in Waiting \cup {"idle", "probe", "run", "get", "put", "ping", "pong", "info", "off"}
    /\ cpc \notin {"get", "put", "info"} => cgot = <<>>

Exchange ==
    /\ cpc \in {"idle", "probe", "run"} => Idle
    /\ cpc \in Waiting => Waited
    /\ cpc = "get" => InGet
    /\ cpc = "put" => InPut
    /\ cpc = "ping" => spc = "pong" /\ up.q = <<>> /\ down.q = <<>>
    /\ cpc = "pong" => InPong
    /\ cpc = "info" => spc = "wait" /\ up.q = <<>>
    /\ cpc = "off" => Gone

TwoSides == Typed /\ taken = "action" /\ AcceptedIntact /\ Exchange

WireInv ==
    /\ faults \in [{"splits", "bad", "deaths"} -> Nat]
    /\ Whole => TwoSides

-----------------------------------------------------------------------------
(* The streams.                                                              *)

\* Numbers of one and of two words.
LEMMA Numbers == \A x : Number(x, 1) = <<x>> /\ Number(x, 2) = <<x, 0>>
  BY DEF Number

\* A sequence of one element is the tuple of it.
LEMMA OneIs ==
  ASSUME NEW S, NEW s \in Seq(S), Len(s) = 1
  PROVE  s = <<s[1]>>
  OBVIOUS

\* A sequence of no element is the empty one.
LEMMA NoneIs ==
  ASSUME NEW S, NEW s \in Seq(S), Len(s) = 0
  PROVE  s = <<>>
  OBVIOUS

\* Sequence c is a with b after it.
Joined(c, a, b) == /\ Len(c) = Len(a) + Len(b)
                   /\ \A i \in 1 .. Len(a) : c[i] = a[i]
                   /\ \A i \in 1 .. Len(b) : c[Len(a) + i] = b[i]

\* One sequence after another.
LEMMA Concatenated ==
  ASSUME NEW S, NEW a \in Seq(S), NEW b \in Seq(S)
  PROVE  Joined(a \o b, a, b) /\ a \o b \in Seq(S)
  BY DEF Joined

\* The words of a field as items.
Items(f, kind) == [i \in DOMAIN f |-> [kind |-> kind, v |-> f[i]]]

\* One item for each word.
LEMMA ItemsIs ==
  ASSUME NEW f \in Seq(Nat), NEW kind \in {"action", "data", "other"}
  PROVE  /\ Items(f, kind) \in Seq(Item) /\ Len(Items(f, kind)) = Len(f)
         /\ \A i \in 1 .. Len(f) : Items(f, kind)[i] = [kind |-> kind, v |-> f[i]]
<1>1. DOMAIN f = 1 .. Len(f) /\ Len(f) \in Nat
  OBVIOUS
<1>2. \A i \in 1 .. Len(f) : [kind |-> kind, v |-> f[i]] \in Item
  BY DEF Item
<1> QED
  BY <1>1, <1>2 DEF Items

\* Stream t is s with the words of f after it.
Added(t, s, f, kind) ==
    /\ Arrived(t)
    /\ Len(t.q) = Len(s.q) + Len(f)
    /\ \A i \in 1 .. Len(s.q) : t.q[i] = s.q[i]
    /\ \A i \in 1 .. Len(f) : t.q[Len(s.q) + i] = [kind |-> kind, v |-> f[i]]

\* What is written comes after what is there, and arrives with it.
LEMMA WrittenIs ==
  ASSUME NEW s, Arrived(s), NEW f \in Seq(Nat), NEW kind \in {"action", "data", "other"}
  PROVE  Added(Written(s, f, kind), s, f, kind)
<1>1. Written(s, f, kind) = [q |-> s.q \o Items(f, kind), n |-> s.n + Len(f)]
  BY DEF Written, Arrived, Items
<1>2. s.q \in Seq(Item) /\ s.n = Len(s.q) /\ s.n \in Nat
  BY DEF Arrived, Stream
<1>3. Items(f, kind) \in Seq(Item) /\ Len(Items(f, kind)) = Len(f)
  BY ItemsIs
<1>4. \A i \in 1 .. Len(f) : Items(f, kind)[i] = [kind |-> kind, v |-> f[i]]
  BY ItemsIs
<1> DEFINE I == Items(f, kind)
<1>5. /\ s.q \o I \in Seq(Item) /\ Len(s.q \o I) = Len(s.q) + Len(I)
      /\ \A i \in 1 .. Len(s.q) : (s.q \o I)[i] = s.q[i]
      /\ \A i \in 1 .. Len(I) : (s.q \o I)[Len(s.q) + i] = I[i]
  <2> DEFINE q == s.q
  <2>1. I \in Seq(Item) /\ q \in Seq(Item)
    BY <1>2, <1>3
  <2> HIDE DEF I, q
  <2>2. /\ q \o I \in Seq(Item) /\ Len(q \o I) = Len(q) + Len(I)
        /\ \A i \in 1 .. Len(q) : (q \o I)[i] = q[i]
        /\ \A i \in 1 .. Len(I) : (q \o I)[Len(q) + i] = I[i]
    BY ONLY <2>1, Concatenated DEF Joined
  <2> QED
    BY ONLY <2>2 DEF q
<1> QED
  BY <1>1, <1>2, <1>3, <1>4, <1>5 DEF Arrived, Stream, Added

\* Words f have been taken from the front of stream s and t is left.
Taken(t, f, s, w) ==
    /\ Arrived(t)
    /\ Len(t.q) = Len(s.q) - w
    /\ \A i \in 1 .. (Len(s.q) - w) : t.q[i] = s.q[w + i]
    /\ f \in Seq(Nat) /\ Len(f) = w
    /\ \A i \in 1 .. w : f[i] = s.q[i].v

\* What is read is taken from the front.
LEMMA ReadIs ==
  ASSUME NEW s, Arrived(s), NEW w \in Nat, w <= Len(s.q)
  PROVE  Taken(Rest(s, w), Got(s, w), s, w)
<1>1. s.q \in Seq(Item) /\ s.n = Len(s.q) /\ s.n \in Nat
  BY DEF Arrived, Stream
<1>2. Got(s, w) = [i \in 1 .. w |-> s.q[i].v]
  BY <1>1 DEF Got
<1> DEFINE q == s.q
<1>a. \A i \in 1 .. w : q[i] \in Item
  <2> HIDE DEF q
  <2> SUFFICES q \in Seq(Item) /\ w <= Len(q)
    OBVIOUS
  <2> QED
    BY <1>1 DEF q
<1>3. \A i \in 1 .. w : s.q[i].v \in Nat
  BY <1>a DEF Item
<1>4. Got(s, w) \in Seq(Nat) /\ Len(Got(s, w)) = w
  BY <1>2, <1>3
<1>5. Rest(s, w) = [q |-> SubSeq(s.q, w + 1, Len(s.q)), n |-> s.n - w]
  BY <1>4 DEF Rest
<1>6. /\ SubSeq(s.q, w + 1, Len(s.q)) \in Seq(Item)
      /\ Len(SubSeq(s.q, w + 1, Len(s.q))) = Len(s.q) - w
      /\ \A i \in 1 .. (Len(s.q) - w) : SubSeq(s.q, w + 1, Len(s.q))[i] = s.q[w + i]
  BY <1>1
<1> QED
  BY <1>1, <1>2, <1>4, <1>5, <1>6 DEF Arrived, Stream, Taken

\* What is read and what is left are words and items, however many there are.
LEMMA ReadTyped ==
  ASSUME NEW s, Arrived(s), NEW w \in Nat
  PROVE  Arrived(Rest(s, w)) /\ Got(s, w) \in Seq(Nat)
<1>1. s.n = Len(s.q) /\ Len(s.q) \in Nat
  BY DEF Arrived, Stream
<1> DEFINE m == IF w < s.n THEN w ELSE s.n
<1>2. m \in Nat /\ m <= Len(s.q)
  BY <1>1
<1>3. Got(s, w) = Got(s, m)
  BY <1>1 DEF Got
<1>4. Rest(s, w) = Rest(s, m)
  BY <1>3 DEF Rest
<1> HIDE DEF m
<1>5. Taken(Rest(s, m), Got(s, m), s, m)
  BY <1>2, ReadIs
<1> QED
  BY <1>3, <1>4, <1>5 DEF Taken

\* Nothing is read of an empty stream.
LEMMA ReadNothing ==
  ASSUME NEW s, Arrived(s), s.q = <<>>, NEW w \in Nat
  PROVE  Arrived(Rest(s, w)) /\ Rest(s, w).q = <<>> /\ Got(s, w) = <<>>
<1>1. s.n = 0
  BY DEF Arrived
<1>2. Got(s, w) = [i \in 1 .. 0 |-> s.q[i].v]
  BY <1>1 DEF Got
<1>3. Got(s, w) = <<>>
  BY <1>2
<1>4. Rest(s, w) = [q |-> SubSeq(s.q, 1, 0), n |-> 0]
  BY <1>1, <1>3 DEF Rest
<1>5. SubSeq(s.q, 1, 0) = <<>>
  OBVIOUS
<1> QED
  BY <1>3, <1>4, <1>5 DEF Arrived, Stream

-----------------------------------------------------------------------------
(* The messages.                                                             *)

\* A checksum is two words.
LEMMA MD5Is ==
  ASSUME NEW d \in Seq(Nat)
  PROVE  /\ MD5(d) \in Seq(Nat) /\ Len(MD5(d)) = 2
         /\ MD5(d) = <<MD5(d)[1], MD5(d)[2]>>
<1>1. CASE d = <<>>
  BY <1>1 DEF MD5
<1>2. CASE d # <<>>
  <2>1. Len(d) \in Nat /\ d[1] \in Nat /\ Last(d) \in Nat
    BY <1>2 DEF Last
  <2>2. MD5(d) = <<Len(d), 8 * d[1] + Last(d)>>
    BY <1>2 DEF MD5
  <2> QED
    BY <2>1, <2>2
<1> QED
  BY <1>1, <1>2

\* Both results are sequences of words.
LEMMA ResultIs ==
  ASSUME NEW r \in Result
  PROVE  /\ r.rt \in Nat /\ r.data \in Seq(Nat) /\ Len(r.data) \in {0, 2}
         /\ r.data # <<>> => r.data = Chunk
         /\ Len(r.data) = 0 <=> r.data = <<>>
<1>1. CASE r = [rt |-> 1, data |-> <<>>]
  BY <1>1
<1>2. CASE r = [rt |-> 0, data |-> <<4, 5>>]
  BY <1>2 DEF Chunk
<1> QED
  BY <1>1, <1>2 DEF Result

\* The fields of a result have the widths and the words of PutStart and PutWord.
LEMMA PutFields ==
  ASSUME NEW r \in Result
  PROVE  /\ PutMessage(r) \in Seq(Seq(Nat)) /\ Len(PutMessage(r)) = 7
         /\ \A k \in 0 .. 6 :
               Len(PutMessage(r)[k + 1]) = PutStart(r, k + 1) - PutStart(r, k)
         /\ \A k \in 0 .. 5 : \A i \in 1 .. Len(PutMessage(r)[k + 1]) :
               PutMessage(r)[k + 1][i] = PutWord(r, PutStart(r, k) + i)
         /\ PutMessage(r)[7] = r.data
         /\ PutMessage(r)[5] = <<Len(r.data), 0>>
<1>1. /\ MD5(r.data) \in Seq(Nat) /\ Len(MD5(r.data)) = 2
      /\ MD5(r.data) = <<MD5(r.data)[1], MD5(r.data)[2]>>
  BY MD5Is, ResultIs
<1>2. r.rt \in Nat /\ r.data \in Seq(Nat) /\ Len(r.data) \in Nat
  BY ResultIs
<1>3. PutMessage(r) = << <<2, 0>>, <<3, 0>>, <<r.rt>>, <<9, 0>>, <<Len(r.data), 0>>,
                         MD5(r.data), r.data >>
  BY Numbers DEF PutMessage
<1> DEFINE M == MD5(r.data)
           d == r.data
           n == Len(r.data)
           t == r.rt
<1>4. M \in Seq(Nat) /\ Len(M) = 2 /\ d \in Seq(Nat) /\ n \in Nat /\ t \in Nat /\ Len(d) = n
  BY <1>1, <1>2
<1>5. PutMessage(r) \in Seq(Seq(Nat)) /\ Len(PutMessage(r)) = 7
  <2>1. PutMessage(r) = << <<2, 0>>, <<3, 0>>, <<t>>, <<9, 0>>, <<n, 0>>, M, d >>
    BY <1>3
  <2> HIDE DEF M, d, n, t
  <2>2. /\ <<2, 0>> \in Seq(Nat) /\ <<3, 0>> \in Seq(Nat) /\ <<t>> \in Seq(Nat)
        /\ <<9, 0>> \in Seq(Nat) /\ <<n, 0>> \in Seq(Nat)
    BY <1>4
  <2> QED
    BY <1>4, <2>1, <2>2
<1>6. \A k \in 0 .. 6 : Len(PutMessage(r)[k + 1]) = PutStart(r, k + 1) - PutStart(r, k)
  <2>1. /\ PutMessage(r)[1] = <<2, 0>> /\ PutMessage(r)[2] = <<3, 0>>
        /\ PutMessage(r)[3] = <<t>> /\ PutMessage(r)[4] = <<9, 0>>
        /\ PutMessage(r)[5] = <<n, 0>> /\ PutMessage(r)[6] = M /\ PutMessage(r)[7] = d
    BY <1>3
  <2>2. /\ PutStart(r, 0) = 0 /\ PutStart(r, 1) = 2 /\ PutStart(r, 2) = 4
        /\ PutStart(r, 3) = 5 /\ PutStart(r, 4) = 7 /\ PutStart(r, 5) = 9
        /\ PutStart(r, 6) = 11 /\ PutStart(r, 7) = 11 + n
    BY DEF PutStart
  <2> HIDE DEF M, d, n, t
  <2>3. /\ Len(<<2, 0>>) = 2 /\ Len(<<3, 0>>) = 2 /\ Len(<<t>>) = 1
        /\ Len(<<9, 0>>) = 2 /\ Len(<<n, 0>>) = 2
    OBVIOUS
  <2>4. /\ Len(PutMessage(r)[1]) = 2 /\ Len(PutMessage(r)[2]) = 2
        /\ Len(PutMessage(r)[3]) = 1 /\ Len(PutMessage(r)[4]) = 2
        /\ Len(PutMessage(r)[5]) = 2 /\ Len(PutMessage(r)[6]) = 2
        /\ Len(PutMessage(r)[7]) = n
    BY ONLY <1>4, <2>1, <2>3
  <2> SUFFICES ASSUME NEW k \in 0 .. 6
               PROVE  Len(PutMessage(r)[k + 1]) = PutStart(r, k + 1) - PutStart(r, k)
    OBVIOUS
  <2>5. k \in {0, 1, 2, 3, 4, 5, 6}
    OBVIOUS
  <2>6. CASE k = 0
    <3>1. Len(PutMessage(r)[k + 1]) = 2
      BY <2>4, <2>6
    <3>2. PutStart(r, k + 1) = 2 /\ PutStart(r, k) = 0
      BY <2>2, <2>6
    <3> QED
      BY <1>4, <3>1, <3>2
  <2>7. CASE k = 1
    <3>1. Len(PutMessage(r)[k + 1]) = 2
      BY <2>4, <2>7
    <3>2. PutStart(r, k + 1) = 4 /\ PutStart(r, k) = 2
      BY <2>2, <2>7
    <3> QED
      BY <1>4, <3>1, <3>2
  <2>8. CASE k = 2
    <3>1. Len(PutMessage(r)[k + 1]) = 1
      BY <2>4, <2>8
    <3>2. PutStart(r, k + 1) = 5 /\ PutStart(r, k) = 4
      BY <2>2, <2>8
    <3> QED
      BY <1>4, <3>1, <3>2
  <2>9. CASE k = 3
    <3>1. Len(PutMessage(r)[k + 1]) = 2
      BY <2>4, <2>9
    <3>2. PutStart(r, k + 1) = 7 /\ PutStart(r, k) = 5
      BY <2>2, <2>9
    <3> QED
      BY <1>4, <3>1, <3>2
  <2>10. CASE k = 4
    <3>1. Len(PutMessage(r)[k + 1]) = 2
      BY <2>4, <2>10
    <3>2. PutStart(r, k + 1) = 9 /\ PutStart(r, k) = 7
      BY <2>2, <2>10
    <3> QED
      BY <1>4, <3>1, <3>2
  <2>11. CASE k = 5
    <3>1. Len(PutMessage(r)[k + 1]) = 2
      BY <2>4, <2>11
    <3>2. PutStart(r, k + 1) = 11 /\ PutStart(r, k) = 9
      BY <2>2, <2>11
    <3> QED
      BY <1>4, <3>1, <3>2
  <2>12. CASE k = 6
    <3>1. Len(PutMessage(r)[k + 1]) = n
      BY <2>4, <2>12
    <3>2. PutStart(r, k + 1) = 11 + n /\ PutStart(r, k) = 11
      BY <2>2, <2>12
    <3> QED
      BY <1>4, <3>1, <3>2
  <2> QED
    BY ONLY <2>5, <2>6, <2>7, <2>8, <2>9, <2>10, <2>11, <2>12
<1>7. \A k \in 0 .. 5 : \A i \in 1 .. Len(PutMessage(r)[k + 1]) :
         PutMessage(r)[k + 1][i] = PutWord(r, PutStart(r, k) + i)
  <2> SUFFICES ASSUME NEW k \in 0 .. 5, NEW i \in 1 .. Len(PutMessage(r)[k + 1])
               PROVE  PutMessage(r)[k + 1][i] = PutWord(r, PutStart(r, k) + i)
    OBVIOUS
  <2>1. CASE k = 0
    BY <1>3, <2>1 DEF PutStart, PutWord
  <2>2. CASE k = 1
    BY <1>3, <2>2 DEF PutStart, PutWord
  <2>3. CASE k = 2
    BY <1>3, <2>3 DEF PutStart, PutWord
  <2>4. CASE k = 3
    BY <1>3, <2>4 DEF PutStart, PutWord
  <2>5. CASE k = 4
    BY <1>3, <2>5 DEF PutStart, PutWord
  <2>6. CASE k = 5
    <3>1. PutMessage(r)[6] = M
      BY <1>3
    <3>2. i \in {1, 2}
      <4>1. i \in 1 .. Len(M)
        BY <2>6, <3>1
      <4>2. i \in 1 .. 2
        BY <1>1, <4>1
      <4> QED
        BY <4>2
    <3>3. PutStart(r, 5) = 9 /\ PutWord(r, 10) = M[1] /\ PutWord(r, 11) = M[2]
      BY DEF PutStart, PutWord
    <3> QED
      BY <2>6, <3>1, <3>2, <3>3
  <2> QED
    BY <2>1, <2>2, <2>3, <2>4, <2>5, <2>6
<1>8. PutMessage(r)[7] = r.data /\ PutMessage(r)[5] = <<Len(r.data), 0>>
  BY <1>3
<1> QED
  BY <1>5, <1>6, <1>7, <1>8

\* The fields of a result one after the other.
LEMMA PutStarts ==
  ASSUME NEW r \in Result
  PROVE  /\ \A k \in 0 .. 7 : PutStart(r, k) \in Nat
         /\ \A k \in 0 .. 6 : PutStart(r, k) <= 11
         /\ \A k \in 0 .. 7 : \A m \in k .. 7 : PutStart(r, k) <= PutStart(r, m)
         /\ \A k \in 0 .. 6 : \A m \in (k + 1) .. 7 : PutStart(r, k + 1) <= PutStart(r, m)
         /\ PutStart(r, 0) = 0 /\ PutStart(r, 6) = 11 /\ PutStart(r, 7) = 11 + Len(r.data)
<1>1. Len(r.data) \in Nat
  BY ResultIs
<1>2. \A k \in 0 .. 7 : PutStart(r, k) \in Nat
  BY <1>1 DEF PutStart
<1>3. \A k \in 0 .. 6 : PutStart(r, k) <= 11
  BY DEF PutStart
<1>4. \A k \in 0 .. 7 : \A m \in k .. 7 : PutStart(r, k) <= PutStart(r, m)
  <2> SUFFICES ASSUME NEW k \in 0 .. 7, NEW m \in k .. 7
               PROVE  PutStart(r, k) <= PutStart(r, m)
    OBVIOUS
  <2>1. m = 7 \/ (m < 7 /\ k < 7)
    OBVIOUS
  <2>2. CASE m = 7
    BY <1>1, <2>2 DEF PutStart
  <2>3. CASE m < 7 /\ k < 7
    BY <2>3 DEF PutStart
  <2> QED
    BY <2>1, <2>2, <2>3
<1>5. \A k \in 0 .. 6 : \A m \in (k + 1) .. 7 : PutStart(r, k + 1) <= PutStart(r, m)
  <2> SUFFICES ASSUME NEW k \in 0 .. 6, NEW m \in (k + 1) .. 7
               PROVE  PutStart(r, k + 1) <= PutStart(r, m)
    OBVIOUS
  <2>1. k + 1 \in 0 .. 7
    OBVIOUS
  <2> QED
    BY <1>4, <2>1
<1> QED
  BY <1>2, <1>3, <1>4, <1>5 DEF PutStart

\* S_put reads as many words as C_put writes for the field.
LEMMA PutWidthIs ==
  ASSUME NEW r \in Result, NEW got \in Seq(Seq(Nat)), Len(got) \in 0 .. 6,
         \A j \in 1 .. Len(got) : got[j] = PutMessage(r)[j]
  PROVE  /\ S_putWidth(got) \in Nat
         /\ S_putWidth(got) = Len(PutMessage(r)[Len(got) + 1])
         /\ PutStart(r, Len(got) + 1) = PutStart(r, Len(got)) + S_putWidth(got)
<1> DEFINE k == Len(got)
           w == Len(PutMessage(r)[Len(got) + 1])
<1>1. k \in 0 .. 6
  OBVIOUS
<1>2. w = PutStart(r, k + 1) - PutStart(r, k)
  BY <1>1, PutFields
<1>3. w \in Nat
  <2>1. PutMessage(r)[k + 1] \in Seq(Nat)
    <3> HIDE DEF k
    <3>1. k + 1 \in 1 .. 7
      BY ONLY <1>1
    <3>2. \A i \in 1 .. 7 : PutMessage(r)[i] \in Seq(Nat)
      BY PutFields, ElementOfSeq
    <3> QED
      BY <3>1, <3>2
  <2> QED
    BY <2>1
<1>4. S_putWidth(got) = w
  <2>1. CASE k = 6
    <3>1. got[5] = <<Len(r.data), 0>>
      <4>1. 5 \in 1 .. Len(got)
        BY <2>1
      <4> QED
        BY <4>1, PutFields
    <3>2. Value(got[5]) = Len(r.data)
      BY <3>1, ResultIs DEF Value
    <3>3. w = Len(r.data)
      <4>1. k + 1 = 7
        BY <2>1
      <4> QED
        BY <4>1, PutFields
    <3> QED
      BY <2>1, <3>2, <3>3 DEF S_putWidth
  <2>2. CASE k # 6
    <3> HIDE DEF w
    <3>1. S_putWidth(got) = IF k = 2 THEN 1 ELSE 2
      BY <2>2 DEF S_putWidth
    <3> HIDE DEF k
    <3>2. PutStart(r, k) = CASE k = 0 -> 0 [] k = 1 -> 2 [] k = 2 -> 4 [] k = 3 -> 5
                             [] k = 4 -> 7 [] k = 5 -> 9
      BY <1>1, <2>2 DEF PutStart
    <3>3. PutStart(r, k + 1) = CASE k = 0 -> 2 [] k = 1 -> 4 [] k = 2 -> 5 [] k = 3 -> 7
                             [] k = 4 -> 9 [] k = 5 -> 11
      BY <1>1, <2>2 DEF PutStart
    <3> QED
      BY <1>1, <1>2, <2>2, <3>1, <3>2, <3>3
  <2> QED
    BY <2>1, <2>2
<1>5. PutStart(r, k + 1) \in Nat /\ PutStart(r, k) \in Nat
  <2> HIDE DEF k, w
  <2>1. k + 1 \in 0 .. 7 /\ k \in 0 .. 7
    BY ONLY <1>1
  <2> QED
    BY <2>1, PutStarts
<1> QED
  BY <1>2, <1>3, <1>4, <1>5

\* Sequences of the same length with the same elements are the same.
LEMMA SameSeqs ==
  ASSUME NEW S, NEW T, NEW a \in Seq(S), NEW b \in Seq(T), Len(a) = Len(b),
         \A i \in 1 .. Len(a) : a[i] = b[i]
  PROVE  a = b
  OBVIOUS

-----------------------------------------------------------------------------
(* A result on its way.                                                      *)

\* Where the two sides are in the message.
LEMMA PuttingPlace ==
  ASSUME NEW r \in Result, NEW s, NEW got \in Seq(Seq(Nat)), NEW m,
         NEW tail \in Seq(Item), Putting(s, got, r, m, tail)
  PROVE  /\ Len(got) \in 0 .. 6 /\ m \in 0 .. 7 /\ Len(got) <= m
         /\ PutStart(r, Len(got)) \in Nat /\ PutStart(r, m) \in Nat /\ Len(tail) \in Nat
         /\ PutStart(r, Len(got)) <= PutStart(r, m)
<1>1. Len(got) \in 0 .. 6 /\ m \in 0 .. 7 /\ Len(got) <= m
  BY DEF Putting
<1> DEFINE k == Len(got)
<1> HIDE DEF k
<1>2. k \in 0 .. 7 /\ m \in k .. 7 /\ m \in 0 .. 7
  BY <1>1 DEF k
<1>3. PutStart(r, k) \in Nat /\ PutStart(r, m) \in Nat /\ PutStart(r, k) <= PutStart(r, m)
  BY <1>2, PutStarts
<1> QED
  BY <1>1, <1>3 DEF k

\* S_put reads the next field whole.
LEMMA PuttingRead ==
  ASSUME NEW r \in Result, NEW s, Arrived(s), NEW got \in Seq(Seq(Nat)), NEW m,
         NEW tail \in Seq(Item), Putting(s, got, r, m, tail), Len(got) < m
  PROVE  LET w == S_putWidth(got)
         IN  /\ w \in Nat /\ w <= Len(s.q) /\ Len(Got(s, w)) = w
             /\ Len(got) < 6 => Putting(Rest(s, w), Append(got, Got(s, w)), r, m, tail)
<1> DEFINE k == Len(got)
           w == S_putWidth(got)
           b == PutStart(r, k)
           c == PutStart(r, k + 1)
           e == PutStart(r, m)
<1>1. /\ k \in 0 .. 6 /\ m \in 0 .. 7 /\ k < m
      /\ b \in Nat /\ e \in Nat /\ Len(tail) \in Nat /\ b <= e
  BY PuttingPlace
<1>2. \A j \in 1 .. Len(got) : got[j] = PutMessage(r)[j]
  BY DEF Putting
<1>3. w \in Nat /\ w = Len(PutMessage(r)[k + 1]) /\ c = b + w
  BY <1>1, <1>2, PutWidthIs
<1>4. c <= e /\ (k < 6 => c <= 11)
  <2> HIDE DEF k
  <2>1. k \in 0 .. 6 /\ m \in (k + 1) .. 7
    BY <1>1
  <2>2. PutStart(r, k + 1) <= PutStart(r, m)
    BY <2>1, PutStarts
  <2>3. k < 6 => k + 1 \in 0 .. 6
    BY <2>1
  <2>4. k < 6 => PutStart(r, k + 1) <= 11
    BY <2>3, PutStarts
  <2> QED
    BY <2>2, <2>4
<1>5. Len(s.q) = e - b + Len(tail)
  BY DEF Putting
<1>6. w <= Len(s.q)
  <2> HIDE DEF k, w, b, c, e
  <2> QED
    BY <1>1, <1>3, <1>4, <1>5
<1>7. /\ Len(Rest(s, w).q) = Len(s.q) - w
      /\ \A i \in 1 .. (Len(s.q) - w) : Rest(s, w).q[i] = s.q[w + i]
      /\ Got(s, w) \in Seq(Nat) /\ Len(Got(s, w)) = w
      /\ \A i \in 1 .. w : Got(s, w)[i] = s.q[i].v
  <2> HIDE DEF w
  <2>1. Taken(Rest(s, w), Got(s, w), s, w)
    BY <1>3, <1>6, ReadIs
  <2> QED
    BY <2>1 DEF Taken
<1>8. ASSUME k < 6
      PROVE  Putting(Rest(s, w), Append(got, Got(s, w)), r, m, tail)
  <2>1. /\ \A p \in (b + 1) .. e :
              IF p <= 11 THEN s.q[p - b] = [kind |-> "other", v |-> PutWord(r, p)]
              ELSE DataWord(r, p - 11, s.q[p - b])
        /\ \A i \in 1 .. Len(tail) : s.q[e - b + i] = tail[i]
    BY DEF Putting
  <2>2. Got(s, w) = PutMessage(r)[k + 1]
    <3>1. PutMessage(r)[k + 1] \in Seq(Nat)
      <4> HIDE DEF k
      <4>1. k + 1 \in 1 .. 7
        BY <1>1
      <4>2. \A i \in 1 .. 7 : PutMessage(r)[i] \in Seq(Nat)
        BY PutFields, ElementOfSeq
      <4> QED
        BY <4>1, <4>2
    <3>2. \A i \in 1 .. w : PutMessage(r)[k + 1][i] = PutWord(r, b + i)
      <4> HIDE DEF k
      <4>1. k \in 0 .. 5
        BY <1>1, <1>8
      <4> QED
        BY <1>3, <4>1, PutFields
    <3>3. \A i \in 1 .. w : Got(s, w)[i] = PutWord(r, b + i)
      <4> HIDE DEF k, w, b, c, e
      <4> TAKE i \in 1 .. w
      <4>1. b + i \in (b + 1) .. e /\ b + i <= 11 /\ (b + i) - b = i
        BY <1>1, <1>3, <1>4, <1>8
      <4>2. s.q[i] = [kind |-> "other", v |-> PutWord(r, b + i)]
        BY <2>1, <4>1
      <4> QED
        BY <1>7, <4>2
    <3> DEFINE G == Got(s, w)
               M == PutMessage(r)[k + 1]
    <3>4. G \in Seq(Nat) /\ M \in Seq(Nat) /\ Len(G) = w /\ Len(M) = w
      BY <1>3, <1>7, <3>1
    <3>5. \A i \in 1 .. w : G[i] = M[i]
      BY <3>2, <3>3
    <3> HIDE DEF G, M, w
    <3>6. G = M
      BY ONLY <3>4, <3>5, SameSeqs
    <3> QED
      BY <3>6 DEF G, M
  <2> DEFINE got2 == Append(got, Got(s, w))
  <2>3. got2 \in Seq(Seq(Nat)) /\ Len(got2) = k + 1
    BY <1>7
  <2>4. \A j \in 1 .. Len(got2) : got2[j] = PutMessage(r)[j]
    BY <1>2, <1>7, <2>2
  <2> HIDE DEF got2, k, w, b, c, e
  <2>5. Len(Rest(s, w).q) = e - c + Len(tail)
    BY <1>1, <1>3, <1>5, <1>7
  <2>6. \A p \in (c + 1) .. e : Rest(s, w).q[p - c] = s.q[p - b]
    <3> TAKE p \in (c + 1) .. e
    <3>1. p - c \in 1 .. (Len(s.q) - w) /\ w + (p - c) = p - b
      BY <1>1, <1>3, <1>4, <1>5
    <3> QED
      BY <1>7, <3>1
  <2>7. \A p \in (c + 1) .. e :
           IF p <= 11 THEN Rest(s, w).q[p - c] = [kind |-> "other", v |-> PutWord(r, p)]
           ELSE DataWord(r, p - 11, Rest(s, w).q[p - c])
    <3> TAKE p \in (c + 1) .. e
    <3>1. p \in (b + 1) .. e
      BY <1>1, <1>3
    <3> QED
      BY <2>1, <2>6, <3>1
  <2>8. \A i \in 1 .. Len(tail) : Rest(s, w).q[e - c + i] = tail[i]
    <3> TAKE i \in 1 .. Len(tail)
    <3>1. e - c + i \in 1 .. (Len(s.q) - w) /\ w + (e - c + i) = e - b + i
      BY <1>1, <1>3, <1>4, <1>5
    <3> QED
      BY <1>7, <2>1, <3>1
  <2>9. k + 1 \in 0 .. 6 /\ k + 1 <= m
    BY <1>1, <1>8
  <2>10. c = PutStart(r, Len(got2)) /\ e = PutStart(r, m)
    BY <2>3 DEF c, e
  <2> QED
    BY <1>1, <2>3, <2>4, <2>5, <2>7, <2>8, <2>9, <2>10 DEF Putting, got2
<1> QED
  BY <1>3, <1>6, <1>7, <1>8

\* S_put reads the data, which may be damaged, and nothing of what follows.
LEMMA PuttingLast ==
  ASSUME NEW r \in Result, NEW s, Arrived(s), NEW got \in Seq(Seq(Nat)),
         NEW tail \in Seq(Item), Putting(s, got, r, 7, tail), Len(got) = 6
  PROVE  LET w == S_putWidth(got)
         IN  /\ w = Len(r.data) /\ Len(Got(s, w)) = w
             /\ \A p \in 1 .. w : Got(s, w)[p] \in {r.data[p], 6}
             /\ Rest(s, w).q = tail
<1> DEFINE w == S_putWidth(got)
<1>1. w \in Nat /\ w <= Len(s.q) /\ Len(Got(s, w)) = w
  <2> DEFINE m == 7
  <2>1. Len(got) < m /\ Putting(s, got, r, m, tail)
    OBVIOUS
  <2> HIDE DEF m
  <2> QED
    BY <2>1, PuttingRead
<1>2. Len(r.data) \in Nat
  BY ResultIs
<1>3. PutStart(r, 6) = 11 /\ PutStart(r, 7) = 11 + Len(r.data)
  BY PutStarts
<1>4. w = Len(r.data)
  <2>1. \A j \in 1 .. Len(got) : got[j] = PutMessage(r)[j]
    BY DEF Putting
  <2>2. Len(got) \in 0 .. 6
    OBVIOUS
  <2>3. PutStart(r, Len(got) + 1) = PutStart(r, Len(got)) + w
    BY <2>1, <2>2, PutWidthIs
  <2>4. Len(got) + 1 = 7
    OBVIOUS
  <2>5. PutStart(r, 7) = PutStart(r, 6) + w
    BY <2>3, <2>4
  <2> QED
    BY <1>1, <1>2, <1>3, <2>5
<1>5. /\ Len(s.q) = w + Len(tail)
      /\ \A p \in 12 .. (11 + w) : DataWord(r, p - 11, s.q[p - 11])
      /\ \A i \in 1 .. Len(tail) : s.q[w + i] = tail[i]
  <2> DEFINE b == PutStart(r, Len(got))
             e == PutStart(r, 7)
  <2>1. /\ Len(s.q) = e - b + Len(tail)
        /\ \A p \in (b + 1) .. e :
              IF p <= 11 THEN s.q[p - b] = [kind |-> "other", v |-> PutWord(r, p)]
              ELSE DataWord(r, p - 11, s.q[p - b])
        /\ \A i \in 1 .. Len(tail) : s.q[e - b + i] = tail[i]
    BY DEF Putting
  <2>2. b = 11 /\ e = 11 + w
    BY <1>3, <1>4
  <2>3. Len(tail) \in Nat
    OBVIOUS
  <2> HIDE DEF b, e, w
  <2>4. e - b = w
    BY <1>1, <2>2
  <2>5. \A p \in 12 .. (11 + w) : p \in (b + 1) .. e /\ ~(p <= 11) /\ p - b = p - 11
    BY <1>1, <2>2
  <2> QED
    BY <2>1, <2>3, <2>4, <2>5
<1> HIDE DEF w
<1>6. \A p \in 1 .. w : Got(s, w)[p] \in {r.data[p], 6}
  <2> TAKE p \in 1 .. w
  <2>1. p + 11 \in 12 .. (11 + w) /\ (p + 11) - 11 = p
    BY <1>1
  <2>2. DataWord(r, p, s.q[p])
    BY <1>5, <2>1
  <2>3. Got(s, w)[p] = s.q[p].v
    BY <1>1, ReadIs DEF Taken
  <2> QED
    BY <2>2, <2>3 DEF DataWord
<1>7. Rest(s, w).q = tail
  <2> DEFINE R == Rest(s, w).q
  <2>1. R \in Seq(Item)
    BY <1>1, ReadIs DEF Arrived, Stream, Taken
  <2>2. Len(R) = Len(s.q) - w /\ \A i \in 1 .. (Len(s.q) - w) : R[i] = s.q[w + i]
    BY <1>1, ReadIs DEF Taken
  <2>3. Len(tail) \in Nat
    OBVIOUS
  <2> HIDE DEF R
  <2>6. Len(s.q) - w = Len(tail)
    BY <1>1, <1>5, <2>3
  <2>4. Len(R) = Len(tail) /\ \A i \in 1 .. Len(R) : R[i] = tail[i]
    BY <1>5, <2>2, <2>6
  <2>5. R = tail
    BY ONLY <2>1, <2>4, tail \in Seq(Item), SameSeqs
  <2> QED
    BY <2>5 DEF R
<1> QED
  BY <1>1, <1>4, <1>6, <1>7 DEF w

\* When the server has read all that the client has written.
LEMMA PuttingEnd ==
  ASSUME NEW r \in Result, NEW s, Arrived(s), NEW got \in Seq(Seq(Nat)),
         NEW tail \in Seq(Item), Putting(s, got, r, Len(got), tail)
  PROVE  s.q = tail
<1> DEFINE q == s.q
           b == PutStart(r, Len(got))
<1>1. q \in Seq(Item)
  BY DEF Arrived, Stream
<1>2. b \in Nat /\ Len(tail) \in Nat
  BY PuttingPlace
<1>3. Len(q) = b - b + Len(tail) /\ \A i \in 1 .. Len(tail) : q[b - b + i] = tail[i]
  BY DEF Putting
<1> HIDE DEF q, b
<1>4. Len(q) = Len(tail) /\ \A i \in 1 .. Len(tail) : q[i] = tail[i]
  BY <1>2, <1>3
<1>5. q = tail
  BY ONLY <1>1, <1>4, tail \in Seq(Item), SameSeqs
<1> QED
  BY <1>5 DEF q

\* A PUT starts with nothing written.
LEMMA PuttingStarts ==
  ASSUME NEW r \in Result, NEW s, s.q = <<>>
  PROVE  Putting(s, <<>>, r, 0, <<>>)
  BY PutStarts DEF Putting

\* C_put writes the next field.
LEMMA PuttingWrite ==
  ASSUME NEW r \in Result, NEW s, Arrived(s), NEW got \in Seq(Seq(Nat)),
         NEW m \in 0 .. 6, Putting(s, got, r, m, <<>>)
  PROVE  LET t == Written(s, PutMessage(r)[m + 1], IF m = 6 THEN "data" ELSE "other")
         IN  Arrived(t) /\ Putting(t, got, r, m + 1, <<>>)
<1> DEFINE f == PutMessage(r)[m + 1]
           kind == IF m = 6 THEN "data" ELSE "other"
           t == Written(s, PutMessage(r)[m + 1], IF m = 6 THEN "data" ELSE "other")
           b == PutStart(r, Len(got))
           e == PutStart(r, m)
           g == PutStart(r, m + 1)
<1>1. f \in Seq(Nat)
  <2>1. m + 1 \in 1 .. 7
    OBVIOUS
  <2>2. \A i \in 1 .. 7 : PutMessage(r)[i] \in Seq(Nat)
    BY PutFields, ElementOfSeq
  <2> QED
    BY <2>1, <2>2
<1>2. Len(got) \in 0 .. 6 /\ Len(got) <= m /\ b \in Nat /\ e \in Nat /\ b <= e
  BY PuttingPlace, EmptySeq
<1>3. Len(f) = g - e /\ (m < 6 => \A i \in 1 .. Len(f) : f[i] = PutWord(r, e + i))
      /\ (m = 6 => f = r.data)
  <2>1. m < 6 => m \in 0 .. 5
    OBVIOUS
  <2>2. m = 6 => m + 1 = 7
    OBVIOUS
  <2> QED
    BY <2>1, <2>2, PutFields
<1>4. g \in Nat /\ (m < 6 => g <= 11) /\ (m = 6 => e = 11)
  <2>1. m + 1 \in 0 .. 7 /\ (m < 6 => m + 1 \in 0 .. 6)
    OBVIOUS
  <2> QED
    BY <2>1, PutStarts
<1>5. /\ Len(s.q) = e - b
      /\ \A p \in (b + 1) .. e :
            IF p <= 11 THEN s.q[p - b] = [kind |-> "other", v |-> PutWord(r, p)]
            ELSE DataWord(r, p - 11, s.q[p - b])
      /\ \A j \in 1 .. Len(got) : got[j] = PutMessage(r)[j]
  <2> HIDE DEF f, kind, t, g
  <2>1. Len(s.q) = e - b
    <3>1. Len(s.q) = e - b + Len(<<>>) /\ Len(<<>>) = 0
      BY DEF Putting
    <3> QED
      BY <1>2, <3>1
  <2>2. \A p \in (b + 1) .. e :
            IF p <= 11 THEN s.q[p - b] = [kind |-> "other", v |-> PutWord(r, p)]
            ELSE DataWord(r, p - 11, s.q[p - b])
    BY DEF Putting
  <2>3. \A j \in 1 .. Len(got) : got[j] = PutMessage(r)[j]
    BY DEF Putting
  <2> QED
    BY <2>1, <2>2, <2>3
<1>6. kind \in {"action", "data", "other"}
  OBVIOUS
<1>7. /\ Arrived(t) /\ Len(t.q) = Len(s.q) + Len(f)
      /\ \A i \in 1 .. Len(s.q) : t.q[i] = s.q[i]
      /\ \A i \in 1 .. Len(f) : t.q[Len(s.q) + i] = [kind |-> kind, v |-> f[i]]
  <2> HIDE DEF f, kind
  <2>1. t = Written(s, f, kind)
    BY DEF f, kind
  <2> HIDE DEF t
  <2>2. Added(t, s, f, kind)
    BY <1>1, <1>6, <2>1, WrittenIs
  <2> QED
    BY <2>2 DEF Added
<1>8. Len(f) \in Nat
  BY <1>1
<1> HIDE DEF f, kind, t, b, e, g
<1>9. Len(t.q) = g - b
  BY <1>2, <1>3, <1>4, <1>5, <1>7
<1>10. \A p \in (b + 1) .. g :
          IF p <= 11 THEN t.q[p - b] = [kind |-> "other", v |-> PutWord(r, p)]
          ELSE DataWord(r, p - 11, t.q[p - b])
  <2> TAKE p \in (b + 1) .. g
  <2>1. CASE p <= e
    <3>1. p \in (b + 1) .. e /\ p - b \in 1 .. Len(s.q)
      BY <1>2, <1>4, <1>5, <2>1
    <3> QED
      BY <1>5, <1>7, <3>1
  <2>2. CASE p > e
    <3>1. p - e \in 1 .. Len(f) /\ Len(s.q) + (p - e) = p - b /\ e + (p - e) = p
      BY <1>2, <1>3, <1>4, <1>5, <2>2
    <3>2. t.q[p - b] = [kind |-> kind, v |-> f[p - e]]
      BY <1>7, <3>1
    <3>3. CASE m < 6
      <4>1. p <= 11
        BY <1>2, <1>4, <3>3
      <4>2. kind = "other"
        BY <3>3 DEF kind
      <4>3. f[p - e] = PutWord(r, p)
        BY <1>3, <3>1, <3>3
      <4> QED
        BY <3>2, <4>1, <4>2, <4>3
    <3>4. CASE m = 6
      <4>1. p > 11 /\ p - e = p - 11
        BY <1>2, <1>4, <2>2, <3>4
      <4>2. kind = "data" /\ f[p - 11] = r.data[p - 11]
        BY <1>3, <3>4 DEF kind
      <4> QED
        BY <3>2, <4>1, <4>2 DEF DataWord
    <3> QED
      BY <3>3, <3>4
  <2> QED
    BY <1>2, <1>4, <2>1, <2>2
<1>11. Putting(t, got, r, m + 1, <<>>)
  <2>1. m + 1 \in 0 .. 7 /\ Len(got) <= m + 1
    BY <1>2
  <2>2. Len(t.q) = PutStart(r, m + 1) - PutStart(r, Len(got)) + Len(<<>>)
    BY <1>2, <1>4, <1>9 DEF g, b
  <2> QED
    BY <1>2, <1>5, <1>10, <2>1, <2>2 DEF Putting, g, b
<1> QED
  BY <1>7, <1>11 DEF t

\* The client asks for the next chunk when it has written all of a result.
LEMMA PuttingAsk ==
  ASSUME NEW r \in Result, NEW s, Arrived(s), NEW got \in Seq(Seq(Nat)),
         NEW word \in Nat, Putting(s, got, r, 7, <<>>)
  PROVE  Putting(Written(s, <<word>>, "action"), got, r, 7, Asked(word))
<1> DEFINE t == Written(s, <<word>>, "action")
           b == PutStart(r, Len(got))
           e == PutStart(r, 7)
<1>1. <<word>> \in Seq(Nat) /\ Len(<<word>>) = 1 /\ <<word>>[1] = word
  OBVIOUS
<1>2. /\ Len(t.q) = Len(s.q) + 1
      /\ \A i \in 1 .. Len(s.q) : t.q[i] = s.q[i]
      /\ t.q[Len(s.q) + 1] = [kind |-> "action", v |-> word]
  <2> DEFINE f == <<word>>
  <2> HIDE DEF f
  <2>1. t = Written(s, f, "action")
    BY DEF f
  <2> HIDE DEF t
  <2>2. f \in Seq(Nat) /\ Len(f) = 1 /\ f[1] = word
    BY <1>1 DEF f
  <2>3. "action" \in {"action", "data", "other"}
    OBVIOUS
  <2>4. Added(t, s, f, "action")
    BY <2>1, <2>2, <2>3, WrittenIs
  <2>5. 1 \in 1 .. Len(f)
    BY <2>2
  <2> QED
    BY <2>1, <2>2, <2>4, <2>5 DEF Added
<1>3. Len(got) \in 0 .. 6 /\ b \in Nat /\ e \in Nat /\ b <= e
  <2> DEFINE m == 7
  <2>1. Putting(s, got, r, m, <<>>)
    OBVIOUS
  <2> HIDE DEF m
  <2>2. /\ Len(got) \in 0 .. 6 /\ PutStart(r, Len(got)) \in Nat /\ PutStart(r, m) \in Nat
        /\ PutStart(r, Len(got)) <= PutStart(r, m)
    BY <2>1, PuttingPlace, EmptySeq
  <2> QED
    BY <2>2 DEF m
<1>4. /\ Len(s.q) = e - b
      /\ \A p \in (b + 1) .. e :
            IF p <= 11 THEN s.q[p - b] = [kind |-> "other", v |-> PutWord(r, p)]
            ELSE DataWord(r, p - 11, s.q[p - b])
      /\ \A j \in 1 .. Len(got) : got[j] = PutMessage(r)[j]
  BY <1>3 DEF Putting
<1>5. Len(Asked(word)) = 1 /\ Asked(word)[1] = [kind |-> "action", v |-> word]
  BY DEF Asked
<1> HIDE DEF t, b, e
<1>6. \A p \in (b + 1) .. e :
         IF p <= 11 THEN t.q[p - b] = [kind |-> "other", v |-> PutWord(r, p)]
         ELSE DataWord(r, p - 11, t.q[p - b])
  <2> TAKE p \in (b + 1) .. e
  <2>1. p - b \in 1 .. Len(s.q)
    BY <1>3, <1>4
  <2> QED
    BY <1>2, <1>4, <2>1
<1>7. Len(t.q) = e - b + Len(Asked(word))
  BY <1>2, <1>3, <1>4, <1>5
<1>8. \A i \in 1 .. Len(Asked(word)) : t.q[e - b + i] = Asked(word)[i]
  <2> TAKE i \in 1 .. Len(Asked(word))
  <2>1. i = 1
    BY <1>5
  <2> QED
    BY <1>2, <1>4, <1>5, <2>1
<1>9. Putting(t, got, r, 7, Asked(word))
  BY <1>3, <1>4, <1>6, <1>7, <1>8 DEF Putting, b, e
<1> QED
  BY <1>9 DEF t

\* A damaged stream.
Damaged(s, i) == [s EXCEPT !.q[i].v = 6]

\* It has the same items, but for the value of one.
LEMMA DamagedIs ==
  ASSUME NEW s, Arrived(s), NEW i \in DOMAIN s.q
  PROVE  /\ Arrived(Damaged(s, i)) /\ Len(Damaged(s, i).q) = Len(s.q)
         /\ \A j \in 1 .. Len(s.q) : j # i => Damaged(s, i).q[j] = s.q[j]
         /\ Damaged(s, i).q[i] = [kind |-> s.q[i].kind, v |-> 6]
<1> DEFINE q == s.q
           n == s.n
<1>1. q \in Seq(Item) /\ n \in Nat /\ n = Len(q) /\ s = [q |-> q, n |-> n]
  BY DEF Arrived, Stream
<1>2. Damaged(s, i) = [q |-> [q EXCEPT ![i].v = 6], n |-> n]
  <2>1. Damaged(s, i) = [s EXCEPT !.q = [s.q EXCEPT ![i].v = 6]]
    BY DEF Damaged
  <2> DEFINE z == [s.q EXCEPT ![i].v = 6]
  <2> HIDE DEF z
  <2>2. Damaged(s, i) = [s EXCEPT !.q = z]
    BY <2>1 DEF z
  <2> HIDE DEF q, n
  <2>3. Damaged(s, i) = [q |-> z, n |-> n]
    BY <1>1, <2>2
  <2> QED
    BY <2>3 DEF z, q
<1> HIDE DEF q, n
<1>3. i \in 1 .. Len(q)
  BY <1>1 DEF q
<1>4. q[i] \in Item
  BY <1>1, <1>3, ElementOfSeq
<1> DEFINE x == [kind |-> q[i].kind, v |-> 6]
<1>5. x \in Item /\ [q[i] EXCEPT !.v = 6] = x
  BY <1>4 DEF Item
<1> HIDE DEF x
<1>6. [q EXCEPT ![i].v = 6] = [q EXCEPT ![i] = x]
  BY <1>5
<1> DEFINE z == [q EXCEPT ![i] = x]
<1>7. /\ z \in Seq(Item) /\ Len(z) = Len(q)
      /\ \A j \in 1 .. Len(q) : j # i => z[j] = q[j]
      /\ z[i] = x
  BY <1>1, <1>3, <1>5
<1> HIDE DEF z
<1>8. Damaged(s, i) = [q |-> z, n |-> n]
  BY <1>2, <1>6 DEF z
<1>9. Damaged(s, i).q = z /\ Arrived(Damaged(s, i))
  BY <1>1, <1>7, <1>8 DEF Arrived, Stream
<1> QED
  BY <1>7, <1>9 DEF q, x

\* Damage is to the data only, and a result stays on its way.
LEMMA PuttingDamaged ==
  ASSUME NEW r \in Result, NEW s, Arrived(s), NEW got \in Seq(Seq(Nat)), NEW m,
         NEW tail \in Seq(Item), \A j \in 1 .. Len(tail) : tail[j].kind # "data",
         Putting(s, got, r, m, tail), NEW i \in DOMAIN s.q, s.q[i].kind = "data"
  PROVE  Putting(Damaged(s, i), got, r, m, tail)
<1> DEFINE t == Damaged(s, i)
           b == PutStart(r, Len(got))
           e == PutStart(r, m)
<1>1. /\ Len(got) \in 0 .. 6 /\ m \in 0 .. 7 /\ Len(got) <= m
      /\ b \in Nat /\ e \in Nat /\ Len(tail) \in Nat /\ b <= e
  BY PuttingPlace
<1>2. /\ Len(t.q) = Len(s.q)
      /\ \A j \in 1 .. Len(s.q) : j # i => t.q[j] = s.q[j]
      /\ t.q[i] = [kind |-> s.q[i].kind, v |-> 6]
  BY DamagedIs
<1>3. /\ Len(s.q) = e - b + Len(tail)
      /\ \A p \in (b + 1) .. e :
            IF p <= 11 THEN s.q[p - b] = [kind |-> "other", v |-> PutWord(r, p)]
            ELSE DataWord(r, p - 11, s.q[p - b])
      /\ \A j \in 1 .. Len(tail) : s.q[e - b + j] = tail[j]
      /\ \A j \in 1 .. Len(got) : got[j] = PutMessage(r)[j]
  BY DEF Putting
<1> HIDE DEF t, b, e
<1>4. \A p \in (b + 1) .. e :
         IF p <= 11 THEN t.q[p - b] = [kind |-> "other", v |-> PutWord(r, p)]
         ELSE DataWord(r, p - 11, t.q[p - b])
  <2> TAKE p \in (b + 1) .. e
  <2>1. p - b \in 1 .. Len(s.q)
    BY <1>1, <1>3
  <2>2. CASE p - b # i
    BY <1>2, <1>3, <2>1, <2>2
  <2>3. CASE p - b = i
    <3>1. ~(p <= 11)
      <4> SUFFICES ASSUME p <= 11
                   PROVE  s.q[i].kind = "other"
        OBVIOUS
      <4>1. s.q[i] = [kind |-> "other", v |-> PutWord(r, p)]
        BY <1>3, <2>3
      <4> QED
        BY <4>1
    <3> QED
      BY <1>2, <2>3, <3>1 DEF DataWord
  <2> QED
    BY <2>2, <2>3
<1>5. \A j \in 1 .. Len(tail) : t.q[e - b + j] = tail[j]
  <2> TAKE j \in 1 .. Len(tail)
  <2>1. e - b + j \in 1 .. Len(s.q)
    BY <1>1, <1>3
  <2>2. e - b + j # i
    BY <1>3
  <2> QED
    BY <1>2, <1>3, <2>1, <2>2
<1>6. Putting(t, got, r, m, tail)
  BY <1>1, <1>2, <1>3, <1>4, <1>5 DEF Putting, b, e
<1> QED
  BY <1>6 DEF t

-----------------------------------------------------------------------------
(* The answer to a GET on its way.                                           *)

\* The first eleven words of the answer.
LEMMA GetHeaderIs ==
  /\ GetHeader \in Seq(Nat) /\ Len(GetHeader) = 11
  /\ GetHeader[5] = 1 /\ GetHeader[6] = 0 /\ GetHeader[7] = 2 /\ GetHeader[8] = 0
<1> DEFINE M == MD5(Chunk)
<1>1. M \in Seq(Nat) /\ Len(M) = 2 /\ M = <<M[1], M[2]>>
  <2>1. Chunk \in Seq(Nat)
    BY DEF Chunk
  <2> QED
    BY <2>1, MD5Is
<1>2. Len(Chunk) = 2
  BY DEF Chunk
<1>3. GetHeader = <<2, 0>> \o <<3, 0>> \o <<1, 0>> \o <<2, 0>> \o M \o <<9>>
  BY <1>2, Numbers DEF GetHeader
<1> HIDE DEF M
<1> DEFINE p1 == <<1, 0>>
           p2 == <<2, 0>>
           p3 == <<3, 0>>
           c1 == p2 \o p3
           c2 == c1 \o p1
           c3 == c2 \o p2
           c4 == c3 \o M
           c5 == c4 \o <<9>>
<1>4. /\ p1 \in Seq(Nat) /\ Len(p1) = 2 /\ p1[1] = 1 /\ p1[2] = 0
      /\ p2 \in Seq(Nat) /\ Len(p2) = 2 /\ p2[1] = 2 /\ p2[2] = 0
      /\ p3 \in Seq(Nat) /\ Len(p3) = 2
  OBVIOUS
<1>5. GetHeader = c5
  BY <1>3
<1> HIDE DEF p1, p2, p3
<1>6. Joined(c1, p2, p3) /\ c1 \in Seq(Nat)
  BY <1>4, Concatenated
<1>7. c1 \in Seq(Nat) /\ Len(c1) = 4
  <2> HIDE DEF c1
  <2> QED
    BY <1>4, <1>6 DEF Joined
<1> HIDE DEF c1
<1>8. Joined(c2, c1, p1) /\ c2 \in Seq(Nat)
  BY <1>4, <1>7, Concatenated
<1>9. c2 \in Seq(Nat) /\ Len(c2) = 6 /\ c2[5] = 1 /\ c2[6] = 0
  <2> HIDE DEF c2
  <2>1. 1 \in 1 .. 2 /\ 2 \in 1 .. 2
    OBVIOUS
  <2> QED
    BY <1>4, <1>7, <1>8, <2>1 DEF Joined
<1> HIDE DEF c2
<1>10. Joined(c3, c2, p2) /\ c3 \in Seq(Nat)
  BY <1>4, <1>9, Concatenated
<1>11. /\ c3 \in Seq(Nat) /\ Len(c3) = 8
       /\ c3[5] = 1 /\ c3[6] = 0 /\ c3[7] = 2 /\ c3[8] = 0
  <2> HIDE DEF c3
  <2>1. c3[5] = 1 /\ c3[6] = 0
    BY <1>9, <1>10 DEF Joined
  <2>2. c3[7] = 2 /\ c3[8] = 0
    BY <1>4, <1>9, <1>10 DEF Joined
  <2> QED
    BY <1>4, <1>9, <1>10, <2>1, <2>2 DEF Joined
<1> HIDE DEF c3
<1>12. Joined(c4, c3, M) /\ c4 \in Seq(Nat)
  BY <1>1, <1>11, Concatenated
<1>13. /\ c4 \in Seq(Nat) /\ Len(c4) = 10
       /\ c4[5] = 1 /\ c4[6] = 0 /\ c4[7] = 2 /\ c4[8] = 0
  <2> HIDE DEF c4
  <2> QED
    BY <1>1, <1>11, <1>12 DEF Joined
<1> HIDE DEF c4
<1> DEFINE z == <<9>>
<1>14. z \in Seq(Nat) /\ Len(z) = 1
  OBVIOUS
<1>17. c5 = c4 \o z
  OBVIOUS
<1> HIDE DEF z, c5
<1>15. Joined(c5, c4, z) /\ c5 \in Seq(Nat)
  BY <1>13, <1>14, <1>17, Concatenated
<1>16. /\ c5 \in Seq(Nat) /\ Len(c5) = 11
       /\ c5[5] = 1 /\ c5[6] = 0 /\ c5[7] = 2 /\ c5[8] = 0
  <2>1. Len(c5) = 11 /\ \A i \in 1 .. 10 : c5[i] = c4[i]
    BY <1>13, <1>14, <1>15 DEF Joined
  <2>2. c5[5] = c4[5] /\ c5[6] = c4[6] /\ c5[7] = c4[7] /\ c5[8] = c4[8]
    BY <2>1
  <2> QED
    BY <1>13, <1>15, <2>1, <2>2
<1> QED
  BY <1>5, <1>16

\* What follows the flag of the server to a client that goes on.
LEMMA GettingStarts ==
  ASSUME NEW s, Arrived(s), s.q = <<>>
  PROVE  LET t == Written(Written(Written(s, <<PLD_SIG_OK>>, "other"), GetHeader, "other"),
                          Chunk, "data")
         IN  Arrived(t) /\ Getting(t, 0 - 1)
<1> DEFINE f == <<PLD_SIG_OK>>
           t1 == Written(s, f, "other")
           t2 == Written(t1, GetHeader, "other")
           t3 == Written(t2, Chunk, "data")
<1>1. f \in Seq(Nat) /\ Len(f) = 1 /\ f[1] = 0
  BY DEF PLD_SIG_OK
<1>2. Chunk \in Seq(Nat) /\ Len(Chunk) = 2
  BY DEF Chunk
<1>3. Len(s.q) = 0
  OBVIOUS
<1> HIDE DEF f
<1>4. Added(t1, s, f, "other")
  BY <1>1, WrittenIs
<1>5. Arrived(t1) /\ Len(t1.q) = 1 /\ t1.q[1] = [kind |-> "other", v |-> 0]
  <2>1. 1 \in 1 .. Len(f)
    BY <1>1
  <2> HIDE DEF t1
  <2> QED
    BY <1>1, <1>3, <1>4, <2>1 DEF Added
<1> HIDE DEF t1
<1>6. Added(t2, t1, GetHeader, "other")
  BY <1>5, GetHeaderIs, WrittenIs
<1>7. /\ Arrived(t2) /\ Len(t2.q) = 12
      /\ t2.q[1] = [kind |-> "other", v |-> 0]
      /\ \A i \in 1 .. 11 : t2.q[1 + i] = [kind |-> "other", v |-> GetHeader[i]]
  <2> HIDE DEF t2
  <2> QED
    BY <1>5, <1>6, GetHeaderIs DEF Added
<1> HIDE DEF t2
<1>8. Added(t3, t2, Chunk, "data")
  BY <1>2, <1>7, WrittenIs
<1>9. /\ Arrived(t3) /\ Len(t3.q) = 14
      /\ \A i \in 1 .. 12 : t3.q[i] = t2.q[i]
  <2> HIDE DEF t3
  <2> QED
    BY <1>2, <1>7, <1>8 DEF Added
<1>10. /\ t3.q[1] = [kind |-> "other", v |-> 0]
       /\ t3.q[6] = [kind |-> "other", v |-> 1] /\ t3.q[7] = [kind |-> "other", v |-> 0]
       /\ t3.q[8] = [kind |-> "other", v |-> 2] /\ t3.q[9] = [kind |-> "other", v |-> 0]
  <2> HIDE DEF t3
  <2>1. t3.q[1] = t2.q[1] /\ t3.q[6] = t2.q[6] /\ t3.q[7] = t2.q[7] /\ t3.q[8] = t2.q[8]
        /\ t3.q[9] = t2.q[9]
    BY <1>9
  <2>2. /\ t2.q[1 + 5] = [kind |-> "other", v |-> 1] /\ t2.q[1 + 6] = [kind |-> "other", v |-> 0]
        /\ t2.q[1 + 7] = [kind |-> "other", v |-> 2] /\ t2.q[1 + 8] = [kind |-> "other", v |-> 0]
    BY <1>7, GetHeaderIs
  <2> QED
    BY <1>7, <2>1, <2>2
<1> HIDE DEF t3
<1>11. Getting(t3, 0 - 1)
  BY <1>9, <1>10 DEF Getting, GetWord
<1> QED
  BY <1>9, <1>11 DEF t1, t2, t3, f

\* The client reads the flag.
LEMMA GettingFlag ==
  ASSUME NEW s, Arrived(s), Getting(s, 0 - 1)
  PROVE  1 <= Len(s.q) /\ Got(s, 1) = <<PLD_SIG_OK>> /\ Getting(Rest(s, 1), 0)
<1>1. /\ Len(s.q) = 14 /\ s.q[1].v = 0
      /\ \A p \in {5, 6, 7, 8} : s.q[p + 1] = [kind |-> "other", v |-> GetWord(p)]
  BY DEF Getting, GetWord
<1>2. /\ Len(Rest(s, 1).q) = 13
      /\ \A i \in 1 .. 13 : Rest(s, 1).q[i] = s.q[1 + i]
      /\ Got(s, 1) \in Seq(Nat) /\ Len(Got(s, 1)) = 1 /\ Got(s, 1)[1] = s.q[1].v
  <2> DEFINE w == 1
  <2>1. w \in Nat /\ w <= Len(s.q) /\ w = 1
    BY <1>1
  <2> HIDE DEF w
  <2>2. Taken(Rest(s, w), Got(s, w), s, w)
    BY <2>1, ReadIs
  <2> DEFINE R == Rest(s, 1)
             G == Got(s, 1)
  <2>3. Taken(R, G, s, 1)
    BY <2>1, <2>2
  <2> HIDE DEF R, G
  <2>4. /\ Len(R.q) = 13
        /\ \A i \in 1 .. 13 : R.q[i] = s.q[1 + i]
        /\ G \in Seq(Nat) /\ Len(G) = 1 /\ G[1] = s.q[1].v
    BY <1>1, <2>3 DEF Taken
  <2> QED
    BY <2>4 DEF R, G
<1>3. Got(s, 1) = <<0>>
  BY <1>1, <1>2, OneIs
<1>4. \A p \in {5, 6, 7, 8} : Rest(s, 1).q[p - 0] = [kind |-> "other", v |-> GetWord(p)]
  <2> SUFFICES ASSUME NEW p \in {5, 6, 7, 8}
               PROVE  Rest(s, 1).q[p - 0] = [kind |-> "other", v |-> GetWord(p)]
    OBVIOUS
  <2>1. p \in 1 .. 13 /\ p - 0 = p /\ 1 + p = p + 1
    OBVIOUS
  <2>2. Rest(s, 1).q[p] = s.q[1 + p]
    BY <1>2, <2>1
  <2>3. s.q[p + 1] = [kind |-> "other", v |-> GetWord(p)]
    BY <1>1
  <2> QED
    BY <2>1, <2>2, <2>3
<1>5. Getting(Rest(s, 1), 0)
  BY <1>2, <1>4 DEF Getting
<1> QED
  BY <1>1, <1>3, <1>5 DEF PLD_SIG_OK

\* The numbers of the words of the answer.
LEMMA GetStarts ==
  /\ GetStart(0) = 0 /\ GetStart(1) = 2 /\ GetStart(2) = 4 /\ GetStart(3) = 6
  /\ GetStart(4) = 8 /\ GetStart(5) = 10 /\ GetStart(6) = 11 /\ GetStart(7) = 13
  BY DEF GetStart

\* C_get reads as many words as S_get writes for the field.
LEMMA GetWidthIs ==
  ASSUME NEW got \in Seq(Seq(Nat)), Len(got) \in 0 .. 6, Sizes(got)
  PROVE  /\ C_getWidth(got) \in {1, 2}
         /\ GetStart(Len(got) + 1) = GetStart(Len(got)) + C_getWidth(got)
         /\ Len(got) < 5 => C_getWidth(got) = 2
<1> DEFINE k == Len(got)
           w == C_getWidth(got)
<1>1. k \in 0 .. 6
  OBVIOUS
<1>2. k < 5 => w = 2
  BY DEF C_getWidth
<1>3. k = 5 => w = 1
  BY DEF C_getWidth, Value, Sizes
<1>4. k = 6 => w = 2
  BY DEF C_getWidth, Value, Sizes
<1> HIDE DEF k, w
<1>5. k \in {0, 1, 2, 3, 4, 5, 6}
  BY <1>1
<1>6. GetStart(k) = IF k < 6 THEN 2 * k ELSE 11
  BY <1>5 DEF GetStart
<1>7. GetStart(k + 1) = IF k < 5 THEN 2 * k + 2 ELSE 2 * k + 1
  BY <1>5 DEF GetStart
<1>8. w \in {1, 2} /\ GetStart(k + 1) = GetStart(k) + w /\ (k < 5 => w = 2)
  BY <1>2, <1>3, <1>4, <1>5, <1>6, <1>7
<1> QED
  BY <1>8 DEF k, w

\* C_get reads the next field whole, and nothing is left after the last one.
LEMMA GettingRead ==
  ASSUME NEW s, Arrived(s), NEW got \in Seq(Seq(Nat)), Len(got) \in 0 .. 6, Sizes(got),
         Getting(s, GetStart(Len(got)))
  PROVE  LET w == C_getWidth(got)
         IN  /\ w \in {1, 2} /\ w <= Len(s.q) /\ Len(Got(s, w)) = w
             /\ Got(s, w) \in Seq(Nat)
             /\ Getting(Rest(s, w), GetStart(Len(got) + 1))
             /\ Sizes(Append(got, Got(s, w)))
<1> DEFINE k == Len(got)
           w == C_getWidth(got)
           b == GetStart(k)
           c == GetStart(k + 1)
           R == Rest(s, w)
           G == Got(s, w)
<1>1. w \in {1, 2} /\ c = b + w /\ (k < 5 => w = 2) /\ k \in 0 .. 6
  BY GetWidthIs
<1>2. b \in Nat /\ c <= 13
  BY GetStarts DEF GetStart
<1>3. /\ Len(s.q) = 13 - b
      /\ \A p \in (b + 1) .. 13 :
            p \in {0, 5, 6, 7, 8} => s.q[p - b] = [kind |-> "other", v |-> GetWord(p)]
  BY DEF Getting
<1>4. k = 2 => b = 4
  BY GetStarts
<1>5. k = 3 => b = 6
  BY GetStarts
<1> HIDE DEF k, b, c
<1>6. w \in Nat /\ w <= Len(s.q)
  <2> HIDE DEF w
  <2> QED
    BY <1>1, <1>2, <1>3
<1>7. Taken(R, G, s, w)
  BY <1>6, ReadIs
<1> HIDE DEF w, R, G
<1>8. G \in Seq(Nat) /\ Len(G) = w /\ Len(R.q) = 13 - c
  BY <1>1, <1>2, <1>3, <1>7 DEF Taken
<1>9. \A p \in (c + 1) .. 13 :
         p \in {0, 5, 6, 7, 8} => R.q[p - c] = [kind |-> "other", v |-> GetWord(p)]
  <2> SUFFICES ASSUME NEW p \in (c + 1) .. 13, p \in {0, 5, 6, 7, 8}
               PROVE  R.q[p - c] = [kind |-> "other", v |-> GetWord(p)]
    OBVIOUS
  <2>1. p - c \in 1 .. (Len(s.q) - w) /\ w + (p - c) = p - b /\ p \in (b + 1) .. 13
    BY <1>1, <1>2, <1>3
  <2>2. R.q[p - c] = s.q[w + (p - c)]
    BY <1>7, <2>1 DEF Taken
  <2>3. s.q[p - b] = [kind |-> "other", v |-> GetWord(p)]
    BY <1>3, <2>1
  <2> QED
    BY <2>1, <2>2, <2>3
<1>10. Getting(R, c)
  BY <1>8, <1>9 DEF Getting
<1>11. k = 2 => G = <<1, 0>>
  <2> SUFFICES ASSUME k = 2
               PROVE  G = <<1, 0>>
    OBVIOUS
  <2>1. s.q[1].v = 1 /\ s.q[2].v = 0
    <3>1. 5 - b = 1 /\ 6 - b = 2 /\ 5 \in (b + 1) .. 13 /\ 6 \in (b + 1) .. 13
      BY <1>4
    <3>2. s.q[1] = [kind |-> "other", v |-> GetWord(5)]
          /\ s.q[2] = [kind |-> "other", v |-> GetWord(6)]
      BY <1>3, <3>1
    <3> QED
      BY <3>2 DEF GetWord
  <2>2. Len(G) = 2 /\ G[1] = 1 /\ G[2] = 0
    BY <1>1, <1>7, <2>1 DEF Taken
  <2> QED
    BY <1>8, <2>2
<1>12. k = 3 => G = <<2, 0>>
  <2> SUFFICES ASSUME k = 3
               PROVE  G = <<2, 0>>
    OBVIOUS
  <2>1. s.q[1].v = 2 /\ s.q[2].v = 0
    <3>1. 7 - b = 1 /\ 8 - b = 2 /\ 7 \in (b + 1) .. 13 /\ 8 \in (b + 1) .. 13
      BY <1>5
    <3>2. s.q[1] = [kind |-> "other", v |-> GetWord(7)]
          /\ s.q[2] = [kind |-> "other", v |-> GetWord(8)]
      BY <1>3, <3>1
    <3> QED
      BY <3>2 DEF GetWord
  <2>2. Len(G) = 2 /\ G[1] = 2 /\ G[2] = 0
    BY <1>1, <1>7, <2>1 DEF Taken
  <2> QED
    BY <1>8, <2>2
<1>13. Sizes(Append(got, G))
  <2>1. /\ Len(Append(got, G)) = k + 1
        /\ \A j \in 1 .. k : Append(got, G)[j] = got[j]
        /\ Append(got, G)[k + 1] = G
    BY <1>8 DEF k
  <2>2. Len(got) = k
    BY DEF k
  <2> DEFINE a == Append(got, G)
  <2> HIDE DEF a
  <2>3. /\ Len(a) = k + 1 /\ (\A j \in 1 .. k : a[j] = got[j]) /\ a[k + 1] = G
    BY <2>1 DEF a
  <2>4. Len(a) >= 3 => a[3] = <<1, 0>>
    BY <1>1, <1>11, <2>2, <2>3 DEF Sizes
  <2>5. Len(a) >= 4 => a[4] = <<2, 0>>
    BY <1>1, <1>12, <2>2, <2>3 DEF Sizes
  <2>6. Sizes(a)
    BY <2>4, <2>5 DEF Sizes
  <2> QED
    BY <2>6 DEF a
<1> QED
  BY <1>1, <1>6, <1>8, <1>10, <1>13 DEF k, w, c, R, G

\* Damage is to the chunk only.
LEMMA GettingDamaged ==
  ASSUME NEW s, Arrived(s), NEW b \in Int, Getting(s, b),
         NEW i \in DOMAIN s.q, s.q[i].kind = "data"
  PROVE  Getting(Damaged(s, i), b)
<1> DEFINE t == Damaged(s, i)
<1>1. /\ Len(t.q) = Len(s.q)
      /\ \A j \in 1 .. Len(s.q) : j # i => t.q[j] = s.q[j]
  BY DamagedIs
<1>2. /\ Len(s.q) = 13 - b
      /\ \A p \in (b + 1) .. 13 :
            p \in {0, 5, 6, 7, 8} => s.q[p - b] = [kind |-> "other", v |-> GetWord(p)]
  BY DEF Getting
<1> HIDE DEF t
<1>3. \A p \in (b + 1) .. 13 :
         p \in {0, 5, 6, 7, 8} => t.q[p - b] = [kind |-> "other", v |-> GetWord(p)]
  <2> SUFFICES ASSUME NEW p \in (b + 1) .. 13, p \in {0, 5, 6, 7, 8}
               PROVE  t.q[p - b] = [kind |-> "other", v |-> GetWord(p)]
    OBVIOUS
  <2>1. s.q[p - b] = [kind |-> "other", v |-> GetWord(p)]
    BY <1>2
  <2>2. p - b # i
    <3>1. s.q[p - b].kind = "other"
      BY <2>1
    <3> QED
      BY <3>1
  <2>3. p - b \in 1 .. Len(s.q)
    BY <1>2
  <2> QED
    BY <1>1, <2>1, <2>2, <2>3
<1>4. Getting(t, b)
  BY <1>1, <1>2, <1>3 DEF Getting
<1> QED
  BY <1>4 DEF t

\* The answer to an INFO is a sequence of words.
LEMMA InfoMessageIs == InfoMessage \in Seq(Nat)
<1>1. \A x \in Nat : Number(x, 1) \in Seq(Nat) /\ Number(x, 2) \in Seq(Nat)
  <2> TAKE x \in Nat
  <2>1. <<x>> \in Seq(Nat) /\ <<x, 0>> \in Seq(Nat)
    OBVIOUS
  <2> QED
    BY <2>1, Numbers
<1> DEFINE a == Number(1, 2)
           b == Number(0, 2)
           c == Number(1, 1)
           d == Number(9, 2)
<1>2. a \in Seq(Nat) /\ b \in Seq(Nat) /\ c \in Seq(Nat) /\ d \in Seq(Nat)
  BY <1>1
<1>3. InfoMessage = a \o b \o b \o b \o c \o d
  BY DEF InfoMessage
<1> HIDE DEF a, b, c, d
<1>4. a \o b \in Seq(Nat)
  BY <1>2
<1>5. a \o b \o b \in Seq(Nat)
  BY <1>2, <1>4, Concatenated
<1>6. a \o b \o b \o b \in Seq(Nat)
  BY <1>2, <1>5, Concatenated
<1>7. a \o b \o b \o b \o c \in Seq(Nat)
  BY <1>2, <1>6, Concatenated
<1> QED
  BY <1>2, <1>3, <1>7, Concatenated

\* Nothing that the checksum lets pass is damaged.
LEMMA ChecksumTells ==
  ASSUME NEW r \in Result, NEW d \in Seq(Nat), Len(d) = Len(r.data),
         \A p \in 1 .. Len(d) : d[p] \in {r.data[p], 6}, MD5(d) = MD5(r.data)
  PROVE  d = r.data
<1>1. CASE r.data = <<>>
  BY <1>1
<1>2. CASE r.data = <<4, 5>>
  <2>1. Len(d) = 2 /\ d[1] \in {4, 6} /\ d[2] \in {5, 6}
    BY <1>2
  <2>6. d # <<>>
    <3> SUFFICES ASSUME d = <<>>
                 PROVE  Len(d) = 0
      BY <2>1
    <3> QED
      OBVIOUS
  <2>7. Last(d) = d[Len(d)]
    BY DEF Last
  <2>2. d # <<>> /\ Last(d) = d[2]
    BY <2>1, <2>6, <2>7
  <2>3. MD5(d)[2] = 8 * d[1] + d[2]
    BY <2>2 DEF MD5
  <2>4. MD5(r.data)[2] = 8 * 4 + 5
    BY <1>2 DEF MD5, Last
  <2>5. d[1] = 4 /\ d[2] = 5
    BY <2>1, <2>3, <2>4
  <2> QED
    BY <1>2, <2>1, <2>5
<1> QED
  BY <1>1, <1>2 DEF Result

-----------------------------------------------------------------------------
(* The steps while every delivery comes whole.                               *)

\* One word written to an empty stream.
LEMMA WrittenOne ==
  ASSUME NEW s, Arrived(s), s.q = <<>>, NEW x \in Nat,
         NEW kind \in {"action", "data", "other"}
  PROVE  /\ Arrived(Written(s, <<x>>, kind))
         /\ Written(s, <<x>>, kind).q = <<[kind |-> kind, v |-> x]>>
<1> DEFINE f == <<x>>
           t == Written(s, f, kind)
<1>1. f \in Seq(Nat) /\ Len(f) = 1 /\ f[1] = x
  OBVIOUS
<1> HIDE DEF f
<1>2. Added(t, s, f, kind)
  BY <1>1, WrittenIs
<1>3. Len(s.q) = 0
  OBVIOUS
<1> HIDE DEF t
<1>4. Arrived(t) /\ Len(t.q) = 1 /\ t.q[1] = [kind |-> kind, v |-> x]
  BY <1>1, <1>2, <1>3 DEF Added
<1> DEFINE q == t.q
<1>5. q \in Seq(Item) /\ Len(q) = 1
  BY <1>4 DEF Arrived, Stream
<1> HIDE DEF q
<1>6. q = <<q[1]>>
  BY <1>5, OneIs
<1> QED
  BY <1>4, <1>6 DEF q, t, f

\* The client asks for a chunk, also when the server has not read all of the
\* result before it.
LEMMA AskGetKeeps ==
  ASSUME TwoSides, AskGet
  PROVE  TwoSides'
<1>1. /\ cpc = "idle" /\ cpc' = "GET" /\ up' = Written(up, <<PLD_GET>>, "action")
      /\ down' = down /\ cgot' = cgot /\ result' = result
      /\ spc' = spc /\ sgot' = sgot /\ taken' = taken /\ stored' = stored
  BY DEF AskGet, Ask, server
<1>2. Typed /\ taken = "action" /\ AcceptedIntact /\ Idle
  BY <1>1 DEF TwoSides, Exchange
<1>3. <<PLD_GET>> \in Seq(Nat) /\ PLD_GET \in Nat
  BY DEF PLD_GET
<1>4. Arrived(up)
  BY <1>2 DEF Typed
<1>5. Added(up', up, <<PLD_GET>>, "action")
  BY <1>1, <1>3, <1>4, WrittenIs
<1>6. Typed'
  BY <1>1, <1>2, <1>5 DEF Typed, Added, Waiting
<1>7. Waited'
  <2>1. CASE spc = "wait" /\ up.q = <<>>
    <3>1. up'.q = Asked(PLD_GET)
      BY <1>1, <1>3, <1>4, <2>1, WrittenOne DEF Asked
    <3> QED
      BY <1>1, <1>2, <2>1, <3>1 DEF Waited, Idle, Word
  <2>2. CASE spc = "put" /\ Putting(up, sgot, result, 7, <<>>)
    <3>1. Putting(up', sgot', result', 7, Asked(PLD_GET))
      BY <1>1, <1>2, <1>3, <2>2, PuttingAsk DEF Typed
    <3> QED
      BY <1>1, <1>2, <2>2, <3>1 DEF Waited, Idle
  <2> QED
    BY <1>2, <2>1, <2>2 DEF Idle
<1>8. Exchange'
  BY <1>1, <1>7 DEF Exchange
<1>9. AcceptedIntact'
  BY <1>1, <1>2 DEF AcceptedIntact
<1> QED
  BY <1>1, <1>2, <1>6, <1>8, <1>9 DEF TwoSides

\* Any other action is asked for when both streams are empty.
LEMMA AskKeeps ==
  ASSUME TwoSides, spc = "wait", up.q = <<>>, down.q = <<>>, cgot = <<>>,
         NEW c \in {"PUT", "PING", "INFO"}, cpc' = c,
         up' = Written(up, <<Word(c)>>, "action"),
         down' = down, cgot' = cgot, result' \in Result,
         spc' = spc, sgot' = sgot, taken' = taken, stored' = stored
  PROVE  TwoSides'
<1>1. Typed /\ taken = "action" /\ AcceptedIntact /\ Arrived(up)
  BY DEF TwoSides, Typed
<1>2. Word(c) \in Nat
  BY DEF Word, PLD_PUT, PLD_PING, PLD_INFO
<1>3. Arrived(up') /\ up'.q = Asked(Word(c))
  BY <1>1, <1>2, WrittenOne DEF Asked
<1>4. Typed'
  BY <1>1, <1>3 DEF Typed, Waiting
<1>5. Waited'
  BY <1>3 DEF Waited
<1>6. Exchange'
  BY <1>5 DEF Exchange
<1> QED
  BY <1>1, <1>4, <1>6 DEF TwoSides, AcceptedIntact

\* What AskProbe and AskPut do to an idle exchange.
LEMMA AskOtherKeeps ==
  ASSUME TwoSides, AskProbe \/ AskPut
  PROVE  TwoSides'
<1>1. cpc \in {"probe", "run"} /\ Typed /\ Idle
  BY DEF AskProbe, AskPut, TwoSides, Exchange
<1>2. spc = "wait" /\ up.q = <<>> /\ down.q = <<>> /\ cgot = <<>>
  BY <1>1 DEF Idle, Typed
<1>3. CASE AskProbe
  <2>1. PICK c \in {"PING", "INFO"} : Ask(c, Word(c))
    BY <1>3 DEF AskProbe, Word
  <2> QED
    BY <1>1, <1>2, <1>3, <2>1, AskKeeps DEF AskProbe, Ask, server, Typed
<1>4. CASE AskPut
  <2>1. Ask("PUT", Word("PUT")) /\ result' \in Result
    BY <1>4 DEF AskPut, Word
  <2> QED
    BY <1>1, <1>2, <2>1, AskKeeps DEF Ask, server
<1> QED
  BY <1>3, <1>4

\* One word read of a stream that has some, and what is read of one that has one.
LEMMA ReadOne ==
  ASSUME NEW s, Arrived(s), Len(s.q) >= 1
  PROVE  /\ Arrived(Rest(s, 1)) /\ Got(s, 1) = <<s.q[1].v>>
         /\ Len(s.q) = 1 => Rest(s, 1).q = <<>>
<1> DEFINE w == 1
<1>1. w \in Nat /\ w <= Len(s.q) /\ w = 1
  OBVIOUS
<1> HIDE DEF w
<1>2. Taken(Rest(s, w), Got(s, w), s, w)
  BY <1>1, ReadIs
<1> DEFINE R == Rest(s, 1)
           G == Got(s, 1)
           q == Rest(s, 1).q
<1>3. Taken(R, G, s, 1)
  BY <1>1, <1>2
<1> HIDE DEF R, G
<1>4. Arrived(R) /\ G \in Seq(Nat) /\ Len(G) = 1 /\ G[1] = s.q[1].v
  BY <1>3 DEF Taken
<1>5. Len(s.q) = 1 => Len(R.q) = 0
  BY <1>3 DEF Taken
<1>6. R.q \in Seq(Item)
  BY <1>4 DEF Arrived, Stream
<1>7. Len(s.q) = 1 => R.q = <<>>
  BY <1>5, <1>6, NoneIs
<1>8. G = <<G[1]>>
  BY <1>4, OneIs
<1> QED
  BY <1>4, <1>7, <1>8 DEF R, G

\* The client reads the flag of its action.
LEMMA ReadFlagKeeps ==
  ASSUME TwoSides, ReadFlag
  PROVE  TwoSides'
<1>1. /\ cpc \in Waiting /\ down' = Rest(down, 1)
      /\ up' = up /\ cgot' = cgot /\ result' = result
      /\ spc' = spc /\ sgot' = sgot /\ taken' = taken /\ stored' = stored
  BY DEF ReadFlag, server
<1>2. Typed /\ taken = "action" /\ AcceptedIntact /\ Waited
  BY <1>1 DEF TwoSides, Exchange
<1>3. Arrived(down) /\ Len(down.q) \in Nat /\ down.n = Len(down.q)
  BY <1>2 DEF Typed, Arrived, Stream
<1>4. Len(down.q) >= 1
  <2>1. down.n >= 1 \/ spc = "closed"
    BY DEF ReadFlag, Returns, ServerGone
  <2>2. CASE spc = "closed"
    <3>1. down.q = Other(PLD_SIG_STOP)
      BY <1>2, <2>2 DEF Waited
    <3>2. Len(Other(PLD_SIG_STOP)) = 1
      BY DEF Other
    <3> QED
      BY <3>1, <3>2
  <2> QED
    BY <1>3, <2>1, <2>2
<1>5. /\ Arrived(down') /\ Got(down, 1) = <<down.q[1].v>>
      /\ Len(down.q) = 1 => down'.q = <<>>
  BY <1>1, <1>3, <1>4, ReadOne
<1>6. cgot = <<>> /\ cgot \in Seq(Seq(Nat)) /\ Len(cgot) = 0
  BY <1>1, <1>2 DEF Typed, Waiting
<1>7. cpc' \in {"get", "off", "put", "ping", "info"}
  BY <1>1 DEF ReadFlag, Waiting
<1>8. Typed'
  BY <1>1, <1>2, <1>5, <1>6, <1>7 DEF Typed
<1>9. Exchange'
  <2>1. CASE cpc = "GET" /\ up.q = <<>> /\ spc = "wait" /\ Getting(down, 0 - 1)
    <3>1. Got(down, 1) = <<0>> /\ Getting(down', 0)
      BY <1>1, <1>3, <2>1, GettingFlag DEF PLD_SIG_OK
    <3>2. Got(down, 1) # <<>> /\ Got(down, 1) # <<PLD_SIG_STOP>>
      BY <3>1 DEF PLD_SIG_STOP
    <3>3. cpc' = "get"
      BY <2>1, <3>2 DEF ReadFlag
    <3>4. InGet'
      BY <1>1, <1>6, <2>1, <3>1, GetStarts DEF InGet, Sizes
    <3> QED
      BY <3>3, <3>4 DEF Exchange, Waiting
  <2>2. CASE cpc = "GET" /\ up.q = <<>> /\ spc = "closed" /\ down.q = Other(PLD_SIG_STOP)
    <3>1. Got(down, 1) = <<PLD_SIG_STOP>>
      BY <1>5, <2>2 DEF Other
    <3>2. cpc' = "off"
      BY <2>2, <3>1 DEF ReadFlag
    <3> QED
      BY <1>1, <2>2, <3>2 DEF Exchange, Waiting, Gone
  <2>3. CASE cpc = "PUT" /\ up.q = <<>> /\ spc = "put" /\ sgot = <<>> /\ Len(down.q) = 1
    <3>1. cpc' = "put"
      BY <2>3 DEF ReadFlag
    <3>2. Putting(up', sgot', result', 0, <<>>)
      BY <1>1, <1>2, <2>3, PuttingStarts DEF Typed
    <3>3. InPut'
      BY <1>1, <1>5, <1>6, <2>3, <3>2 DEF InPut
    <3> QED
      BY <3>1, <3>3 DEF Exchange, Waiting
  <2>4. CASE cpc = "PING" /\ up.q = <<>> /\ spc = "pong" /\ Len(down.q) = 1
    <3>1. cpc' = "ping"
      BY <2>4 DEF ReadFlag
    <3> QED
      BY <1>1, <1>5, <2>4, <3>1 DEF Exchange, Waiting
  <2>5. CASE cpc = "INFO" /\ up.q = <<>> /\ spc = "wait"
    <3>1. cpc' = "info"
      BY <2>5 DEF ReadFlag
    <3> QED
      BY <1>1, <2>5, <3>1 DEF Exchange, Waiting
  <2>6. CASE down.q = <<>>
    BY <1>4, <2>6
  <2> QED
    BY <1>2, <2>1, <2>2, <2>3, <2>4, <2>5, <2>6 DEF Waited
<1> QED
  BY <1>1, <1>2, <1>8, <1>9 DEF TwoSides, AcceptedIntact

\* The client reads a field of the answer.
LEMMA C_getKeeps ==
  ASSUME TwoSides, C_get
  PROVE  TwoSides'
<1> DEFINE w   == C_getWidth(cgot)
           G   == Got(down, w)
           got == Append(cgot, G)
<1>1. /\ cpc = "get" /\ down' = Rest(down, w)
      /\ up' = up /\ result' = result
      /\ spc' = spc /\ sgot' = sgot /\ taken' = taken /\ stored' = stored
  BY DEF C_get, server
<1>2. Typed /\ taken = "action" /\ AcceptedIntact /\ InGet
  BY <1>1 DEF TwoSides, Exchange
<1>3. /\ Arrived(down) /\ cgot \in Seq(Seq(Nat)) /\ Len(cgot) \in 0 .. 6 /\ Sizes(cgot)
      /\ Getting(down, GetStart(Len(cgot)))
  BY <1>2 DEF Typed, InGet
<1>4. /\ w \in {1, 2} /\ w <= Len(down.q) /\ Len(G) = w /\ G \in Seq(Nat)
      /\ Getting(down', GetStart(Len(cgot) + 1)) /\ Sizes(got)
  BY <1>1, <1>3, GettingRead
<1>5. got \in Seq(Seq(Nat)) /\ Len(got) = Len(cgot) + 1 /\ Last(got) = G
  BY <1>3, <1>4 DEF Last
<1>6. Arrived(down')
  BY <1>1, <1>3, <1>4, ReadIs DEF Taken
<1>7. /\ Len(got) < 7 => cgot' = got /\ cpc' = "get"
      /\ ~(Len(got) < 7) => cgot' = <<>> /\ cpc' \in {"run", "off"}
  <2>1. /\ cgot' = IF Len(Last(got)) = w /\ Len(got) < 7 THEN got ELSE <<>>
        /\ cpc' = CASE Len(Last(got)) = w /\ Len(got) < 7 -> "get"
                    [] Len(Last(got)) = w /\ Len(got) = 7 /\ got[5] = MD5(got[7]) -> "run"
                    [] OTHER -> "off"
    BY DEF C_get
  <2>2. Len(Last(got)) = w
    BY <1>4, <1>5
  <2>3. Len(got) \in Nat
    BY <1>5
  <2> HIDE DEF w, G, got
  <2>4. CASE Len(got) < 7
    BY <2>1, <2>2, <2>3, <2>4
  <2>5. CASE ~(Len(got) < 7)
    BY <2>1, <2>2, <2>3, <2>5
  <2> QED
    BY <2>4, <2>5
<1> DEFINE k == Len(cgot)
<1>10. k \in 0 .. 6 /\ Len(got) = k + 1
  BY <1>3, <1>5
<1> HIDE DEF w, G, got
<1>8. CASE Len(got) < 7
  <2>1. cgot' = got /\ cpc' = "get"
    BY <1>7, <1>8
  <2>2. Typed'
    BY <1>1, <1>2, <1>5, <1>6, <2>1 DEF Typed
  <2>3. InGet'
    <3> HIDE DEF k
    <3>1. Len(got) \in 0 .. 6
      BY <1>8, <1>10
    <3>2. Getting(down', GetStart(Len(got)))
      BY <1>4, <1>10 DEF k
    <3> QED
      BY <1>1, <1>2, <1>4, <2>1, <3>1, <3>2 DEF InGet
  <2> QED
    BY <1>1, <1>2, <2>1, <2>2, <2>3 DEF TwoSides, AcceptedIntact, Exchange, Waiting
<1>9. CASE ~(Len(got) < 7)
  <2>1. cgot' = <<>> /\ cpc' \in {"run", "off"}
    BY <1>7, <1>9
  <2>2. Typed'
    BY <1>1, <1>2, <1>6, <2>1 DEF Typed, Waiting
  <2>3. down'.q = <<>>
    <3>1. Len(cgot) + 1 = 7
      <4> HIDE DEF k
      <4>1. k + 1 = 7
        BY <1>9, <1>10
      <4> QED
        BY <4>1 DEF k
    <3>2. Len(down'.q) = 0
      BY <1>4, <3>1, GetStarts DEF Getting
    <3>3. down'.q \in Seq(Item)
      BY <1>6 DEF Arrived, Stream
    <3> QED
      BY <3>2, <3>3, NoneIs
  <2>4. Idle' /\ Gone'
    BY <1>1, <1>2, <2>3 DEF Idle, Gone, InGet
  <2> QED
    BY <1>1, <1>2, <2>1, <2>2, <2>4 DEF TwoSides, AcceptedIntact, Exchange, Waiting
<1> QED
  BY <1>8, <1>9

\* The client writes a field of a result.
LEMMA C_putKeeps ==
  ASSUME TwoSides, C_put
  PROVE  TwoSides'
<1> DEFINE k == Len(cgot)
           f == PutMessage(result)[k + 1]
           kind == IF k = 6 THEN "data" ELSE "other"
<1>1. /\ cpc = "put" /\ down' = down /\ result' = result
      /\ spc' = spc /\ sgot' = sgot /\ taken' = taken /\ stored' = stored
  BY DEF C_put, server
<1>2. Typed /\ taken = "action" /\ AcceptedIntact /\ InPut
  BY <1>1 DEF TwoSides, Exchange
<1>3. /\ Arrived(up) /\ result \in Result /\ sgot \in Seq(Seq(Nat)) /\ cgot \in Seq(Seq(Nat))
      /\ down.q = <<>> /\ spc # "closed"
  BY <1>2 DEF Typed, InPut
<1>4. k \in 0 .. 6
  BY <1>2 DEF InPut
<1>5. f \in Seq(Nat)
  <2> HIDE DEF k
  <2>1. k + 1 \in 1 .. 7
    BY <1>4
  <2>2. \A i \in 1 .. 7 : PutMessage(result)[i] \in Seq(Nat)
    BY <1>3, PutFields, ElementOfSeq
  <2> QED
    BY <2>1, <2>2
<1>6. /\ up' = Written(up, f, IF k + 1 = 7 THEN "data" ELSE "other")
      /\ cgot' = IF k + 1 = 7 THEN <<>> ELSE Append(cgot, f)
      /\ cpc' = IF k + 1 = 7 THEN "idle" ELSE "put"
  BY <1>3 DEF C_put, ServerGone
<1>7. k + 1 = 7 <=> k = 6
  <2> HIDE DEF k
  <2> QED
    BY <1>4
<1> HIDE DEF f
<1>8. /\ up' = Written(up, f, kind)
      /\ cgot' = IF k = 6 THEN <<>> ELSE Append(cgot, f)
      /\ cpc' = IF k = 6 THEN "idle" ELSE "put"
  BY <1>6, <1>7
<1>9. kind \in {"action", "data", "other"}
  OBVIOUS
<1> HIDE DEF kind
<1>10. Added(up', up, f, kind)
  BY <1>3, <1>5, <1>8, <1>9, WrittenIs
<1>11. k # 6 => cgot' \in Seq(Seq(Nat)) /\ Len(cgot') = k + 1
  BY <1>3, <1>5, <1>8
<1>12. Typed'
  BY <1>1, <1>2, <1>8, <1>10, <1>11 DEF Typed, Added, Waiting
<1>13. CASE spc = "put" /\ Putting(up, sgot, result, k, <<>>)
  <2>1. Putting(up', sgot', result', k + 1, <<>>)
    <3> HIDE DEF k
    <3>1. Putting(Written(up, PutMessage(result)[k + 1], IF k = 6 THEN "data" ELSE "other"),
                  sgot, result, k + 1, <<>>)
      BY <1>3, <1>4, <1>13, PuttingWrite
    <3> QED
      BY <1>1, <1>8, <3>1 DEF f, kind
  <2>2. CASE k = 6
    <3>1. Putting(up', sgot', result', 7, <<>>)
      BY <1>7, <2>1, <2>2
    <3>2. Idle' /\ cpc' = "idle"
      BY <1>1, <1>3, <1>8, <1>13, <2>2, <3>1 DEF Idle
    <3> QED
      BY <1>1, <1>2, <1>12, <3>2 DEF TwoSides, AcceptedIntact, Exchange, Waiting
  <2>3. CASE k # 6
    <3>1. Putting(up', sgot', result', Len(cgot'), <<>>) /\ Len(cgot') \in 0 .. 6
      <4> HIDE DEF k
      <4>1. Len(cgot') = k + 1
        BY <1>11, <2>3
      <4>2. k + 1 \in 0 .. 6
        BY <1>4, <2>3
      <4> QED
        BY <2>1, <4>1, <4>2
    <3>2. InPut' /\ cpc' = "put"
      BY <1>1, <1>3, <1>8, <1>13, <2>3, <3>1 DEF InPut
    <3> QED
      BY <1>1, <1>2, <1>12, <3>2 DEF TwoSides, AcceptedIntact, Exchange, Waiting
  <2> QED
    BY <2>2, <2>3
<1>14. CASE spc = "wait" /\ up.q = <<>> /\ k = 6 /\ result.data = <<>>
  <2>1. f = <<>>
    BY <1>3, <1>7, <1>14, PutFields DEF f
  <2>2. up'.q = <<>>
    <3>1. Len(f) = 0 /\ Len(up.q) = 0
      BY <1>14, <2>1
    <3>2. Len(up'.q) = 0 /\ up'.q \in Seq(Item)
      BY <1>10, <3>1 DEF Added, Arrived, Stream
    <3> QED
      BY <3>2, NoneIs
  <2>3. Idle' /\ cpc' = "idle"
    BY <1>1, <1>3, <1>8, <1>14, <2>2 DEF Idle
  <2> QED
    BY <1>1, <1>2, <1>12, <2>3 DEF TwoSides, AcceptedIntact, Exchange, Waiting
<1> QED
  BY <1>2, <1>13, <1>14 DEF InPut

\* A PING and its answer.
LEMMA C_pingKeeps ==
  ASSUME TwoSides, C_ping
  PROVE  TwoSides'
<1>1. /\ cpc \in {"ping", "pong"} /\ cgot' = cgot /\ result' = result
      /\ spc' = spc /\ sgot' = sgot /\ taken' = taken /\ stored' = stored
  BY DEF C_ping, server
<1>2. Typed /\ taken = "action" /\ AcceptedIntact
  BY DEF TwoSides
<1>3. Arrived(up) /\ Arrived(down) /\ cgot = <<>>
  BY <1>1, <1>2 DEF Typed
<1>4. CASE cpc = "ping"
  <2>1. cpc' = "pong" /\ up' = Written(up, <<9>>, "other") /\ down' = down
    BY <1>4 DEF C_ping
  <2>2. spc = "pong" /\ up.q = <<>> /\ down.q = <<>>
    BY <1>4 DEF TwoSides, Exchange
  <2>3. Arrived(up') /\ up'.q = Other(9)
    BY <1>3, <2>1, <2>2, WrittenOne DEF Other
  <2>4. Typed'
    BY <1>1, <1>2, <2>1, <2>3 DEF Typed
  <2>5. InPong'
    BY <1>1, <2>1, <2>2, <2>3 DEF InPong
  <2> QED
    BY <1>1, <1>2, <2>1, <2>4, <2>5 DEF TwoSides, AcceptedIntact, Exchange, Waiting
<1>5. CASE cpc = "pong"
  <2>1. cpc' = "off" /\ up' = up /\ down' = Rest(down, 1) /\ Returns(down, 1, FALSE, ServerGone)
    BY <1>5 DEF C_ping
  <2>2. InPong
    BY <1>5 DEF TwoSides, Exchange
  <2>3. Len(down.q) >= 1
    <3>1. down.n >= 1
      BY <2>1, <2>2 DEF Returns, ServerGone, InPong
    <3> QED
      BY <1>3, <3>1 DEF Arrived
  <2>4. Arrived(down')
    BY <1>3, <2>1, <2>3, ReadOne
  <2>5. Typed'
    BY <1>1, <1>2, <2>1, <2>4 DEF Typed
  <2>6. Gone'
    BY <1>1, <2>1, <2>2 DEF Gone, InPong
  <2> QED
    BY <1>1, <1>2, <2>1, <2>5, <2>6 DEF TwoSides, AcceptedIntact, Exchange, Waiting
<1> QED
  BY <1>1, <1>4, <1>5

\* The answer to an INFO.
LEMMA C_infoKeeps ==
  ASSUME TwoSides, C_info
  PROVE  TwoSides'
<1> DEFINE w == C_infoWidth(cgot)
           got == Append(cgot, Got(down, w))
<1>1. /\ cpc = "info" /\ up' = up /\ result' = result
      /\ spc' = spc /\ sgot' = sgot /\ taken' = taken /\ stored' = stored
      /\ down' = Rest(down, w)
      /\ \/ cpc' = "info" /\ cgot' = got
         \/ cpc' = "off" /\ cgot' = <<>>
  BY DEF C_info, server
<1>2. Typed /\ taken = "action" /\ AcceptedIntact /\ spc = "wait" /\ up.q = <<>>
  BY <1>1 DEF TwoSides, Exchange
<1>3. Arrived(down) /\ cgot \in Seq(Seq(Nat))
  BY <1>2 DEF Typed
<1>4. w \in Nat
  BY DEF C_infoWidth
<1> HIDE DEF w
<1>5. Arrived(down') /\ Got(down, w) \in Seq(Nat)
  BY <1>1, <1>3, <1>4, ReadTyped
<1>6. got \in Seq(Seq(Nat))
  BY <1>3, <1>5
<1> HIDE DEF got
<1>7. Typed'
  BY <1>1, <1>2, <1>5, <1>6 DEF Typed
<1>8. cpc' = "off" => Gone'
  BY <1>1, <1>2 DEF Gone
<1> QED
  BY <1>1, <1>2, <1>7, <1>8 DEF TwoSides, AcceptedIntact, Exchange, Waiting

\* The client is killed: what it has written stays in the stream.
LEMMA DieKeeps ==
  ASSUME TwoSides, Die
  PROVE  TwoSides'
<1>1. /\ cpc # "off" /\ cpc' = "off" /\ cgot' = <<>>
      /\ up' = up /\ down' = down /\ result' = result
      /\ spc' = spc /\ sgot' = sgot /\ taken' = taken /\ stored' = stored
  BY DEF Die, ClientGone, stream, server
<1>2. Typed /\ taken = "action" /\ AcceptedIntact /\ Exchange
  BY DEF TwoSides
<1>3. Typed'
  BY <1>1, <1>2 DEF Typed
<1>4. Gone
  <2>1. CASE cpc \in {"idle", "probe", "run"}
    BY <1>2, <2>1 DEF Exchange, Idle, Gone
  <2>2. CASE cpc \in Waiting
    <3>1. Word(cpc) \in Nat
      BY DEF Word, PLD_GET, PLD_PUT, PLD_PING, PLD_INFO
    <3>2. Waited
      BY <1>2, <2>2 DEF Exchange
    <3>3. CASE spc = "put" /\ up.q = <<>> /\ sgot = <<>>
      <4>1. Putting(up, sgot, result, 0, <<>>)
        BY <1>2, <3>3, PuttingStarts DEF Typed
      <4> QED
        BY <3>3, <4>1 DEF Gone
    <3> QED
      BY <3>1, <3>2, <3>3 DEF Waited, Gone
  <2>3. CASE cpc = "put"
    <3>1. InPut
      BY <1>2, <2>3 DEF Exchange
    <3>2. Len(cgot) \in 0 .. 7
      BY <3>1 DEF InPut
    <3> QED
      BY <3>1, <3>2 DEF InPut, Gone
  <2>4. CASE cpc \in {"get", "ping", "pong", "info"}
    BY <1>2, <2>4 DEF Exchange, InGet, InPong, Gone
  <2> QED
    BY <1>1, <1>2, <2>1, <2>2, <2>3, <2>4 DEF Typed
<1>5. Gone'
  BY <1>1, <1>4 DEF Gone
<1> QED
  BY <1>1, <1>2, <1>3, <1>5 DEF TwoSides, AcceptedIntact, Exchange, Waiting

\* The server closes the socket of a client that is gone.
LEMMA HangupKeeps ==
  ASSUME TwoSides, Hangup
  PROVE  TwoSides'
<1>1. /\ spc = "wait" /\ cpc = "off" /\ spc' = "closed"
      /\ up' = up /\ down' = down /\ result' = result /\ cpc' = cpc /\ cgot' = cgot
      /\ sgot' = sgot /\ taken' = taken /\ stored' = stored
  BY DEF Hangup, ClientGone, stream, client
<1>2. Typed /\ taken = "action" /\ AcceptedIntact
  BY DEF TwoSides
<1>3. Typed'
  BY <1>1, <1>2 DEF Typed
<1> QED
  BY <1>1, <1>2, <1>3 DEF TwoSides, AcceptedIntact, Exchange, Waiting, Gone

\* The server answers a PING.
LEMMA S_pongKeeps ==
  ASSUME TwoSides, S_pong
  PROVE  TwoSides'
<1>1. /\ spc = "pong" /\ spc' = "wait" /\ up' = Rest(up, 1)
      /\ result' = result /\ cpc' = cpc /\ cgot' = cgot
      /\ sgot' = sgot /\ taken' = taken /\ stored' = stored
      /\ Returns(up, 1, FALSE, cpc = "off")
  BY DEF S_pong, ClientGone, client
<1>2. Typed /\ taken = "action" /\ AcceptedIntact /\ Exchange
  BY DEF TwoSides
<1>3. Arrived(up) /\ Arrived(down) /\ up.n = Len(up.q)
  BY <1>2 DEF Typed, Arrived
<1>4. CASE up.q = <<>>
  <2>1. cpc = "off" /\ down' = down
    <3>1. up.n = 0
      BY <1>3, <1>4
    <3> QED
      BY <1>1, <3>1 DEF S_pong, Returns
  <2>2. Arrived(up') /\ up'.q = <<>>
    BY <1>1, <1>3, <1>4, ReadNothing
  <2>3. Typed'
    BY <1>1, <1>2, <2>1, <2>2 DEF Typed
  <2>4. Gone'
    BY <1>1, <2>2 DEF Gone
  <2> QED
    BY <1>1, <1>2, <2>1, <2>3, <2>4 DEF TwoSides, AcceptedIntact, Exchange, Waiting
<1>5. CASE up.q # <<>>
  <2>1. up.q = Other(9) /\ cpc \in {"pong", "off"} /\ (cpc = "pong" => down.q = <<>>)
    BY <1>1, <1>2, <1>5
    DEF Exchange, Idle, Waited, InGet, InPut, InPong, Gone, Waiting, Typed
  <2>2. Len(up.q) = 1 /\ up.q[1].v = 9
    BY <2>1 DEF Other
  <2>3. Arrived(up') /\ up'.q = <<>>
    BY <1>1, <1>3, <2>2, ReadOne
  <2>4. down' = Written(down, <<10>>, "other")
    <3>1. up.n # 0 /\ up.q[1].v + 1 = 10
      BY <1>3, <2>2
    <3> QED
      BY <3>1 DEF S_pong
  <2>5. Arrived(down') /\ Len(down'.q) = Len(down.q) + 1
    <3> DEFINE f == <<10>>
    <3>1. f \in Seq(Nat) /\ Len(f) = 1
      OBVIOUS
    <3> HIDE DEF f
    <3>2. Added(Written(down, f, "other"), down, f, "other")
      BY <1>3, <3>1, WrittenIs
    <3>3. Added(down', down, f, "other")
      BY <2>4, <3>2 DEF f
    <3> QED
      BY <3>1, <3>3 DEF Added
  <2>6. Typed'
    BY <1>1, <1>2, <2>3, <2>5 DEF Typed
  <2>7. CASE cpc = "pong"
    <3>1. Len(down'.q) = 1
      BY <2>1, <2>5, <2>7
    <3>2. InPong'
      BY <1>1, <2>3, <3>1 DEF InPong
    <3> QED
      BY <1>1, <1>2, <2>6, <2>7, <3>2 DEF TwoSides, AcceptedIntact, Exchange, Waiting
  <2>8. CASE cpc = "off"
    <3>1. Gone'
      BY <1>1, <2>3 DEF Gone
    <3> QED
      BY <1>1, <1>2, <2>6, <2>8, <3>1 DEF TwoSides, AcceptedIntact, Exchange, Waiting
  <2> QED
    BY <2>1, <2>7, <2>8
<1> QED
  BY <1>4, <1>5

\* A sequence with one more element.
LEMMA Appended ==
  ASSUME NEW S, NEW s \in Seq(S), NEW x \in S
  PROVE  /\ Append(s, x) \in Seq(S) /\ Len(Append(s, x)) = Len(s) + 1
         /\ Append(s, x)[Len(s) + 1] = x
         /\ \A j \in 1 .. Len(s) : Append(s, x)[j] = s[j]
  OBVIOUS

\* The fields that S_put has read are those of the result when the checksum is
\* that of the data.
LEMMA AcceptedIs ==
  ASSUME NEW r \in Result, NEW got \in Seq(Seq(Nat)), Len(got) = 6,
         \A j \in 1 .. Len(got) : got[j] = PutMessage(r)[j],
         NEW d \in Seq(Nat), Len(d) = Len(r.data),
         \A p \in 1 .. Len(d) : d[p] \in {r.data[p], 6},
         got[6] = MD5(d)
  PROVE  Append(got, d) = PutMessage(r)
<1>1. PutMessage(r)[6] = MD5(r.data)
  BY DEF PutMessage
<1>2. MD5(d) = MD5(r.data)
  <2>1. 6 \in 1 .. Len(got)
    OBVIOUS
  <2> QED
    BY <1>1, <2>1
<1>3. d = r.data
  BY <1>2, ChecksumTells
<1> DEFINE a == Append(got, d)
           M == PutMessage(r)
<1>4. M \in Seq(Seq(Nat)) /\ Len(M) = 7 /\ M[7] = d
  BY <1>3, PutFields
<1>5. \A j \in 1 .. 6 : got[j] = M[j]
  OBVIOUS
<1> HIDE DEF M
<1>9. /\ a \in Seq(Seq(Nat)) /\ Len(a) = Len(got) + 1 /\ a[Len(got) + 1] = d
      /\ \A j \in 1 .. Len(got) : a[j] = got[j]
  <2> DEFINE S == Seq(Nat)
  <2>1. got \in Seq(S) /\ d \in S
    OBVIOUS
  <2> HIDE DEF S
  <2>2. /\ a \in Seq(S) /\ Len(a) = Len(got) + 1 /\ a[Len(got) + 1] = d
        /\ \A j \in 1 .. Len(got) : a[j] = got[j]
    BY ONLY <2>1, Appended
  <2> QED
    BY ONLY <2>2 DEF S
<1> HIDE DEF a
<1>6. a \in Seq(Seq(Nat)) /\ Len(a) = 7 /\ a[7] = d /\ \A j \in 1 .. 6 : a[j] = got[j]
  BY <1>9
<1>7. \A j \in 1 .. 7 : a[j] = M[j]
  <2> TAKE j \in 1 .. 7
  <2>1. j \in 1 .. 6 \/ j = 7
    OBVIOUS
  <2> QED
    BY <1>4, <1>5, <1>6, <2>1
<1>8. a = M
  <2> DEFINE S == Seq(Nat)
  <2>1. /\ a \in Seq(S) /\ M \in Seq(S) /\ Len(a) = Len(M)
        /\ \A j \in 1 .. Len(a) : a[j] = M[j]
    BY <1>4, <1>6, <1>7
  <2> HIDE DEF S
  <2> QED
    BY ONLY <2>1, SameSeqs
<1> QED
  BY <1>8 DEF a, M

\* What S_put does at any place of a result on its way.
LEMMA S_putStep ==
  ASSUME TwoSides, S_put, NEW m, NEW tail \in Seq(Item),
         Putting(up, sgot, result, m, tail), m = 7 \/ tail = <<>>
  PROVE  /\ Arrived(up') /\ sgot' \in Seq(Seq(Nat)) /\ AcceptedIntact'
         /\ \/ spc' = "put" /\ Putting(up', sgot', result, m, tail)
            \/ /\ spc' = "wait" /\ sgot' = <<>> /\ up'.q = tail
               /\ m = 7 \/ cpc = "off" \/ (m = 6 /\ result.data = <<>>)
<1> DEFINE k   == Len(sgot)
           w   == S_putWidth(sgot)
           G   == Got(up, w)
           got == Append(sgot, G)
<1>1. /\ Arrived(up) /\ up.n = Len(up.q) /\ result \in Result /\ sgot \in Seq(Seq(Nat))
      /\ AcceptedIntact
  BY DEF TwoSides, Typed, Arrived
<1>2. k \in 0 .. 6 /\ m \in 0 .. 7 /\ k <= m /\ \A j \in 1 .. Len(sgot) : sgot[j] = PutMessage(result)[j]
  BY DEF Putting
<1>3. /\ w \in Nat /\ w = Len(PutMessage(result)[k + 1])
  BY <1>1, <1>2, PutWidthIs
<1>4. k = 6 => w = Len(result.data)
  <2>1. k = 6 => k + 1 = 7
    OBVIOUS
  <2> QED
    BY <1>1, <1>3, <2>1, PutFields
<1>5. Arrived(up') /\ G \in Seq(Nat) /\ up' = Rest(up, w)
  BY <1>1, <1>3, ReadTyped DEF S_put
<1>6. got \in Seq(Seq(Nat)) /\ Len(got) = k + 1 /\ Last(got) = G /\ got[k + 1] = G
  BY <1>1, <1>5 DEF Last
<1>7. /\ sgot' = IF Len(G) = w /\ Len(got) < 7 THEN got ELSE <<>>
      /\ spc' = IF Len(G) = w /\ Len(got) < 7 THEN "put" ELSE "wait"
      /\ stored' = IF Len(G) = w /\ Len(got) = 7 /\ got[6] = MD5(got[7])
                   THEN [got |-> got, put |-> result] ELSE stored
      /\ Returns(up, w, Len(got) = 7, cpc = "off")
  <2>1. /\ sgot' = IF Len(Last(got)) = w /\ Len(got) < 7 THEN got ELSE <<>>
        /\ spc' = IF Len(Last(got)) = w /\ Len(got) < 7 THEN "put" ELSE "wait"
        /\ stored' = IF Len(Last(got)) = w /\ Len(got) = 7 /\ got[6] = MD5(got[7])
                     THEN [got |-> got, put |-> result] ELSE stored
        /\ Returns(up, w, Len(got) = 7, ClientGone)
    BY DEF S_put
  <2> HIDE DEF got, G, w
  <2> QED
    BY <1>6, <2>1 DEF ClientGone
<1>8. sgot' \in Seq(Seq(Nat))
  <2>1. <<>> \in Seq(Seq(Nat))
    OBVIOUS
  <2> HIDE DEF got, G, w
  <2> QED
    BY <1>6, <1>7, <2>1
<1>9. ASSUME k = 6, Len(G) = w => \A p \in 1 .. w : G[p] \in {result.data[p], 6}
      PROVE  AcceptedIntact'
  <2>1. CASE Len(G) = w /\ got[6] = MD5(got[7])
    <3>1. got[6] = sgot[6] /\ got[7] = G
      <4>1. got[k + 1] = G /\ \A j \in 1 .. k : got[j] = sgot[j]
        BY <1>1, <1>5, Appended
      <4>2. k + 1 = 7 /\ 6 \in 1 .. k
        BY <1>9
      <4> HIDE DEF got, G, k
      <4> QED
        BY <4>1, <4>2
    <3>2. Len(G) = Len(result.data)
      BY <1>4, <1>9, <2>1
    <3>3. \A p \in 1 .. Len(G) : G[p] \in {result.data[p], 6}
      BY <1>9, <2>1
    <3>4. sgot[6] = MD5(G)
      BY <2>1, <3>1
    <3> HIDE DEF G
    <3>5. Append(sgot, G) = PutMessage(result)
      BY <1>1, <1>2, <1>5, <1>9, <3>2, <3>3, <3>4, AcceptedIs
    <3>6. Len(got) = 7
      BY <1>6, <1>9
    <3> HIDE DEF got, w
    <3>7. stored' = [got |-> got, put |-> result]
      BY <1>7, <2>1, <3>6
    <3>8. got = PutMessage(result)
      BY <3>5 DEF got
    <3>9. stored'.got = PutMessage(result) /\ stored'.put = result
      BY <3>7, <3>8
    <3> QED
      BY <3>9 DEF AcceptedIntact, PutMessage
  <2>2. CASE ~(Len(G) = w /\ got[6] = MD5(got[7]))
    <3> HIDE DEF got, G, w
    <3>1. stored' = stored
      BY <1>7, <2>2
    <3> QED
      BY <1>1, <3>1 DEF AcceptedIntact
  <2> QED
    BY <2>1, <2>2
<1>10. k # 6 => AcceptedIntact'
  <2> HIDE DEF got, G, w, k
  <2>1. k # 6 => Len(got) # 7
    BY <1>2, <1>6
  <2>2. k # 6 => stored' = stored
    BY <1>7, <2>1
  <2> QED
    BY <1>1, <2>2 DEF AcceptedIntact
<1>11. CASE k < m /\ k < 6
  <2>1. Len(G) = w /\ Putting(up', got, result, m, tail)
    BY <1>1, <1>5, <1>11, PuttingRead
  <2>2. sgot' = got /\ spc' = "put"
    <3> HIDE DEF got, G, w, k
    <3>1. Len(got) < 7
      BY <1>2, <1>6, <1>11
    <3> QED
      BY <1>7, <2>1, <3>1
  <2>3. AcceptedIntact'
    <3> HIDE DEF k
    <3>1. k # 6
      BY <1>2, <1>11
    <3> QED
      BY <1>10, <3>1
  <2> QED
    BY <1>5, <1>8, <2>1, <2>2, <2>3
<1>12. ASSUME k = 6
       PROVE  sgot' = <<>> /\ spc' = "wait"
  <2> HIDE DEF got, G, w, k
  <2>1. ~(Len(got) < 7)
    BY <1>6, <1>12
  <2> QED
    BY <1>7, <2>1
<1>13. CASE k < m /\ k = 6
  <2>1. m = 7
    BY <1>2, <1>13
  <2>2. Putting(up, sgot, result, 7, tail)
    BY <2>1
  <2>3. Len(G) = w /\ (\A p \in 1 .. w : G[p] \in {result.data[p], 6}) /\ up'.q = tail
    BY <1>1, <1>5, <1>13, <2>2, PuttingLast
  <2>4. AcceptedIntact'
    BY <1>9, <1>13, <2>3
  <2> QED
    BY <1>5, <1>8, <1>12, <1>13, <2>1, <2>3, <2>4
<1>14. CASE k = m
  <2>1. tail = <<>> /\ up.q = <<>>
    <3>1. m # 7
      BY <1>2, <1>14
    <3>2. Putting(up, sgot, result, Len(sgot), tail)
      BY <1>14
    <3> QED
      BY <1>1, <3>1, <3>2, PuttingEnd
  <2>2. G = <<>> /\ up'.q = <<>> /\ Len(G) = 0
    BY <1>1, <1>3, <1>5, <2>1, ReadNothing
  <2>3. k = 6 => AcceptedIntact'
    <3>1. Len(G) = w => \A p \in 1 .. w : G[p] \in {result.data[p], 6}
      BY <2>2
    <3> QED
      BY <1>9, <3>1
  <2>4. CASE k = 6 /\ w = 0
    <3>1. result.data = <<>>
      BY <1>1, <1>4, <2>4, ResultIs
    <3> QED
      BY <1>5, <1>8, <1>12, <1>14, <2>1, <2>2, <2>3, <2>4, <3>1
  <2>5. CASE ~(k = 6 /\ w = 0)
    <3>1. w # 0
      <4>1. k = 6 => w # 0
        BY <2>5
      <4>2. k # 6 => w # 0
        <5> SUFFICES ASSUME k # 6 PROVE w # 0
          OBVIOUS
        <5>1. k # 6 => S_putWidth(sgot) \in {1, 2}
          BY <1>2 DEF S_putWidth
        <5> QED
          BY <5>1
      <4> QED
        BY <4>1, <4>2
    <3>2. up.n = 0
      BY <1>1, <2>1
    <3> HIDE DEF got, G, w, k
    <3>3. cpc = "off"
      BY <1>3, <1>7, <3>1, <3>2 DEF Returns
    <3>4. sgot' = <<>> /\ spc' = "wait"
      BY <1>7, <2>2, <3>1
    <3> QED
      BY <1>5, <1>8, <1>10, <2>1, <2>2, <2>3, <3>3, <3>4
  <2> QED
    BY <2>4, <2>5
<1>15. k < m \/ k = m
  BY <1>2
<1> QED
  BY <1>2, <1>11, <1>13, <1>14, <1>15

\* The server reads a field of a result, or the end of what a dead client wrote.
LEMMA S_putKeeps ==
  ASSUME TwoSides, S_put
  PROVE  TwoSides'
<1>1. /\ spc = "put" /\ cpc' = cpc /\ result' = result /\ cgot' = cgot
      /\ down' = down /\ taken' = taken
  BY DEF S_put, client
<1>2. Typed /\ taken = "action" /\ AcceptedIntact /\ Exchange
  BY DEF TwoSides
<1>3. Arrived(up) /\ up.n = Len(up.q) /\ result \in Result /\ sgot \in Seq(Seq(Nat))
  BY <1>2 DEF Typed, Arrived
<1>4. <<>> \in Seq(Item) /\ Asked(PLD_GET) \in Seq(Item) /\ Asked(PLD_GET) # <<>>
  BY DEF Asked, Item, PLD_GET
<1>5. ASSUME Arrived(up'), sgot' \in Seq(Seq(Nat)), spc' \in {"put", "wait"},
             spc' = "wait" => sgot' = <<>>
      PROVE  Typed'
  BY <1>1, <1>2, <1>5 DEF Typed
<1>6. CASE cpc = "idle"
  <2>1. Putting(up, sgot, result, 7, <<>>)
    BY <1>1, <1>2, <1>6 DEF Exchange, Idle
  <2>2. /\ Arrived(up') /\ sgot' \in Seq(Seq(Nat)) /\ AcceptedIntact'
        /\ \/ spc' = "put" /\ Putting(up', sgot', result, 7, <<>>)
           \/ spc' = "wait" /\ sgot' = <<>> /\ up'.q = <<>>
    <3> DEFINE m == 7
    <3>1. Putting(up, sgot, result, m, <<>>) /\ m = 7
      BY <2>1
    <3> HIDE DEF m
    <3>2. /\ Arrived(up') /\ sgot' \in Seq(Seq(Nat)) /\ AcceptedIntact'
          /\ \/ spc' = "put" /\ Putting(up', sgot', result, m, <<>>)
             \/ spc' = "wait" /\ sgot' = <<>> /\ up'.q = <<>>
      BY <1>4, <3>1, S_putStep
    <3> QED
      BY <3>1, <3>2
  <2>3. Typed'
    BY <1>5, <2>2
  <2>4. Idle'
    BY <1>1, <1>2, <1>6, <2>2 DEF Exchange, Idle
  <2> QED
    BY <1>1, <1>2, <1>6, <2>2, <2>3, <2>4 DEF TwoSides, Exchange, Waiting
<1>7. CASE cpc = "GET"
  <2>1. Putting(up, sgot, result, 7, Asked(PLD_GET)) /\ down.q = <<>>
    BY <1>1, <1>2, <1>7 DEF Exchange, Waited, Waiting
  <2>2. /\ Arrived(up') /\ sgot' \in Seq(Seq(Nat)) /\ AcceptedIntact'
        /\ \/ spc' = "put" /\ Putting(up', sgot', result, 7, Asked(PLD_GET))
           \/ spc' = "wait" /\ sgot' = <<>> /\ up'.q = Asked(PLD_GET)
    <3> DEFINE m == 7
               tail == Asked(PLD_GET)
    <3>1. Putting(up, sgot, result, m, tail) /\ m = 7 /\ tail \in Seq(Item)
      BY <1>4, <2>1
    <3> HIDE DEF m, tail
    <3>2. /\ Arrived(up') /\ sgot' \in Seq(Seq(Nat)) /\ AcceptedIntact'
          /\ \/ spc' = "put" /\ Putting(up', sgot', result, m, tail)
             \/ spc' = "wait" /\ sgot' = <<>> /\ up'.q = tail
      BY <3>1, S_putStep
    <3> QED
      BY <3>1, <3>2 DEF tail
  <2>3. Typed'
    BY <1>5, <2>2
  <2>4. Waited'
    BY <1>1, <1>7, <2>1, <2>2 DEF Waited, Word
  <2> QED
    BY <1>1, <1>2, <1>7, <2>2, <2>3, <2>4 DEF TwoSides, Exchange, Waiting
<1>8. CASE cpc = "put"
  <2> DEFINE m == Len(cgot)
  <2>1. Putting(up, sgot, result, m, <<>>) /\ m \in 0 .. 6 /\ down.q = <<>>
    BY <1>1, <1>2, <1>8 DEF Exchange, InPut
  <2> HIDE DEF m
  <2>2. /\ Arrived(up') /\ sgot' \in Seq(Seq(Nat)) /\ AcceptedIntact'
        /\ \/ spc' = "put" /\ Putting(up', sgot', result, m, <<>>)
           \/ /\ spc' = "wait" /\ sgot' = <<>> /\ up'.q = <<>>
              /\ m = 7 \/ cpc = "off" \/ (m = 6 /\ result.data = <<>>)
    BY <1>4, <2>1, S_putStep
  <2>3. Typed'
    BY <1>5, <2>2
  <2>4. InPut'
    <3>1. m # 7
      BY <2>1
    <3> QED
      BY <1>1, <1>8, <2>1, <2>2, <3>1 DEF InPut, m
  <2> QED
    BY <1>1, <1>2, <1>8, <2>2, <2>3, <2>4 DEF TwoSides, Exchange, Waiting
<1>9. CASE cpc = "off"
  <2>1. PICK m \in 0 .. 7 : \E tail \in {<<>>, Asked(PLD_GET)} :
           Putting(up, sgot, result, m, tail) /\ (m = 7 \/ tail = <<>>)
    <3>1. 7 \in 0 .. 7
      OBVIOUS
    <3> QED
      BY <1>1, <1>2, <1>9, <3>1 DEF Exchange, Gone
  <2>2. PICK tail \in {<<>>, Asked(PLD_GET)} :
           Putting(up, sgot, result, m, tail) /\ (m = 7 \/ tail = <<>>)
    BY <2>1
  <2>3. tail \in Seq(Item)
    BY <1>4, <2>2
  <2>4. /\ Arrived(up') /\ sgot' \in Seq(Seq(Nat)) /\ AcceptedIntact'
        /\ \/ spc' = "put" /\ Putting(up', sgot', result, m, tail)
           \/ spc' = "wait" /\ sgot' = <<>> /\ up'.q = tail
    BY <2>2, <2>3, S_putStep
  <2>5. Typed'
    BY <1>5, <2>4
  <2>6. Gone'
    <3>1. CASE spc' = "put" /\ Putting(up', sgot', result, m, tail)
      BY <1>1, <2>1, <2>2, <3>1 DEF Gone
    <3>2. CASE spc' = "wait" /\ up'.q = tail
      <4>1. PLD_GET \in Nat
        BY DEF PLD_GET
      <4> QED
        BY <2>2, <3>2, <4>1 DEF Gone
    <3> QED
      BY <2>4, <3>1, <3>2
  <2> QED
    BY <1>1, <1>2, <1>9, <2>4, <2>5, <2>6 DEF TwoSides, Exchange, Waiting
<1>10. CASE cpc = "PUT"
  <2>1. up.q = <<>> /\ sgot = <<>>
    BY <1>1, <1>2, <1>10 DEF Exchange, Waited, Waiting
  <2>2. up.n = 0 /\ Len(sgot) = 0
    BY <1>3, <2>1
  <2>3. S_putWidth(sgot) = 2
    BY <2>2 DEF S_putWidth
  <2>4. Len(Append(sgot, Got(up, 2))) = 1
    BY <2>1
  <2>5. Returns(up, 2, FALSE, FALSE)
    <3>1. Returns(up, 2, Len(Append(sgot, Got(up, 2))) = 7, cpc = "off")
      BY <2>3 DEF S_put, ClientGone
    <3>2. (Len(Append(sgot, Got(up, 2))) = 7) = FALSE /\ (cpc = "off") = FALSE
      BY <1>10, <2>4
    <3> QED
      BY <3>1, <3>2
  <2> QED
    BY <2>2, <2>5 DEF Returns
<1>11. cpc \in {"idle", "GET", "put", "off", "PUT"}
  BY <1>1, <1>2 DEF Exchange, Idle, Waited, InGet, InPong, Typed, Waiting
<1> QED
  BY <1>6, <1>7, <1>8, <1>9, <1>10, <1>11

\* What the server answers to an action are words.
LEMMA DispatchIs ==
  ASSUME NEW s, Arrived(s), NEW word \in Nat, NEW flag, Dispatch(word, flag, s)
  PROVE  Arrived(down') /\ spc' \in {"wait", "closed", "put", "pong"}
<1>1. Arrived(Written(s, InfoMessage, "other"))
  BY InfoMessageIs, WrittenIs DEF Added
<1>2. Arrived(Written(s, GetHeader, "other"))
  BY GetHeaderIs, WrittenIs DEF Added
<1>3. Chunk \in Seq(Nat)
  BY DEF Chunk
<1> DEFINE t == Written(s, GetHeader, "other")
<1> HIDE DEF t
<1>4. Arrived(t)
  BY <1>2 DEF t
<1>5. Arrived(Written(t, Chunk, "data"))
  BY <1>3, <1>4, WrittenIs DEF Added
<1>6. CASE word = PLD_GET /\ flag = PLD_SIG_OK
  BY <1>5, <1>6 DEF Dispatch, t, PLD_GET, PLD_PUT, PLD_PING, PLD_INFO
<1>7. CASE word = PLD_GET /\ flag # PLD_SIG_OK
  BY <1>7 DEF Dispatch, PLD_GET, PLD_PUT, PLD_PING, PLD_INFO
<1>8. CASE word = PLD_PUT
  BY <1>8 DEF Dispatch, PLD_GET, PLD_PUT, PLD_PING, PLD_INFO
<1>9. CASE word = PLD_PING
  BY <1>9 DEF Dispatch, PLD_GET, PLD_PUT, PLD_PING, PLD_INFO
<1>10. CASE word = PLD_INFO
  BY <1>1, <1>10 DEF Dispatch, PLD_GET, PLD_PUT, PLD_PING, PLD_INFO
<1>11. CASE word \notin {PLD_GET, PLD_PUT, PLD_PING, PLD_INFO}
  BY <1>11 DEF Dispatch
<1> QED
  BY <1>6, <1>7, <1>8, <1>9, <1>10, <1>11

\* The server takes an action word, or the end of the file.
LEMMA S_actionKeeps ==
  ASSUME TwoSides, S_action
  PROVE  TwoSides'
<1>1. /\ spc = "wait" /\ up' = Rest(up, 1) /\ cpc' = cpc /\ result' = result /\ cgot' = cgot
      /\ sgot' = sgot /\ stored' = stored
      /\ Returns(up, 1, FALSE, cpc = "off")
  BY DEF S_action, client, ClientGone
<1>2. Typed /\ taken = "action" /\ AcceptedIntact /\ Exchange
  BY DEF TwoSides
<1>3. /\ Arrived(up) /\ Arrived(down) /\ up.n = Len(up.q) /\ result \in Result
      /\ sgot = <<>>
  BY <1>1, <1>2 DEF Typed, Arrived
<1>4. CASE up.q = <<>>
  <2>1. up.n = 0
    BY <1>3, <1>4
  <2>2. cpc = "off" /\ spc' = "closed" /\ down' = down /\ taken' = taken
    BY <1>1, <2>1 DEF S_action, Returns
  <2>3. Arrived(up')
    BY <1>1, <1>3, <1>4, ReadNothing
  <2>4. Typed'
    BY <1>1, <1>2, <2>2, <2>3 DEF Typed
  <2> QED
    BY <1>1, <1>2, <2>2, <2>4 DEF TwoSides, AcceptedIntact, Exchange, Waiting, Gone
<1>5. CASE up.q # <<>>
  <2>1. PICK word \in Nat :
           /\ up.q = Asked(word)
           /\ \/ cpc \in Waiting /\ word = Word(cpc) /\ down.q = <<>>
              \/ cpc = "off"
    <3>1. \A c : Word(c) \in Nat
      BY DEF Word, PLD_GET, PLD_PUT, PLD_PING, PLD_INFO
    <3> QED
      BY <1>1, <1>2, <1>5, <3>1
      DEF Exchange, Idle, Waited, InGet, InPut, InPong, Gone, Waiting, Typed
  <2>2. Len(up.q) = 1 /\ up.q[1].kind = "action" /\ up.q[1].v = word
    BY <2>1 DEF Asked
  <2>3. Arrived(up') /\ up'.q = <<>>
    BY <1>1, <1>3, <2>2, ReadOne
  <2>4. up.n # 0
    BY <1>3, <2>2
  <2>5. taken' = "action"
    BY <2>2, <2>4 DEF S_action
  <2>6. PICK flag \in {PLD_SIG_OK, PLD_SIG_STOP} :
           Dispatch(word, flag, Written(down, <<flag>>, "other"))
    BY <2>2, <2>4 DEF S_action
  <2> DEFINE s == Written(down, <<flag>>, "other")
  <2>7. flag \in Nat
    BY <2>6 DEF PLD_SIG_OK, PLD_SIG_STOP
  <2>8. Arrived(s)
    <3> DEFINE f == <<flag>>
    <3>1. f \in Seq(Nat)
      BY <2>7
    <3> HIDE DEF f
    <3>2. Added(Written(down, f, "other"), down, f, "other")
      BY <1>3, <3>1, WrittenIs
    <3> QED
      BY <3>2 DEF Added, f
  <2>9. Arrived(down') /\ spc' \in {"wait", "closed", "put", "pong"}
    <3> HIDE DEF s
    <3>1. Dispatch(word, flag, s)
      BY <2>6 DEF s
    <3> QED
      BY <2>8, <3>1, DispatchIs
  <2>10. Typed'
    BY <1>1, <1>2, <1>3, <2>3, <2>9 DEF Typed
  <2>11. CASE cpc = "off"
    <3>1. spc' = "put" => Putting(up', sgot', result', 0, <<>>)
      BY <1>1, <1>3, <2>3, PuttingStarts
    <3>2. Gone'
      <4>1. 0 \in 0 .. 7
        OBVIOUS
      <4> QED
        BY <2>3, <2>9, <3>1, <4>1 DEF Gone
    <3> QED
      BY <1>1, <1>2, <2>5, <2>10, <2>11, <3>2 DEF TwoSides, AcceptedIntact, Exchange, Waiting
  <2>12. CASE cpc \in Waiting /\ word = Word(cpc) /\ down.q = <<>>
    <3>1. s.q = Other(flag)
      BY <1>3, <2>7, <2>12, WrittenOne DEF Other
    <3>2. Len(s.q) = 1
      BY <3>1 DEF Other
    <3> HIDE DEF s
    <3>3. Dispatch(Word(cpc), flag, s)
      BY <2>6, <2>12 DEF s
    <3>4. Waited'
      <4>1. CASE cpc = "GET" /\ flag = PLD_SIG_OK
        <5>1. spc' = "wait" /\ down' = Written(Written(s, GetHeader, "other"), Chunk, "data")
          BY <3>3, <4>1 DEF Dispatch, Word, PLD_GET, PLD_PUT, PLD_PING, PLD_INFO
        <5>2. Getting(down', 0 - 1)
          BY <1>3, <2>12, <4>1, <5>1, GettingStarts DEF s
        <5> QED
          BY <1>1, <2>3, <4>1, <5>1, <5>2 DEF Waited
      <4>2. CASE cpc = "GET" /\ flag # PLD_SIG_OK
        <5>1. spc' = "closed" /\ down' = s
          BY <3>3, <4>2 DEF Dispatch, Word, PLD_GET, PLD_PUT, PLD_PING, PLD_INFO
        <5> QED
          BY <1>1, <2>3, <2>6, <3>1, <4>2, <5>1 DEF Waited
      <4>3. CASE cpc = "PUT"
        <5>1. spc' = "put" /\ down' = s
          BY <3>3, <4>3 DEF Dispatch, Word, PLD_GET, PLD_PUT, PLD_PING, PLD_INFO
        <5> QED
          BY <1>1, <1>3, <2>3, <3>2, <4>3, <5>1 DEF Waited
      <4>4. CASE cpc = "PING"
        <5>1. spc' = "pong" /\ down' = s
          BY <3>3, <4>4 DEF Dispatch, Word, PLD_GET, PLD_PUT, PLD_PING, PLD_INFO
        <5> QED
          BY <1>1, <2>3, <3>2, <4>4, <5>1 DEF Waited
      <4>5. CASE cpc = "INFO"
        <5>1. spc' = "wait"
          BY <3>3, <4>5 DEF Dispatch, Word, PLD_GET, PLD_PUT, PLD_PING, PLD_INFO
        <5> QED
          BY <1>1, <2>3, <4>5, <5>1 DEF Waited
      <4> QED
        BY <2>12, <4>1, <4>2, <4>3, <4>4, <4>5 DEF Waiting
    <3> QED
      BY <1>1, <1>2, <2>5, <2>10, <2>12, <3>4 DEF TwoSides, AcceptedIntact, Exchange, Waiting
  <2> QED
    BY <2>1, <2>11, <2>12
<1> QED
  BY <1>4, <1>5

\* A word of the data is damaged on its way.
LEMMA DamageKeeps ==
  ASSUME TwoSides, Damage
  PROVE  TwoSides'
<1>1. /\ cpc' = cpc /\ result' = result /\ cgot' = cgot
      /\ spc' = spc /\ sgot' = sgot /\ taken' = taken /\ stored' = stored
  BY DEF Damage, client, server
<1>2. Typed /\ taken = "action" /\ AcceptedIntact /\ Exchange
  BY DEF TwoSides
<1>3. Arrived(up) /\ Arrived(down) /\ result \in Result /\ sgot \in Seq(Seq(Nat))
      /\ cgot \in Seq(Seq(Nat))
  BY <1>2 DEF Typed
<1>4. ASSUME NEW i \in DOMAIN up.q, up.q[i].kind = "data", up' = Damaged(up, i), down' = down
      PROVE  TwoSides'
  <2>1. Arrived(up')
    BY <1>3, <1>4, DamagedIs
  <2>2. Typed'
    BY <1>1, <1>2, <1>4, <2>1 DEF Typed
  <2>3. /\ up.q # <<>> /\ \A w : up.q # Asked(w) /\ up.q # Other(w)
    <3>1. up.q # <<>>
      BY <1>4
    <3>2. ASSUME NEW w, up.q = Asked(w) \/ up.q = Other(w)
          PROVE  FALSE
      <4>1. i = 1
        BY <1>4, <3>2 DEF Asked, Other
      <4>2. up.q[1].kind # "data"
        BY <3>2 DEF Asked, Other
      <4> QED
        BY <1>4, <4>1, <4>2
    <3> QED
      BY <3>1, <3>2
  <2>4. \A m : Putting(up, sgot, result, m, <<>>) => Putting(up', sgot', result', m, <<>>)
    <3>1. <<>> \in Seq(Item) /\ \A j \in 1 .. Len(<<>>) : <<>>[j].kind # "data"
      OBVIOUS
    <3> QED
      BY <1>1, <1>3, <1>4, <3>1, PuttingDamaged
  <2>5. \A m : Putting(up, sgot, result, m, Asked(PLD_GET))
               => Putting(up', sgot', result', m, Asked(PLD_GET))
    <3> DEFINE tail == Asked(PLD_GET)
    <3>1. tail \in Seq(Item) /\ \A j \in 1 .. Len(tail) : tail[j].kind # "data"
      BY DEF Asked, PLD_GET, Item
    <3> HIDE DEF tail
    <3>2. \A m : Putting(up, sgot, result, m, tail) => Putting(up', sgot', result', m, tail)
      BY <1>1, <1>3, <1>4, <3>1, PuttingDamaged
    <3> QED
      BY <3>2 DEF tail
  <2>6. Exchange'
    BY <1>1, <1>2, <1>4, <2>3, <2>4, <2>5
    DEF Exchange, Idle, Waited, InGet, InPut, InPong, Gone
  <2> QED
    BY <1>1, <1>2, <2>2, <2>6 DEF TwoSides, AcceptedIntact
<1>5. ASSUME NEW i \in DOMAIN down.q, down.q[i].kind = "data", down' = Damaged(down, i), up' = up
      PROVE  TwoSides'
  <2>1. Arrived(down') /\ Len(down'.q) = Len(down.q)
    BY <1>3, <1>5, DamagedIs
  <2>2. Typed'
    BY <1>1, <1>2, <1>5, <2>1 DEF Typed
  <2>3. down.q # <<>> /\ \A w : down.q # Other(w)
    <3>1. down.q # <<>>
      BY <1>5
    <3>2. ASSUME NEW w, down.q = Other(w)
          PROVE  FALSE
      <4>1. i = 1
        BY <1>5, <3>2 DEF Other
      <4>2. down.q[1].kind # "data"
        BY <3>2 DEF Other
      <4> QED
        BY <1>5, <4>1, <4>2
    <3> QED
      BY <3>1, <3>2
  <2>4. \A b \in Int : Getting(down, b) => Getting(down', b)
    BY <1>3, <1>5, GettingDamaged
  <2>5. 0 - 1 \in Int /\ (cpc = "get" => GetStart(Len(cgot)) \in Int)
    BY DEF GetStart
  <2>6. Exchange'
    BY <1>1, <1>2, <1>5, <2>1, <2>3, <2>4, <2>5
    DEF Exchange, Idle, Waited, InGet, InPut, InPong, Gone
  <2> QED
    BY <1>1, <1>2, <2>2, <2>6 DEF TwoSides, AcceptedIntact
<1> QED
  BY <1>4, <1>5 DEF Damage, Damaged

-----------------------------------------------------------------------------
(* The theorems.                                                             *)

\* What has arrived does not arrive again.
LEMMA ArriveKeeps ==
  ASSUME TwoSides, Arrive
  PROVE  TwoSides'
<1>1. \A s : Arrived(s) => [s EXCEPT !.n = Len(s.q)] = s
  BY DEF Arrived, Stream
<1>2. Arrived(up) /\ Arrived(down)
  BY DEF TwoSides, Typed
<1>3. up' = up /\ down' = down
  BY <1>1, <1>2 DEF Arrive
<1> QED
  BY <1>3
  DEF Arrive, client, server, TwoSides, Typed, Exchange, AcceptedIntact,
      Idle, Waited, InGet, InPut, InPong, Gone

\* Nothing changes.
LEMMA StutterKeeps ==
  ASSUME TwoSides, UNCHANGED vars
  PROVE  TwoSides'
  BY DEF vars, TwoSides, Typed, Exchange, AcceptedIntact,
         Idle, Waited, InGet, InPut, InPong, Gone

\* Faults are only counted up.
LEMMA FaultsGrow ==
  ASSUME faults \in [{"splits", "bad", "deaths"} -> Nat], [Next]_vars
  PROVE  /\ faults' \in [{"splits", "bad", "deaths"} -> Nat]
         /\ Whole' => Whole /\ ~Delay
<1>1. CASE Delay
  BY <1>1 DEF Delay, Fault, Whole
<1>2. CASE Damage
  BY <1>2 DEF Damage, Fault, Whole, Delay
<1>3. CASE Die
  BY <1>3 DEF Die, Fault, Whole, Delay
<1>4. CASE ClientStep \/ ServerStep \/ Arrive \/ UNCHANGED vars
  <2>1. faults' = faults
    BY <1>4
    DEF ClientStep, ServerStep, Arrive, vars, AskGet, AskProbe, AskPut, Ask, ReadFlag,
        C_get, C_put, C_ping, C_info, Hangup, S_action, S_put, S_pong
  <2>2. ~Delay
    BY <2>1 DEF Delay, Fault
  <2> QED
    BY <2>1, <2>2 DEF Whole
<1> QED
  BY <1>1, <1>2, <1>3, <1>4 DEF Next

\* Both ends wait and both streams are empty.
LEMMA WireInit == Init => WireInv
<1> SUFFICES ASSUME Init
             PROVE  WireInv
  OBVIOUS
<1>1. faults \in [{"splits", "bad", "deaths"} -> Nat]
  BY DEF Init
<1>2. /\ up = [q |-> <<>>, n |-> 0] /\ down = [q |-> <<>>, n |-> 0]
      /\ cpc \in {"idle", "probe"} /\ spc = "wait"
      /\ result = [rt |-> 1, data |-> <<>>] /\ cgot = <<>> /\ sgot = <<>>
      /\ taken = "action" /\ stored = [got |-> PutMessage(result), put |-> result]
  BY DEF Init
<1>3. Arrived(up) /\ Arrived(down)
  BY <1>2 DEF Arrived, Stream
<1>4. <<>> \in Seq(Seq(Nat))
  OBVIOUS
<1>5. Typed
  BY <1>2, <1>3, <1>4 DEF Typed, Result, Waiting
<1>6. Exchange
  BY <1>2 DEF Exchange, Idle, Waiting
<1>7. AcceptedIntact
  BY <1>2 DEF AcceptedIntact
<1> QED
  BY <1>1, <1>2, <1>5, <1>6, <1>7 DEF WireInv, TwoSides

\* Every step keeps the two sides in step, as long as every delivery is whole.
LEMMA WireNext == WireInv /\ [Next]_vars => WireInv'
<1> SUFFICES ASSUME WireInv, [Next]_vars
             PROVE  WireInv'
  OBVIOUS
<1>1. /\ faults' \in [{"splits", "bad", "deaths"} -> Nat]
      /\ Whole' => Whole /\ ~Delay
  BY FaultsGrow DEF WireInv
<1> SUFFICES ASSUME TwoSides, ~Delay
             PROVE  TwoSides'
  BY <1>1 DEF WireInv
<1>2. CASE AskGet
  BY <1>2, AskGetKeeps
<1>3. CASE AskProbe \/ AskPut
  BY <1>3, AskOtherKeeps
<1>4. CASE ReadFlag
  BY <1>4, ReadFlagKeeps
<1>5. CASE C_get
  BY <1>5, C_getKeeps
<1>6. CASE C_put
  BY <1>6, C_putKeeps
<1>7. CASE C_ping
  BY <1>7, C_pingKeeps
<1>8. CASE C_info
  BY <1>8, C_infoKeeps
<1>9. CASE Die
  BY <1>9, DieKeeps
<1>10. CASE Hangup
  BY <1>10, HangupKeeps
<1>11. CASE S_action
  BY <1>11, S_actionKeeps
<1>12. CASE S_put
  BY <1>12, S_putKeeps
<1>13. CASE S_pong
  BY <1>13, S_pongKeeps
<1>14. CASE Damage
  BY <1>14, DamageKeeps
<1>15. CASE Arrive
  BY <1>15, ArriveKeeps
<1>16. CASE UNCHANGED vars
  BY <1>16, StutterKeeps
<1> QED
  BY <1>2, <1>3, <1>4, <1>5, <1>6, <1>7, <1>8, <1>9, <1>10, <1>11, <1>12, <1>13, <1>14,
     <1>15, <1>16 DEF Next, ClientStep, ServerStep

\* While every delivery comes whole, what the two sides and the two streams say
\* of the exchange agrees (networks.c:661-1439).
THEOREM WireIsInStep == Spec => []WireInv
  BY WireInit, WireNext, PTL DEF Spec

\* The server takes for an action only what a client has sent as one
\* (networks.c:807), whatever is damaged and whenever the client dies.
THEOREM WordsAreActions == Spec => []ActionsAreWords
<1>1. WireInv => ActionsAreWords
  BY DEF WireInv, TwoSides, ActionsAreWords
<1> QED
  BY <1>1, WireIsInStep, PTL

\* When a command runs nothing is left in either stream: the next message starts
\* where both sides think it does.
THEOREM CommandsStartInStep == Spec => []InStep
<1>1. WireInv => InStep
  BY DEF WireInv, TwoSides, InStep, Exchange, Idle
<1> QED
  BY <1>1, WireIsInStep, PTL

\* While every delivery comes whole, a result that S_put accepts is the one that
\* C_put was given, field by field: no damage to the data gets past the checksum
\* and no end of a dead client is taken for a result.
THEOREM WholeResultsIntact == Spec => [](Whole => AcceptedIntact)
<1>1. WireInv => (Whole => AcceptedIntact)
  BY DEF WireInv, TwoSides
<1> QED
  BY <1>1, WireIsInStep, PTL

=============================================================================
