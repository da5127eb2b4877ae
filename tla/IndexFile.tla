----------------------------- MODULE IndexFile -----------------------------
(* The constructor of Index: one pass over the lines of the input file that  *)
(* keeps the offset of each line that begins with the sentinel, then the     *)
(* size of the file.  A record of the other modules is what lies between two *)
(* of these offsets.                                                         *)
EXTENDS SequencesExt

VARIABLES
    text,       \* the lines of the file: what they begin with, their length
    newline,    \* the last line ends with a newline
    sentinel,   \* what a line that begins a record begins with
    got,        \* lines read by getline
    tell,       \* tellg() after that, -1 once the end of the file was met
    index,      \* the offsets found
    done        \* the constructor has returned

indexVars == <<text, newline, sentinel, got, tell, index, done>>

\* The files of at most n lines of at most m bytes.
Texts(Heads, n, m) ==
    BoundedSeq({l \in [head : Heads, len : 0 .. m] : Len(l.head) <= l.len}, n)

\* A file whose last line has no newline has something on that line.
Ended(t) == IF t # <<>> /\ Last(t).len > 0 THEN BOOLEAN ELSE {TRUE}

\* line.find(sentinel) == 0: with an empty sentinel any line does.
Sent(l) == IsPrefix(sentinel, l.head)

\* Where line i really starts; the file ends where one more line would, but
\* for a newline that is not there.
Start(i)  == MapThenSumSet(LAMBDA j : text[j].len + 1, 1 .. (i - 1))
FileSize  == Start(Len(text) + 1) - IF newline THEN 0 ELSE 1

-----------------------------------------------------------------------------
IndexInit ==
    /\ sentinel = <<>>
    /\ got = 0 /\ tell = 0 /\ index = <<>> /\ done = FALSE

\* Variant of Offset that forgets the newline tellg has passed.
OffsetNoNewline(t, l) == t - l.len

\* The offset of the line l just read, from where the stream is now.
Offset(t, l) == t - l.len - 1

\* getline: at the end of the file it sets eofbit, and tellg fails from then on.
NextLine ==
    /\ ~done /\ got < Len(text)
    /\ LET i == got + 1
       IN  /\ got' = i
           /\ tell' = IF i = Len(text) /\ ~newline THEN -1
                      ELSE tell + text[i].len + 1
           /\ index' = IF Sent(text[i]) THEN Append(index, Offset(tell', text[i]))
                       ELSE index
    /\ UNCHANGED <<text, newline, sentinel, done>>

\* getline fails: the size of the file, taken before the loop, ends the index.
Finish ==
    /\ ~done /\ got = Len(text)
    /\ index' = Append(index, FileSize)
    /\ done' = TRUE
    /\ UNCHANGED <<text, newline, sentinel, got, tell>>

-----------------------------------------------------------------------------
\* The offsets of the lines that begin with the sentinel, in order.
Wanted == [k \in 1 .. Cardinality({i \in DOMAIN text : Sent(text[i])}) |->
             Start(CHOOSE i \in DOMAIN text :
                     Sent(text[i]) /\ Cardinality({j \in 1 .. i : Sent(text[j])}) = k)]

\* The index has an entry where each line that begins with the sentinel starts
\* ("with lines beginning by", Index.cpp:52), and the size of the file.
OffsetsRight == done => index = Append(Wanted, FileSize)

\* The same, for files whose last line is ended or begins no record.
EndedOffsetsRight == newline \/ ~Sent(Last(text)) => OffsetsRight

=============================================================================
