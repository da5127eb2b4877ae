---------------------------- MODULE ResultStore ----------------------------
(* What the files of a run promise to whoever reads them: the results of     *)
(* some records, in the order of the input, each once.  Chunks are given     *)
(* out, apart from each other and from what is stored; the line of a good    *)
(* result stores one of them, whole.  Nothing else ever changes the results: *)
(* not a chunk under way, not a client that fails or leaves, not a crash.    *)
EXTENDS Integers, SequencesExt

CONSTANT Job

VARIABLES
    results,        \* the records whose results are stored, in order
    lines,          \* the number of lines of the log
    given           \* the chunks that are out, a chunk being a set of records

vars == <<results, lines, given>>

\* Sequence s has the records of S, each once, in the order of the input.
InOrder(s, S) == ToSet(s) = S /\ \A k, l \in DOMAIN s : k < l => s[k] < s[l]

Stored == ToSet(results)

\* From now on the stored results are those of the records of S.
Store(S) == InOrder(results', S)

Init == results = <<>> /\ lines = 0 /\ given = {}

\* A chunk is given out: nobody computes a record of it, none is stored.
Give(ch) ==
    /\ ch # {} /\ ch \cap Stored = {}
    /\ \A d \in given : d \cap ch = {}
    /\ given' = given \cup {ch}
    /\ Store(Stored) /\ UNCHANGED lines

\* Chunks come back: their client has left, or is told that it is heard.
Drop ==
    /\ given' \subseteq given
    /\ Store(Stored) /\ UNCHANGED lines

\* The line of a good result: its whole chunk is stored, for the first time.
Commit(ch) ==
    /\ ch \cap Stored = {}
    /\ lines' = lines + 1
    /\ Store(Stored \cup ch) /\ UNCHANGED given

\* The line of a failure.
Fail ==
    /\ given # {}
    /\ lines' = lines + 1
    /\ Store(Stored) /\ UNCHANGED given

Next == \/ \E ch \in SUBSET Job : Give(ch)
        \/ \E ch \in given : Commit(ch)
        \/ Fail \/ Drop

Spec == Init /\ [][Next]_vars
=============================================================================
