------------------------------ MODULE Command ------------------------------
(* format_cmd of utils.c: the command the client gives to system(), made     *)
(* from PRGM of the configuration by two string copies.  A command is a      *)
(* sequence of pieces: "in" is #chunkin#, "out" is #chunkout#, "x" any other *)
(* text.  A pointer into the command is the number of pieces before it.      *)
EXTENDS SequencesExt

CONSTANTS
    InLen,      \* length of the name of the input file
    OutLen      \* length of the name of the output file

ASSUME LengthsAssumption == {InLen, OutLen} \subseteq Nat

VARIABLES
    cmd,        \* PRGM
    f_cmd,      \* what format_cmd returns
    allocated   \* the bytes it has allocated for that, 0 before

commandVars == <<cmd, f_cmd, allocated>>

\* The length of a text: the words, the names of the files, other text.
Length(s) ==
    MapThenSumSet(LAMBDA i : CASE s[i] = "in"      -> 9
                               [] s[i] = "out"     -> 10
                               [] s[i] = "tmp_in"  -> InLen
                               [] s[i] = "tmp_out" -> OutLen
                               [] OTHER            -> 1, DOMAIN s)

\* What strstr finds: the pieces before the first p.
Find(p) == SelectInSeq(cmd, LAMBDA q : q = p) - 1
Has(p)  == Find(p) >= 0

\* What strncat copies from pointer p: n pieces at most.
Copy(p, n) == SubSeq(cmd, p + 1, IF p + n < Len(cmd) THEN p + n ELSE Len(cmd))

-----------------------------------------------------------------------------
\* A command begins with the name of a program; it is the output file only if
\* the input file is there too.
Sensible(c) == c # <<>> /\ Head(c) = "out" => \E i \in DOMAIN c : c[i] = "in"

CommandInit == cmd = <<>> /\ f_cmd = <<>> /\ allocated = 0

\* Variant of Splice that takes the two files to be in the order of the command.
SpliceInFirst(bin, ein, bout, eout, tin, tout) ==
    Copy(0, bin) \o tin \o Copy(ein, bout - ein) \o tout \o Copy(eout, Len(cmd))

\* The text before the first of the two, its file, the text between them, the
\* other file, and the rest.
Splice(bin, ein, bout, eout, tin, tout) ==
    IF bin < bout
    THEN Copy(0, bin) \o tin \o Copy(ein, bout - ein) \o tout \o Copy(eout, Len(cmd))
    ELSE Copy(0, bout) \o tout \o Copy(eout, bin - eout) \o tin \o Copy(ein, Len(cmd))

\* Variant of Size that counts the two files whether they are there or not.
SizeBoth == Length(cmd) + (InLen - 9) + (OutLen - 10)

\* The length to allocate: the names of the files in place of the two words.
Size == Length(cmd) + (IF Has("in") THEN InLen - 9 ELSE 0)
                    + (IF Has("out") THEN OutLen - 10 ELSE 0)

\* One of the two that is missing is an empty file at the start of the command.
format_cmd ==
    /\ allocated = 0
    /\ allocated' = Size + 1
    /\ f_cmd' = Splice(IF Has("in") THEN Find("in") ELSE 0,
                       IF Has("in") THEN Find("in") + 1 ELSE 0,
                       IF Has("out") THEN Find("out") ELSE 0,
                       IF Has("out") THEN Find("out") + 1 ELSE 0,
                       IF Has("in") THEN <<"tmp_in">> ELSE <<>>,
                       IF Has("out") THEN <<"tmp_out">> ELSE <<>>)
    /\ UNCHANGED cmd

-----------------------------------------------------------------------------
Formatted == allocated # 0

\* The command is PRGM with its first #chunkin# and its first #chunkout#, in
\* any order and one or both of them missing, replaced by the two files.
FilesInPlace ==
    Formatted => f_cmd = [i \in DOMAIN cmd |-> CASE i = Find("in") + 1  -> "tmp_in"
                                                 [] i = Find("out") + 1 -> "tmp_out"
                                                 [] OTHER               -> cmd[i]]

\* It has, with its NUL, exactly the length that was allocated for it before it
\* was written.
FillsItsBuffer == Formatted => Length(f_cmd) + 1 = allocated
=============================================================================
