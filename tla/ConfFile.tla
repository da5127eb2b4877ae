------------------------------ MODULE ConfFile ------------------------------
(* The constructor of Conf: the configuration file, read line by line.  A    *)
(* key is a sequence of words so that one key may begin with another; values *)
(* are sequences of blanks and texts.                                        *)
EXTENDS SequencesExt

CONSTANT Word       \* the words that keys and values are made of

VARIABLES
    file,           \* the lines of the file
    lines_read,     \* lines read so far
    field_value,    \* the variable of that name, which outlives the line
    conf            \* per field: its value

confVars == <<file, lines_read, field_value, conf>>

\* The names a key is compared with, in this order: POLICY begins POLICY_LIMIT.
Names ==
    << <<"PRGM">>, <<"SENTINEL">>, <<"POLICY", "_LIMIT">>, <<"POLICY">>,
       <<"ROUND">>, <<"AUTHENTICATION">>, <<"LISTEN_BACKLOG">>,
       <<"EPOLL_TIME_WAIT">>, <<"EPOLL_MAX_EVENTS">>, <<"MAX_SOCKETS">>,
       <<"TCP_KEEPIDLE">>, <<"TCP_KEEPINTVL">>, <<"TCP_KEEPCNT">> >>

ASSUME WordAssumption == \A i \in DOMAIN Names : Names[i] \in Seq(Word)

Field == {Names[i] : i \in DOMAIN Names}

\* A line is a key, and a value if it has a separator.
ConfLine(Keys, Values) ==
    {l \in [key : Keys, sep : BOOLEAN, value : Values] : ~l.sep => l.value = <<>>}

\* The line names a field but has no '='.
Bare(l) == ~l.sep /\ \E f \in Field : IsPrefix(f, l.key)

-----------------------------------------------------------------------------
\* Spaces and tabulations at the start of a value are removed.
Trim(v) ==
    SubSeq(v, Min({i \in 1 .. (Len(v) + 1) : i <= Len(v) => v[i] # " "}), Len(v))

\* Variant of Matching that takes the last name that fits: it finds POLICY
\* where POLICY_LIMIT is meant.
MatchingLast(key) ==
    LET fits == {i \in DOMAIN Names : IsPrefix(Names[i], key)}
    IN  IF fits = {} THEN {} ELSE {Names[Max(fits)]}

\* The chain of else if: the field of the first name that begins the key.
Matching(key) ==
    LET fits == {i \in DOMAIN Names : IsPrefix(Names[i], key)}
    IN  IF fits = {} THEN {} ELSE {Names[Min(fits)]}

ConfInit ==
    /\ lines_read = 0
    /\ field_value = <<>>
    /\ conf = [f \in Field |-> <<>>]

\* One line: the key up to '=', the rest to field_value, which keeps what it
\* held when there is no '=' (the second getline fails before it erases it).
\* A line that begins with # is left at that.
ReadLine ==
    /\ lines_read < Len(file)
    /\ LET l == file[lines_read + 1]
           v == IF l.sep THEN l.value ELSE field_value
       IN  IF l.key # <<>> /\ Head(l.key) = "#"
           THEN field_value' = v /\ UNCHANGED conf
           ELSE /\ field_value' = Trim(v)
                /\ conf' = [f \in Field |->
                              IF f \in Matching(l.key) THEN Trim(v) ELSE conf[f]]
    /\ lines_read' = lines_read + 1
    /\ UNCHANGED file

ConfRead == lines_read = Len(file)

-----------------------------------------------------------------------------
\* The lines read so far that set field f: the longest name that begins the
\* key is f, and the line is no comment.
Setting(f) ==
    {i \in 1 .. lines_read :
        /\ IsPrefix(f, file[i].key)
        /\ \A g \in Field : IsPrefix(g, file[i].key) => Len(g) <= Len(f)}

\* The value of a field is what stands on the last line that names it, or is
\* empty ("retrieve field type ans store value", Conf.cpp:66).
OwnValue ==
    \A f \in Field :
        conf[f] = IF Setting(f) = {} THEN <<>>
                  ELSE LET l == file[Max(Setting(f))]
                       IN  IF l.sep THEN Trim(l.value) ELSE <<>>

\* The same, as long as no line lacks its '=': POLICY and POLICY_LIMIT are
\* told apart, a commented line sets nothing, and the last of two lines wins.
OwnValueIfWellFormed == (\A i \in 1 .. lines_read : ~Bare(file[i])) => OwnValue
=============================================================================
