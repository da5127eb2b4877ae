----------------------------- MODULE MCStartup -----------------------------
(* The files that TLC starts from: every configuration of a few lines with   *)
(* one input file, every input file with three sentinels, every command.     *)
EXTENDS Startup

Words == UNION {Range(Names[i]) : i \in DOMAIN Names}
         \cup {"#", " ", "a", "b", ">", "in", "out", "x"}

Set(key, value) == [key |-> key, sep |-> TRUE, value |-> value]

Keys   == { <<"POLICY">>, <<"POLICY", "_LIMIT">>, <<"ROUND">>,
            <<"#", "POLICY">>, <<>> }
Values == { <<>>, <<" ", " ", "a">>, <<"b">> }

Sentinels == { <<>>, <<" ", ">">>, <<">", ">">> }
Heads     == { <<>>, <<">">>, <<">", ">">> }

Commands == {c \in BoundedSeq({"in", "out", "x"}, 5) : Sensible(c)}

SomeInputs ==
    [conf : BoundedSeq(ConfLine(Keys, Values), 3), text : { <<>> }]
    \cup
    [conf : { << Set(<<"SENTINEL">>, s) >> : s \in Sentinels },
     text : Texts(Heads, 3, 3)]
    \cup
    [conf : { << Set(<<"PRGM">>, <<" ">> \o c) >> : c \in Commands },
     text : { <<>> }]
=============================================================================
