------------------------------ MODULE Startup ------------------------------
(* What the server reads before its loop starts, and what becomes of it: the *)
(* configuration gives the index its sentinel, and every client the command  *)
(* it formats.  The other modules begin where this one ends: with records    *)
(* that are not empty and a command that names its two files.                *)
EXTENDS ConfFile, IndexFile, Command

CONSTANT Inputs     \* pairs of a configuration file and an input file

ASSUME InputsType ==
    \A i \in Inputs : /\ i.conf \in Seq(ConfLine(Seq(Word), Seq(Word)))
                      /\ i.text \in Seq([head : Seq(Word), len : Nat])

\* The line of PRGM has its '=' and a value that begins with a program's name.
ASSUME InputsAssumption ==
    \A i \in Inputs : \A k \in DOMAIN i.conf :
        IsPrefix(<<"PRGM">>, i.conf[k].key) =>
            i.conf[k].sep /\ Sensible(Trim(i.conf[k].value))

vars == <<confVars, indexVars, commandVars>>

Init ==
    /\ ConfInit /\ IndexInit /\ CommandInit
    /\ \E i \in Inputs : file = i.conf /\ text = i.text
    /\ newline \in Ended(text)

\* new Conf: one line after the other.
GetConf == ReadLine /\ UNCHANGED <<indexVars, commandVars>>

\* The sentinel goes to the index, the command to the clients.
HandOver ==
    /\ ConfRead /\ got = 0 /\ ~done
    /\ <<sentinel, cmd>> # <<conf[<<"SENTINEL">>], conf[<<"PRGM">>]>>
    /\ sentinel' = conf[<<"SENTINEL">>]
    /\ cmd' = conf[<<"PRGM">>]
    /\ UNCHANGED <<confVars, text, newline, got, tell, index, done, f_cmd, allocated>>

\* Both were handed over.
Ready == ConfRead /\ sentinel = conf[<<"SENTINEL">>] /\ cmd = conf[<<"PRGM">>]

\* new Index.
GetIndex == Ready /\ (NextLine \/ Finish) /\ UNCHANGED <<confVars, commandVars>>

\* A client that has received a chunk.
Format == Ready /\ done /\ format_cmd /\ UNCHANGED <<confVars, indexVars>>

Next == GetConf \/ HandOver \/ GetIndex \/ Format

Spec == Init /\ [][Next]_vars
=============================================================================
