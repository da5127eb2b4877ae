----------------------------- MODULE MCParaload -----------------------------
(* Values of the constants of Paraload for the runs of TLC.                  *)
EXTENDS ParaloadLease, TLC

CONSTANTS c1, c2, c3

OneClient    == {c1}
TwoClients   == {c1, c2}
ThreeClients == {c1, c2, c3}
NoProbe      == {}
OneProbe     == {c2}

Unlimited == -1

NoFailure    == {}
FirstFails   == {0}
SecondFails  == {1}
AllFail      == Jobs

\* STATIC: every record weighs one.
Static == [i \in Cells |-> i]

\* LINEAR with records of 2, 1, 3 bytes, and 2 for each record after these.
Linear == [i \in Cells |-> CASE i = 0 -> 0 [] i = 1 -> 2 [] i = 2 -> 3
                             [] OTHER -> 2 * i]

Peers == Permutations(Clients)
=============================================================================
