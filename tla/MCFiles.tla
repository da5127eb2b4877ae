------------------------------ MODULE MCFiles ------------------------------
(* Values of the constants of ParaloadFiles for the run of TLC.              *)
EXTENDS ParaloadFiles

CONSTANTS c1, c2

TwoClients == {c1, c2}
NoProbe    == {}
Unlimited  == -1
AllFail    == Jobs

\* STATIC: every record weighs one.
Static == [i \in Cells |-> i]

Peers == Permutations(Clients)
=============================================================================
