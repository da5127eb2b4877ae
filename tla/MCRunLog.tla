----------------------------- MODULE MCRunLog -----------------------------
(* Values of the constants of RunLog for the runs of TLC.                    *)
EXTENDS RunLog

CONSTANTS c1, c2

TwoClients == {c1, c2}
Peers == Permutations(Clients)
=============================================================================
