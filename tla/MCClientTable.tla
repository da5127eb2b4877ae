--------------------------- MODULE MCClientTable ---------------------------
(* Values of the constants of ClientTable for the runs of TLC.               *)
EXTENDS ClientTable, TLC

CONSTANTS p1, p2, p3

ThreePeers  == {p1, p2, p3}
TwoPeers    == {p1, p2}
NoStranger  == {}
OneStranger == {p3}

Peermutations == Permutations(Peers \ Strangers)
=============================================================================
