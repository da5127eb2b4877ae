------------------------------ MODULE PeerSet ------------------------------
(* What the connection layer promises to the server loop: a set of clients   *)
(* that never outgrows its limit; each joins before it is served and leaves  *)
(* once.                                                                     *)
EXTENDS Integers, FiniteSets

CONSTANTS Peer, Room

VARIABLE members

Init == members = {}

Join(p) ==
    /\ p \notin members
    /\ Cardinality(members) < Room
    /\ members' = members \cup {p}

Leave(p) ==
    /\ p \in members
    /\ members' = members \ {p}

\* The server is gone.
LeaveAll == members' = {}

Next == LeaveAll \/ \E p \in Peer : Join(p) \/ Leave(p)

Spec == Init /\ [][Next]_members
=============================================================================
