--------------------------- MODULE ParaloadLease ---------------------------
(* The server implements JobLease in an environment where no command fails   *)
(* and no result is corrupted; peers may die and the server may restart.     *)
EXTENDS Paraload

\* A failed record is not leased to anybody: it waits as a free one does.
leaseStatus ==
    [j \in Jobs |-> CASE mon.states[j] = "DONE"       -> "complete"
                      [] mon.states[j] = "INPROGRESS" -> "leased"
                      [] OTHER                        -> "free"]

\* The peers whose entry in current_addr_idx covers record j.
Holders(j) == {c \in Clients : mon.addr[c] # None /\ j \in Records(mon.addr[c])}

\* The holder of a record in progress is a peer whose entry covers it.
leaseHolder ==
    [j \in Jobs |-> IF mon.states[j] = "INPROGRESS" /\ Holders(j) # {}
                    THEN CHOOSE c \in Holders(j) : TRUE
                    ELSE None]

L == INSTANCE JobLease WITH
       Job    <- Jobs,
       Holder <- Clients,
       Nobody <- None,
       status <- leaseStatus,
       holder <- leaseHolder

\* Every step of the server hands out, completes or releases the records of
\* one peer, as the abstract specification allows, or changes none of that.
LeaseSpec == L!Spec

\* A record is in the segment of one peer at most, and is then in progress:
\* no two peers compute the same record (current_addr_idx, Monitor.cpp).
OneHolder ==
    \A j \in Jobs : \A c, d \in Holders(j) :
        c = d /\ mon.states[j] = "INPROGRESS"
=============================================================================
