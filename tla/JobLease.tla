------------------------------ MODULE JobLease ------------------------------
(* What the server promises about records while no command fails: a record   *)
(* is handed to one peer at a time, stays with it until its result is in or  *)
(* the peer is lost, and once its result is in it is never handed out again. *)
CONSTANTS Job, Holder, Nobody

VARIABLES
    status,     \* per record: "free", "leased" or "complete"
    holder      \* per record: the peer it is leased to, Nobody if not leased

lease == <<status, holder>>

LeaseTypeOK ==
    /\ status \in [Job -> {"free", "leased", "complete"}]
    /\ holder \in [Job -> Holder \cup {Nobody}]

HeldBy(h) == {j \in Job : holder[j] = h}

\* The records of S leave their holder in state s.
Give(S, s, h) ==
    /\ status' = [j \in Job |-> IF j \in S THEN s ELSE status[j]]
    /\ holder' = [j \in Job |-> IF j \in S THEN h ELSE holder[j]]

Init == /\ status = [j \in Job |-> "free"]
        /\ holder = [j \in Job |-> Nobody]

\* A peer that holds nothing gets some free records.
Lease(h) ==
    /\ HeldBy(h) = {}
    /\ \E S \in SUBSET {j \in Job : status[j] = "free"} : Give(S, "leased", h)

\* The result of all that the peer holds is in.
Complete(h) == Give(HeldBy(h), "complete", Nobody)

\* The peer is lost.
Release(h) == Give(HeldBy(h), "free", Nobody)

\* All peers are lost at once, with the server.
ReleaseAll == Give({j \in Job : status[j] = "leased"}, "free", Nobody)

Next == \/ \E h \in Holder : Lease(h) \/ Complete(h) \/ Release(h)
        \/ ReleaseAll

Spec == Init /\ [][Next]_lease
=============================================================================
