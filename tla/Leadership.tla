----------------------------- MODULE Leadership -----------------------------
(***************************************************************************)
(* What election promises the rest of cattery about one key: "only the     *)
(* leader for a key runs that tray type's scale set poller", so pollers of *)
(* two replicas never overlap, and one always follows.                     *)
(***************************************************************************)
CONSTANTS Replicas, Nobody

VARIABLE leader     \* the replica whose poller runs

Init == leader = Nobody

Elect(r) == leader = Nobody /\ leader' = r
Resign == leader # Nobody /\ leader' = Nobody

Next == Resign \/ \E r \in Replicas : Elect(r)

Spec == Init /\ [][Next]_leader

\* Some replica leads again and again, for ever if it does not resign.
FairSpec == Spec /\ WF_leader(\E r \in Replicas : Elect(r))
=============================================================================
