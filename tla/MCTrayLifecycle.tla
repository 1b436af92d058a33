-------------------------- MODULE MCTrayLifecycle --------------------------
(* Instances of TrayLifecycle for TLC.                                     *)
EXTENDS TrayLifecycle, TLC

\* Handlers are interchangeable, and so are the replicas' stale loops.
Symmetry == Permutations(Handlers) \cup Permutations(Replicas)

============================================================================
