-------------------------- MODULE MCLeaseElection --------------------------
(***************************************************************************)
(* Model checking of LeaseElection: replicas are interchangeable.          *)
(***************************************************************************)
EXTENDS LeaseElection, TLC

Symmetry == Permutations(Replicas)
=============================================================================
