---------------------------- MODULE MCK8sElection ----------------------------
(***************************************************************************)
(* Model checking of K8sElection.                                          *)
(***************************************************************************)
EXTENDS K8sElection

\* A cadence that leaves room for the poller to stop, the default renewal
\* interval, which leaves none, and one that client-go refuses.
ThreeCadences == {ACadence(10, 1), ACadence(3, 0), ACadence(9, 5)}
==============================================================================
