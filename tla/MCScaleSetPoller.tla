-------------------------- MODULE MCScaleSetPoller --------------------------
(***************************************************************************)
(* Model checking of ScaleSetPoller.  Trays and pollers are fully          *)
(* interchangeable, but `scaling` checks liveness and so uses no symmetry. *)
(* MessageHistory has no state of its own: an assumption checks it.        *)
(***************************************************************************)
EXTENDS ScaleSetPoller, MessageHistory, SequencesExt

Symmetry == Permutations(Trays) \cup Permutations(Pollers)

\* Messages differ, and the buffer is filled, overwritten and wrapped twice.
Logs == {[i \in 1..n |-> i] : n \in 0..(2 * HistorySize + 1)}

Recorded(log) == FoldLeft(Add, EmptyHistory(0), log)

\* The status page shows the latest messages, newest first, and no other:
\* what Recent returns after any number of additions.
ASSUME HistoryNewestFirst ==
    \A log \in Logs : Recent(Recorded(log)) = Latest(log)
=============================================================================
