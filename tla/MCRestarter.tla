---------------------------- MODULE MCRestarter ----------------------------
(***************************************************************************)
(* Model checking of Restarter: one workflow run, of every kind of event,  *)
(* since requests of different runs share nothing but the order in which   *)
(* a loop takes them.                                                      *)
(***************************************************************************)
EXTENDS Restarter
=============================================================================
