------------------------------ MODULE MCAgent -------------------------------
(***************************************************************************)
(* Model checking of Agent.                                                *)
(***************************************************************************)
EXTENDS Agent
=============================================================================
