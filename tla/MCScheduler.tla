---------------------------- MODULE MCScheduler -----------------------------
(* The model-checking instance of Scheduler; its cfg gives the constants   *)
(* their values.                                                           *)
EXTENDS Scheduler, TLC
=============================================================================
