------------------------------ MODULE MCRWLock ------------------------------
(* The model-checking instance of RWLock; its cfg gives the constants      *)
(* their values.                                                           *)
EXTENDS RWLock, TLC
=============================================================================
