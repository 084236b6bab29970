------------------------------ MODULE MCQLock -------------------------------
(* The model-checking instance of QLock used at will; the intended use is  *)
(* checked with module Rendez.                                             *)
EXTENDS QLock, TLC
=============================================================================
