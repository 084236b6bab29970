------------------------------- MODULE MCNet --------------------------------
(* The model-checking instance of Net. *)
EXTENDS Net, TLC

(* User tasks are interchangeable, and so are descriptor numbers. *)
Symmetry == Permutations(User) \cup Permutations(Fd)
=============================================================================
