-------------------------------- MODULE MCFd --------------------------------
(* Model-checking instances of Fd. *)
EXTENDS Fd, TLC

(* User tasks are interchangeable. *)
Symmetry == Permutations(Task \ {Fdtask})
=============================================================================
