---------------------------- MODULE MCContainers ----------------------------
(***************************************************************************)
(* Model-checking instance of the two containers that tasks wait in: the   *)
(* linked lists of TasklistPtr and the arrays of AltArray.  They share     *)
(* nothing, so each is explored with the other one in its initial state.   *)
(***************************************************************************)
EXTENDS TasklistPtr, AltArray, TLC

CInit == Init /\ AInit

CNext ==
  \/ Next /\ AInit /\ UNCHANGED avars
  \/ ANext /\ Init /\ UNCHANGED vars

CSpec == CInit /\ [][CNext]_<<vars, avars>>

(* Tasks, lists and entries are interchangeable. *)
Symmetry == Permutations(Task) \cup Permutations(List) \cup Permutations(Ptr)
=============================================================================
