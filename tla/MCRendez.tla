------------------------------ MODULE MCRendez ------------------------------
(* The model-checking instance of Rendez. *)
EXTENDS Rendez, TLC

CONSTANTS l1, r1

(* r1 is the condition of lock l1; r2 has no lock. *)
MClockof == [r \in Rendez |-> IF r = r1 THEN l1 ELSE nil]
=============================================================================
