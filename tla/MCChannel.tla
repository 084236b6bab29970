----------------------------- MODULE MCChannel ------------------------------
(* Model-checking instances of Channel. *)
EXTENDS Channel, TLC

CONSTANTS c0, c2, one

(* Tasks are interchangeable. *)
Symmetry == Permutations(Task)

(* An unbuffered channel and one with a buffer of two elements. *)
MCbufsize == [c \in Chan |-> IF c = c0 THEN 0 ELSE 2]

MCsnd(c, v) == [c |-> c, op |-> "CHANSND", v |-> v]
MCrcv(c) == [c |-> c, op |-> "CHANRCV", v |-> Zero]
MCnop(c) == [c |-> c, op |-> "CHANNOP", v |-> nil]

(* A receive from either channel, one of them for nothing; a send or a     *)
(* receive on the same one; and a disabled entry before a send.            *)
MCAlts ==
  {<<[MCrcv(c0) EXCEPT !.v = nil], MCrcv(c2)>>, <<MCsnd(c2, one), MCrcv(c2)>>,
   <<MCnop(c2), MCsnd(c0, one)>>}
=============================================================================
