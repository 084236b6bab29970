------------------------------ MODULE AltArray ------------------------------
(***************************************************************************)
(* The waiting arrays of a channel (struct Altarray, task.h:116-121;       *)
(* addarray, delarray, altqueue and altdequeue, channel.c:41-57, 109-139): *)
(* n entries in a block with room for m, grown by a fixed step and never   *)
(* shrunk; deletion moves the last entry into the hole.                    *)
(*                                                                         *)
(* waiting is a history variable: the set that module Channel uses for     *)
(* the array.                                                              *)
(***************************************************************************)
EXTENDS Integers, FiniteSets

CONSTANTS Ptr,   \* Alt pointers
          Grow,  \* addarray grows the block by this many entries (16)
          junk   \* what a fresh entry of the block holds

ASSUME AltArrayAssumption == Grow \in Nat \ {0} /\ junk \notin Ptr

VARIABLES a_a, a_n, a_m,  \* a->a, a->n, a->m: the block of m entries, n of them in use
          aborted,        \* altdequeue did not find the entry
          waiting         \* history: the entries queued and not dequeued

avars == <<a_a, a_n, a_m, aborted, waiting>>

ATypeOK ==
  /\ a_n \in Nat
  /\ a_m \in Nat
  /\ a_a \in [0..a_m - 1 -> Ptr \cup {junk}]
  /\ aborted \in BOOLEAN
  /\ waiting \in SUBSET Ptr

(* chancreate zeroes the channel: no block yet. *)
AInit ==
  /\ a_n = 0
  /\ a_m = 0
  /\ a_a = [i \in 0..-1 |-> junk]
  /\ aborted = FALSE
  /\ waiting = {}

-----------------------------------------------------------------------------
(* The block after addarray's realloc, if it was full. *)
grown == IF a_n = a_m THEN a_m + Grow ELSE a_m

addarray(p) ==
  /\ a_m' = grown
  /\ a_a' = [i \in 0..a_m' - 1 |-> IF i = a_n THEN p ELSE IF i < a_m THEN a_a[i] ELSE junk]
  /\ a_n' = a_n + 1

(* Mutant: the last entry is not moved into the hole. *)
delarray_nomove(i) ==
  /\ a_n' = a_n - 1
  /\ UNCHANGED <<a_a, a_m>>

delarray(i) ==
  /\ a_n' = a_n - 1
  /\ a_a' = [a_a EXCEPT ![i] = a_a[a_n - 1]]
  /\ UNCHANGED a_m

(* A task that is about to wait queues an entry, once. *)
altqueue(p) ==
  /\ ~aborted
  /\ p \notin waiting
  /\ addarray(p)
  /\ waiting' = waiting \cup {p}
  /\ UNCHANGED aborted

(* A task that executes an entry of a waiting task dequeues all of them. *)
altdequeue(p) ==
  /\ ~aborted
  /\ p \in waiting
  /\ \/ \E i \in 0..a_n - 1 :
          /\ a_a[i] = p
          /\ \A j \in 0..i - 1 : a_a[j] # p
          /\ delarray(i)
          /\ UNCHANGED aborted
     \/ /\ \A i \in 0..a_n - 1 : a_a[i] # p
        /\ aborted' = TRUE
        /\ UNCHANGED <<a_a, a_n, a_m>>
  /\ waiting' = waiting \ {p}

ANext == \E p \in Ptr : altqueue(p) \/ altdequeue(p)

ASpec == AInit /\ [][ANext]_avars

-----------------------------------------------------------------------------
(* The first n entries are the waiting entries, each once: none is lost    *)
(* by the move in delarray, and none stays behind to be executed again.    *)
Exact ==
  /\ \A p \in Ptr : p \in waiting <=> \E i \in 0..a_n - 1 : a_a[i] = p
  /\ \A i, j \in 0..a_n - 1 : a_a[i] = a_a[j] => i = j

(* The entries in use fit into the block: addarray grew it in time. *)
Fits == a_n <= a_m

(* altdequeue finds what altqueue put there: "cannot find self in altdq"   *)
(* is not reached.                                                         *)
NotAborted == ~aborted

(* The inductive invariant, what chanalt relies on: after any sequence of   *)
(* altqueue and altdequeue the array holds exactly the waiting entries,    *)
(* within its block, and "cannot find self in altdq" is never reached.     *)
AInv == ATypeOK /\ Exact /\ Fits /\ NotAborted /\ \A i \in 0..a_n - 1 : a_a[i] \in Ptr
=============================================================================
