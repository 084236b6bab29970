---------------------------- MODULE TasklistPtr -----------------------------
(***************************************************************************)
(* The doubly linked task lists as the code has them (task.c:452-477 and   *)
(* the insertion into the sorted list sleeping in taskdelay, fd.c:110-130):*)
(* a head and a tail per list, and one pair of links inside each task,     *)
(* whatever list the task is on.  deltask leaves the links of the task it  *)
(* removes as they were.                                                   *)
(*                                                                         *)
(* seq is a history variable: the sequences of module Tasklist, which the  *)
(* other modules use for the same lists.  Faithful says that the pointers  *)
(* represent them, in both directions.                                     *)
(***************************************************************************)
EXTENDS Tasklist

VARIABLES head, tail,  \* l->head, l->tail
          next, prev,  \* t->next, t->prev
          seq          \* history: the lists as sequences

vars == <<head, tail, next, prev, seq>>

TypeOK ==
  /\ head \in [List -> Task \cup {nil}]
  /\ tail \in [List -> Task \cup {nil}]
  /\ next \in [Task -> Task \cup {nil}]
  /\ prev \in [Task -> Task \cup {nil}]
  /\ seq \in [List -> Seq(Task)]

(* Zeroed lists and tasks. *)
Init ==
  /\ head = [l \in List |-> nil]
  /\ tail = [l \in List |-> nil]
  /\ next = [t \in Task |-> nil]
  /\ prev = [t \in Task |-> nil]
  /\ seq = [l \in List |-> <<>>]

-----------------------------------------------------------------------------
addtask_links(l, t) ==
  \/ /\ tail[l] # nil
     /\ next' = [next EXCEPT ![tail[l]] = t, ![t] = nil]
     /\ prev' = [prev EXCEPT ![t] = tail[l]]
     /\ tail' = [tail EXCEPT ![l] = t]
     /\ UNCHANGED head
  \/ /\ tail[l] = nil
     /\ head' = [head EXCEPT ![l] = t]
     /\ prev' = [prev EXCEPT ![t] = nil]
     /\ tail' = [tail EXCEPT ![l] = t]
     /\ next' = [next EXCEPT ![t] = nil]

(* Mutant: the tail is not moved back. *)
deltask_links_tail(l, t) ==
  /\ \/ /\ prev[t] # nil
        /\ next' = [next EXCEPT ![prev[t]] = next[t]]
        /\ UNCHANGED head
     \/ /\ prev[t] = nil
        /\ head' = [head EXCEPT ![l] = next[t]]
        /\ UNCHANGED next
  /\ prev' = IF next[t] = nil THEN prev ELSE [prev EXCEPT ![next[t]] = prev[t]]
  /\ UNCHANGED tail

deltask_links(l, t) ==
  /\ \/ /\ prev[t] # nil
        /\ next' = [next EXCEPT ![prev[t]] = next[t]]
        /\ UNCHANGED head
     \/ /\ prev[t] = nil
        /\ head' = [head EXCEPT ![l] = next[t]]
        /\ UNCHANGED next
  /\ \/ /\ next[t] # nil
        /\ prev' = [prev EXCEPT ![next[t]] = prev[t]]
        /\ UNCHANGED tail
     \/ /\ next[t] = nil
        /\ tail' = [tail EXCEPT ![l] = prev[t]]
        /\ UNCHANGED prev

(* taskdelay: t goes in front of u, or to the tail if its search ended     *)
(* with u = nil.                                                           *)
insert_links(l, t, u) ==
  LET p == IF u = nil THEN tail[l] ELSE prev[u]
  IN  /\ \/ /\ p # nil
            /\ next' = [next EXCEPT ![t] = u, ![p] = t]
            /\ UNCHANGED head
         \/ /\ p = nil
            /\ next' = [next EXCEPT ![t] = u]
            /\ head' = [head EXCEPT ![l] = t]
      /\ \/ /\ u # nil
            /\ prev' = [prev EXCEPT ![t] = p, ![u] = t]
            /\ UNCHANGED tail
         \/ /\ u = nil
            /\ prev' = [prev EXCEPT ![t] = p]
            /\ tail' = [tail EXCEPT ![l] = t]

-----------------------------------------------------------------------------
(* What the operations mean for a sequence s. *)
without(s, i) == [k \in 1..Len(s) - 1 |-> IF k < i THEN s[k] ELSE s[k + 1]]
with(s, i, t) == [k \in 1..Len(s) + 1 |->
                    IF k < i THEN s[k] ELSE IF k = i THEN t ELSE s[k - 1]]

(* Callers add a task that is on no list, and delete one that is on the    *)
(* list they name (the property OnePlace of the components).               *)
Add(l, t) ==
  /\ t \notin Listed(seq)
  /\ addtask_links(l, t)
  /\ seq' = addtask(seq, l, t)

Del(l, i) ==
  /\ deltask_links(l, seq[l][i])
  /\ seq' = [seq EXCEPT ![l] = without(@, i)]

Insert(l, t, i) ==
  /\ t \notin Listed(seq)
  /\ insert_links(l, t, IF i \in DOMAIN seq[l] THEN seq[l][i] ELSE nil)
  /\ seq' = [seq EXCEPT ![l] = with(@, i, t)]

Next ==
  \E l \in List :
    \/ \E t \in Task : Add(l, t)
    \/ \E i \in DOMAIN seq[l] : Del(l, i)
    \/ \E t \in Task, i \in 1..Len(seq[l]) + 1 : Insert(l, t, i)

Spec == Init /\ [][Next]_vars

-----------------------------------------------------------------------------
(* The pointers of each list represent its sequence: head and tail are its *)
(* ends, next and prev lead through it forwards and backwards, and end in  *)
(* nil; the links of tasks that were removed do not matter.                *)
Faithful ==
  \A l \in List :
    /\ head[l] = IF seq[l] = <<>> THEN nil ELSE seq[l][1]
    /\ tail[l] = IF seq[l] = <<>> THEN nil ELSE seq[l][Len(seq[l])]
    /\ \A i \in 1..Len(seq[l]) :
         /\ prev[seq[l][i]] = IF i = 1 THEN nil ELSE seq[l][i - 1]
         /\ next[seq[l][i]] = IF i = Len(seq[l]) THEN nil ELSE seq[l][i + 1]

(* The lists stay apart: no operation on one list lets a task appear on    *)
(* another, or twice.                                                      *)
Apart == Disjoint(seq)

(* The inductive invariant. *)
IInv == TypeOK /\ Faithful /\ Apart
=============================================================================
