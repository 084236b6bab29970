------------------------------ MODULE Tasklist ------------------------------
(***************************************************************************)
(* The task lists of libtask (struct Tasklist, task.h:36-40; addtask and   *)
(* deltask, task.c:452-477) as the other components use them: every list   *)
(* is a sequence of tasks and all lists of the program together are one    *)
(* function from list names to sequences.  A task has a single next/prev   *)
(* pair, so the lists are only meaningful while no task is on two of them; *)
(* Disjoint says that, and every component has to keep it.                 *)
(*                                                                         *)
(* That the pointer code really implements these sequences is the subject  *)
(* of module TasklistPtr.                                                  *)
(***************************************************************************)
EXTENDS Integers, Sequences, Functions

CONSTANTS Task,   \* the tasks (addresses of struct Task)
          List,   \* the Tasklist objects of the program
          nil     \* the null pointer

ASSUME TasklistAssumption == nil \notin Task

(* addtask: t goes to the tail of list l. *)
addtask(q, l, t) == [q EXCEPT ![l] = Append(@, t)]

(* deltask, as every caller uses it: the task removed is the list's head. *)
deltask(q, l) == [q EXCEPT ![l] = Tail(@)]

(* The tasks on list l, and on any list. *)
On(q, l) == Range(q[l])
Listed(q) == UNION {On(q, l) : l \in List}

(* No task is on two lists, or twice on one: the intrusive links are sound. *)
Disjoint(q) ==
  \A l, m \in List : \A i \in DOMAIN q[l] : \A j \in DOMAIN q[m] :
     q[l][i] = q[m][j] => l = m /\ i = j
=============================================================================
