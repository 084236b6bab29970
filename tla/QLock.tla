------------------------------- MODULE QLock --------------------------------
(***************************************************************************)
(* Queuing locks (qlock.c:6-67): a lock has an owner and a FIFO list of    *)
(* waiting tasks, and qunlock passes the ownership straight to the first   *)
(* of them.  Any number of locks; list l is the waiting list of lock l.    *)
(*                                                                         *)
(* pc and arg are a task's position inside the library: pc[t] = "qlock" is *)
(* a task inside qlock(arg[t]) past its addtask.  holds is what the tasks  *)
(* themselves know: the locks their completed calls gave them and that     *)
(* they have not given back.  pc[t] = "sleep" is used by module Rendez.     *)
(***************************************************************************)
EXTENDS Sched

CONSTANT Lock     \* the QLock objects, each naming its own waiting list

ASSUME QLockAssumption == Lock \subseteq List \ {RunQ}

VARIABLES owner,  \* l->owner
          holds,  \* per task: locks its completed calls acquired
          pc,     \* per task: where in the library it is
          arg     \* per task: the lock argument of a qlock that waits

lockvars == <<owner, holds, pc, arg>>
vars == <<schedvars, lockvars>>

TypeOK ==
  /\ SchedTypeOK
  /\ owner \in [Lock -> Task \cup {nil}]
  /\ holds \in [Task -> SUBSET Lock]
  /\ pc \in [Task -> {"user", "qlock", "sleep"}]
  /\ arg \in [Task -> Lock \cup {nil}]

Init ==
  /\ SchedInit
  /\ owner = [l \in Lock |-> nil]
  /\ holds = [t \in Task |-> {}]
  /\ pc = [t \in Task |-> "user"]
  /\ arg = [t \in Task |-> nil]

-----------------------------------------------------------------------------
(* Mutant: the owner is not looked at. *)
acquire_barging(t, l) ==
  /\ owner' = [owner EXCEPT ![l] = t]
  /\ holds' = [holds EXCEPT ![t] = @ \cup {l}]
  /\ pc' = [pc EXCEPT ![t] = "user"]
  /\ UNCHANGED <<schedvars, arg>>

(* The part of _qlock before its taskswitch, for the running task t. *)
acquire(t, l) ==
  /\ owner[l] = nil
  /\ owner' = [owner EXCEPT ![l] = t]
  /\ holds' = [holds EXCEPT ![t] = @ \cup {l}]
  /\ pc' = [pc EXCEPT ![t] = "user"]
  /\ UNCHANGED <<schedvars, arg>>

enqueue(t, l) ==
  /\ owner[l] # nil
  /\ lists' = addtask(lists, l, t)
  /\ taskswitch
  /\ pc' = [pc EXCEPT ![t] = "qlock"]
  /\ arg' = [arg EXCEPT ![t] = l]
  /\ UNCHANGED <<prog, owner, holds>>

qlock(t, l) ==
  /\ Running(t) /\ pc[t] = "user"
  /\ acquire(t, l) \/ enqueue(t, l)

(* canqlock gives up instead of waiting: without the lock nothing changes. *)
canqlock(t, l) ==
  /\ Running(t) /\ pc[t] = "user"
  /\ acquire(t, l)

(* The rest of _qlock, once t runs again: abort unless t is the owner. *)
qlock_resume(t) ==
  /\ Running(t) /\ pc[t] = "qlock"
  /\ \/ /\ owner[arg[t]] # t
        /\ Abort
        /\ UNCHANGED lockvars
     \/ /\ owner[arg[t]] = t
        /\ holds' = [holds EXCEPT ![t] = @ \cup {arg[t]}]
        /\ pc' = [pc EXCEPT ![t] = "user"]
        /\ arg' = [arg EXCEPT ![t] = nil]
        /\ UNCHANGED <<schedvars, owner>>

(* Mutants: the waiting task is made ready but not made the owner; the     *)
(* last task in the queue is taken.                                        *)
release_free(q, l) ==
  /\ owner' = [owner EXCEPT ![l] = nil]
  /\ lists' = IF q[l] = <<>> THEN q ELSE taskready(deltask(q, l), Head(q[l]))

release_lifo(q, l) ==
  LET n == Len(q[l])
  IN  \/ /\ n = 0
         /\ owner' = [owner EXCEPT ![l] = nil]
         /\ lists' = q
      \/ /\ n > 0
         /\ owner' = [owner EXCEPT ![l] = q[l][n]]
         /\ lists' = taskready([q EXCEPT ![l] = SubSeq(@, 1, n - 1)], q[l][n])

(* Releasing l when the task lists are q: the first waiting task becomes   *)
(* the owner and is made ready.                                            *)
release(q, l) ==
  \/ /\ q[l] = <<>>
     /\ owner' = [owner EXCEPT ![l] = nil]
     /\ lists' = q
  \/ /\ q[l] # <<>>
     /\ owner' = [owner EXCEPT ![l] = Head(q[l])]
     /\ lists' = taskready(deltask(q, l), Head(q[l]))

(* qunlock tests only that somebody owns the lock. *)
qunlock(t, l) ==
  /\ Running(t) /\ pc[t] = "user"
  /\ \/ /\ owner[l] = nil
        /\ Abort
        /\ UNCHANGED lockvars
     \/ /\ owner[l] # nil
        /\ release(lists, l)
        /\ holds' = [holds EXCEPT ![t] = @ \ {l}]
        /\ UNCHANGED <<taskrunning, prog, pc, arg>>

-----------------------------------------------------------------------------
(* A program that uses the locks as intended: a task unlocks what it holds *)
(* and does not lock what it holds.                                        *)
Yield(t) == pc[t] = "user" /\ taskyield(t) /\ UNCHANGED lockvars
Schedule == (Dispatch \/ Stall) /\ UNCHANGED lockvars

TaskStep(t) ==
  \/ \E l \in Lock \ holds[t] : qlock(t, l) \/ canqlock(t, l)
  \/ \E l \in holds[t] : qunlock(t, l)
  \/ qlock_resume(t)
  \/ Yield(t)

Next == Schedule \/ \E t \in Task : TaskStep(t)

Spec == Init /\ [][Next]_vars

(* The same program without that discipline: any task may lock and unlock  *)
(* any lock at any time.                                                   *)
AnyNext ==
  Next \/ \E t \in Task, l \in Lock : qlock(t, l) \/ qunlock(t, l)
AnySpec == Init /\ [][AnyNext]_vars

-----------------------------------------------------------------------------
(* A lock is held by at most one task, in the tasks' own view: two tasks   *)
(* whose qlock or canqlock has returned never hold the same lock.          *)
MutualExclusion ==
  \A t, u \in Task : t # u => holds[t] \cap holds[u] = {}

(* Neither of the aborts of qlock.c (owner is not the task that wakes up,  *)
(* unlock of a free lock) is reached by a program that unlocks only what   *)
(* it holds.                                                               *)
NoAbort == prog # "aborted"

(* Every task is in exactly one place: it runs, or it is on exactly one    *)
(* task list, once.  This is what makes the single next/prev pair of       *)
(* struct Task sufficient, and says that no task is ever lost.             *)
OnePlace ==
  /\ Disjoint(lists)
  /\ taskrunning \notin Listed(lists)
  /\ Task \ {taskrunning} = Listed(lists)

(* No lost wakeup: while a task waits for a lock, the lock has an owner,   *)
(* and the owner is not itself in that queue.                              *)
WaitersHaveOwner ==
  \A l \in Lock : lists[l] # <<>> => owner[l] \in Task \ On(lists, l)

(* The part of it that survives misuse: qunlock never leaves a lock free   *)
(* with tasks waiting for it, whoever calls it.                            *)
FreeLockHasNoWaiters ==
  \A l \in Lock : owner[l] = nil => lists[l] = <<>>

(* What the comment before qunlock's test says (qlock.c:53-54): a task     *)
(* that does not own the lock is aborted, it cannot release it.            *)
OnlyOwnerUnlocks ==
  [][\A l \in Lock : owner[l] \notin {nil, taskrunning} => owner'[l] = owner[l]]_vars

(* The inductive invariant behind the safety properties: what the owner    *)
(* field says agrees with what the tasks know and with where they wait.    *)
HoldersOwn ==
  \A t \in Task : \A l \in holds[t] : owner[l] = t

OwnersKnow ==
  \A l \in Lock : owner[l] # nil =>
    \/ l \in holds[owner[l]]
    \/ pc[owner[l]] = "qlock" /\ arg[owner[l]] = l

WaitersWait ==
  \A l \in Lock : \A t \in On(lists, l) : pc[t] = "qlock" /\ arg[t] = l

QlockCalls ==
  \A t \in Task : pc[t] = "qlock" =>
    arg[t] \in Lock /\ (t \in On(lists, arg[t]) \/ owner[arg[t]] = t)

IInv ==
  /\ TypeOK /\ OnePlace /\ NoAbort /\ WaitersHaveOwner
  /\ HoldersOwn /\ OwnersKnow /\ WaitersWait /\ QlockCalls

(* What is left of it when tasks lock and unlock at will. *)
AnyInv ==
  /\ TypeOK /\ OnePlace /\ FreeLockHasNoWaiters
  /\ \A t \in Task : pc[t] = "qlock" => arg[t] \in Lock
=============================================================================
