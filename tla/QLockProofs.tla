---------------------------- MODULE QLockProofs -----------------------------
(***************************************************************************)
(* Proofs about QLock, for any number of tasks and locks: the invariant    *)
(* IInv is inductive, and with it mutual exclusion, the absence of aborts  *)
(* and of lost tasks and wakeups.  The second half does the same for the   *)
(* locks together with the rendezvous points that use them (Rendez).       *)
(***************************************************************************)
EXTENDS Rendez, TasklistLemmas

(* In the initial state every task is on the run queue. *)
LEMMA InitInv == Init => IInv
<1> SUFFICES ASSUME Init
             PROVE  IInv
  OBVIOUS
<1> USE TasklistAssumption, SchedAssumption, QLockAssumption
<1>1. PICK order \in Bijection(1..Cardinality(Task), Task) :
        lists = [[l \in List |-> <<>>] EXCEPT ![RunQ] = order]
  BY DEF Init, SchedInit
<1>2. /\ lists \in [List -> Seq(Task)] /\ Disjoint(lists) /\ Listed(lists) = Task
      /\ \A l \in List \ {RunQ} : lists[l] = <<>> /\ On(lists, l) = {}
  <2>1. /\ lists = [l \in List |-> lists[l]] /\ lists[RunQ] = order
        /\ \A l \in List \ {RunQ} : lists[l] = <<>>
    BY <1>1
  <2> QED BY <2>1, InitialLists
<1>3. TypeOK
  BY <1>2 DEF Init, SchedInit, TypeOK, SchedTypeOK
<1>4. OnePlace
  BY <1>2 DEF OnePlace, Init, SchedInit
<1> QED BY <1>2, <1>3, <1>4
        DEF IInv, Init, SchedInit, NoAbort, WaitersHaveOwner, HoldersOwn,
            OwnersKnow, WaitersWait, QlockCalls

-----------------------------------------------------------------------------
(* The running task may take a free lock (qlock.c:11-14): nobody waits.    *)
LEMMA AcquireKeeps ==
  ASSUME IInv, NEW t \in Task, NEW l \in Lock, Running(t), pc[t] # "qlock", acquire(t, l)
  PROVE  IInv'
<1> USE TasklistAssumption, SchedAssumption, QLockAssumption DEF IInv
<1>1. TypeOK' /\ OnePlace' /\ NoAbort'
  BY DEF TypeOK, SchedTypeOK, OnePlace, NoAbort, acquire, schedvars
<1>2. lists[l] = <<>> /\ On(lists, l) = {}
  <2>1. lists[l] = <<>>
    BY DEF WaitersHaveOwner, TypeOK, acquire
  <2> QED BY <2>1, EmptyList DEF TypeOK, SchedTypeOK
<1>3. WaitersHaveOwner'
  BY <1>2 DEF WaitersHaveOwner, TypeOK, acquire, schedvars, On
<1>4. HoldersOwn'
  BY DEF HoldersOwn, TypeOK, acquire
<1>5. OwnersKnow'
  BY DEF OwnersKnow, TypeOK, acquire
<1>6. WaitersWait'
  <2>1. \A k \in Lock : t \notin On(lists, k)
    BY DEF WaitersWait
  <2> QED BY <2>1 DEF WaitersWait, TypeOK, acquire, schedvars, On
<1>7. QlockCalls'
  BY <1>2 DEF QlockCalls, TypeOK, acquire, schedvars, On
<1> QED BY <1>1, <1>3, <1>4, <1>5, <1>6, <1>7

(* A task that finds the lock taken goes to its queue (qlock.c:15-23). *)
LEMMA EnqueueKeeps ==
  ASSUME IInv, NEW t \in Task, NEW l \in Lock \ holds[t],
         Running(t), pc[t] # "qlock", enqueue(t, l)
  PROVE  IInv'
<1> USE TasklistAssumption, SchedAssumption, QLockAssumption DEF IInv
<1>0. lists \in [List -> Seq(Task)] /\ l \in List /\ taskrunning = t /\ t # nil
  BY DEF TypeOK, SchedTypeOK, Running
<1>1. t \notin Listed(lists) /\ Disjoint(lists) /\ Task \ {t} = Listed(lists)
  BY <1>0 DEF OnePlace
<1>2. lists' = addtask(lists, l, t) /\ taskrunning' = nil
  BY DEF enqueue, taskswitch
<1>3. /\ lists' \in [List -> Seq(Task)]
      /\ Disjoint(lists')
      /\ On(lists', l) = On(lists, l) \cup {t}
      /\ \A m \in List \ {l} : lists'[m] = lists[m] /\ On(lists', m) = On(lists, m)
      /\ Listed(lists') = Listed(lists) \cup {t}
  BY <1>0, <1>1, <1>2, AddTask
<1>4. TypeOK'
  BY <1>2, <1>3 DEF TypeOK, SchedTypeOK, enqueue
<1>5. OnePlace' /\ NoAbort'
  BY <1>0, <1>1, <1>2, <1>3 DEF OnePlace, NoAbort, enqueue
<1>6. owner[l] \in Task \ {t}
  BY DEF TypeOK, OwnersKnow, enqueue
<1>7. WaitersHaveOwner'
  <2>1. owner[l] \notin On(lists, l)
    <3>1. CASE lists[l] = <<>>
      BY <1>0, <3>1, EmptyList
    <3>2. CASE lists[l] # <<>>
      BY <3>2 DEF WaitersHaveOwner
    <3> QED BY <3>1, <3>2
  <2> QED BY <1>3, <1>6, <2>1 DEF WaitersHaveOwner, enqueue
<1>8. HoldersOwn' /\ OwnersKnow'
  BY DEF HoldersOwn, OwnersKnow, TypeOK, enqueue
<1>9. WaitersWait'
  BY <1>0, <1>1, <1>3, InListed DEF WaitersWait, TypeOK, enqueue
<1>10. QlockCalls'
  BY <1>3 DEF QlockCalls, TypeOK, enqueue
<1> QED BY <1>4, <1>5, <1>7, <1>8, <1>9, <1>10

(* A task that runs again inside qlock is the owner (qlock.c:24-28). *)
LEMMA ResumeKeeps ==
  ASSUME IInv, NEW t \in Task, qlock_resume(t)
  PROVE  IInv'
<1> USE TasklistAssumption, SchedAssumption, QLockAssumption DEF IInv
<1> DEFINE l == arg[t]
<1>1. l \in Lock /\ owner[l] = t
  <2>1. t \notin Listed(lists)
    BY DEF qlock_resume, Running, OnePlace
  <2> QED BY <2>1, InListed DEF qlock_resume, QlockCalls
<1>2. /\ holds' = [holds EXCEPT ![t] = @ \cup {l}]
      /\ pc' = [pc EXCEPT ![t] = "user"]
      /\ arg' = [arg EXCEPT ![t] = nil]
      /\ UNCHANGED <<lists, taskrunning, prog, owner>>
  BY <1>1 DEF qlock_resume, schedvars
<1> HIDE DEF l
<1>3. TypeOK' /\ OnePlace' /\ NoAbort'
  BY <1>1, <1>2 DEF TypeOK, SchedTypeOK, OnePlace, NoAbort
<1>4. WaitersHaveOwner'
  BY <1>2 DEF WaitersHaveOwner, On
<1>5. HoldersOwn'
  BY <1>1, <1>2 DEF HoldersOwn, TypeOK
<1>6. OwnersKnow'
  BY <1>1, <1>2 DEF OwnersKnow, TypeOK, l
<1>7. WaitersWait'
  <2>1. \A k \in Lock : t \notin On(lists, k)
    BY InListed DEF qlock_resume, Running, OnePlace
  <2> QED BY <1>2, <2>1 DEF WaitersWait, TypeOK, On
<1>8. QlockCalls'
  BY <1>2 DEF QlockCalls, TypeOK, On
<1> QED BY <1>3, <1>4, <1>5, <1>6, <1>7, <1>8

(* Task t gives up a lock it holds while the task lists are q: the lock is *)
(* free if nobody waits, and else belongs to the first that does           *)
(* (qlock.c:59-66, also as tasksleep calls it).                            *)
LEMMA ReleaseKeeps ==
  ASSUME IInv, NEW t \in Task, NEW l \in holds[t], pc[t] = "user",
         NEW q \in [List -> Seq(Task)], Disjoint(q), \A k \in Lock : q[k] = lists[k],
         release(q, l), holds' = [holds EXCEPT ![t] = @ \ {l}],
         pc'[t] # "qlock", \A u \in Task \ {t} : pc'[u] = pc[u], arg' = arg
  PROVE  /\ owner' \in [Lock -> Task \cup {nil}]
         /\ lists' \in [List -> Seq(Task)] /\ Disjoint(lists') /\ Listed(lists') = Listed(q)
         /\ On(q, RunQ) \subseteq On(lists', RunQ)
         /\ \A m \in List \ (Lock \cup {RunQ}) : On(lists', m) = On(q, m)
         /\ WaitersHaveOwner' /\ HoldersOwn' /\ OwnersKnow' /\ WaitersWait' /\ QlockCalls'
<1> USE TasklistAssumption, SchedAssumption, QLockAssumption DEF IInv
<1>0. l \in Lock /\ l \in List /\ RunQ \in List \ {l} /\ l # RunQ
  BY DEF TypeOK
<1>1. owner[l] = t /\ t # nil
  BY DEF HoldersOwn
<1>2. \A k \in Lock : On(q, k) = On(lists, k) /\ t \notin On(lists, k)
  BY DEF On, WaitersWait
<1>3. HoldersOwn'
  BY <1>0, <1>1 DEF HoldersOwn, TypeOK, release
<1>4. CASE q[l] = <<>>
  <2>1. owner' = [owner EXCEPT ![l] = nil] /\ lists' = q
    BY <1>4 DEF release
  <2>2. On(lists, l) = {}
    BY <1>0, <1>2, <1>4, EmptyList
  <2>3. WaitersHaveOwner'
    BY <1>2, <1>4, <2>1 DEF WaitersHaveOwner, TypeOK
  <2>4. OwnersKnow'
    BY <1>0, <1>1, <2>1 DEF OwnersKnow, TypeOK
  <2>5. WaitersWait' /\ QlockCalls'
    BY <1>0, <1>1, <1>2, <2>1, <2>2, ListedAreTasks DEF WaitersWait, QlockCalls, TypeOK
  <2>6. owner' \in [Lock -> Task \cup {nil}]
    BY <2>1 DEF TypeOK
  <2> QED BY <1>3, <2>1, <2>3, <2>4, <2>5, <2>6
<1>5. CASE q[l] # <<>>
  <2> DEFINE h == Head(q[l])
  <2>1. owner' = [owner EXCEPT ![l] = h] /\ lists' = addtask(deltask(q, l), RunQ, h)
    BY <1>5 DEF release, taskready
  <2>2. /\ h \in Task /\ h \in On(q, l)
        /\ lists' \in [List -> Seq(Task)] /\ Disjoint(lists') /\ Listed(lists') = Listed(q)
        /\ On(lists', l) = On(q, l) \ {h} /\ On(lists', RunQ) = On(q, RunQ) \cup {h}
        /\ \A m \in List \ {l, RunQ} : lists'[m] = q[m] /\ On(lists', m) = On(q, m)
    <3>1. lists' = addtask(deltask(q, l), RunQ, Head(q[l]))
      BY <2>1
    <3> QED BY ONLY q \in [List -> Seq(Task)], Disjoint(q), <1>0, <1>5, <3>1, MoveHead, SMTT(30)
  <2> HIDE DEF h
  <2>3. /\ On(lists', l) = On(lists, l) \ {h} /\ h \in On(lists, l)
        /\ \A k \in Lock \ {l} : lists'[k] = lists[k] /\ On(lists', k) = On(lists, k)
    BY <1>0, <1>2, <2>2
  <2>4. pc[h] = "qlock" /\ arg[h] = l /\ h # t /\ pc'[h] = "qlock" /\ arg'[h] = l
    BY <1>0, <1>2, <2>2, <2>3 DEF WaitersWait
  <2>5. WaitersHaveOwner'
    <3>1. \A k \in Lock \ {l} : owner'[k] = owner[k]
      BY <2>1 DEF TypeOK
    <3>2. owner'[l] = h
      BY <1>0, <2>1 DEF TypeOK
    <3> QED BY <2>2, <2>3, <3>1, <3>2 DEF WaitersHaveOwner
  <2>6. OwnersKnow'
    BY <1>0, <1>1, <2>1, <2>2, <2>4 DEF OwnersKnow, TypeOK
  <2>7. WaitersWait'
    <3>1. \A k \in Lock : On(lists', k) \subseteq On(lists, k) /\ On(lists, k) \subseteq Task \ {t}
      <4>1. \A k \in Lock : On(lists, k) \subseteq Task
        BY ListedAreTasks DEF TypeOK, SchedTypeOK
      <4> QED BY <1>2, <2>3, <4>1
    <3> QED BY <3>1 DEF WaitersWait
  <2>8. QlockCalls'
    <3>1. ASSUME NEW u \in Task, pc'[u] = "qlock"
          PROVE  arg[u] \in Lock /\ (u \in On(lists', arg[u]) \/ owner'[arg[u]] = u)
      <4>0. u # t /\ pc[u] = "qlock"
        BY <3>1
      <4>1. arg[u] \in Lock /\ (u \in On(lists, arg[u]) \/ owner[arg[u]] = u)
        BY <4>0 DEF QlockCalls
      <4>2. CASE arg[u] = l
        <5>1. u \in On(lists, l)
          BY <1>1, <4>0, <4>1, <4>2
        <5>2. owner'[l] = h
          BY <1>0, <2>1 DEF TypeOK
        <5> QED BY <1>0, <2>3, <4>2, <5>1, <5>2
      <4>3. CASE arg[u] # l
        BY <1>0, <2>1, <2>3, <4>1, <4>3 DEF TypeOK
      <4> QED BY <4>2, <4>3
    <3> QED BY <3>1 DEF QlockCalls
  <2>9. owner' \in [Lock -> Task \cup {nil}]
    BY <2>1, <2>2 DEF TypeOK
  <2> QED BY <1>0, <1>3, <2>2, <2>5, <2>6, <2>7, <2>8, <2>9
<1> QED BY <1>4, <1>5

(* qunlock by the holder (qlock.c:48-67). *)
LEMMA UnlockKeeps ==
  ASSUME IInv, NEW t \in Task, NEW l \in holds[t], qunlock(t, l)
  PROVE  /\ IInv'
         /\ On(lists, RunQ) \subseteq On(lists', RunQ)
         /\ \A m \in List \ (Lock \cup {RunQ}) : On(lists', m) = On(lists, m)
<1> USE TasklistAssumption, SchedAssumption, QLockAssumption DEF IInv
<1>0. l \in Lock /\ lists \in [List -> Seq(Task)] /\ Disjoint(lists)
  BY DEF TypeOK, SchedTypeOK, OnePlace
<1>1. owner[l] = t /\ t # nil /\ taskrunning = t /\ pc[t] = "user"
  BY DEF HoldersOwn, qunlock, Running
<1>2. /\ release(lists, l)
      /\ holds' = [holds EXCEPT ![t] = @ \ {l}]
      /\ UNCHANGED <<taskrunning, prog, pc, arg>>
  BY <1>1 DEF qunlock
<1>3. /\ owner' \in [Lock -> Task \cup {nil}]
      /\ lists' \in [List -> Seq(Task)] /\ Disjoint(lists') /\ Listed(lists') = Listed(lists)
      /\ On(lists, RunQ) \subseteq On(lists', RunQ)
      /\ \A m \in List \ (Lock \cup {RunQ}) : On(lists', m) = On(lists, m)
      /\ WaitersHaveOwner' /\ HoldersOwn' /\ OwnersKnow' /\ WaitersWait' /\ QlockCalls'
  BY <1>0, <1>1, <1>2, ReleaseKeeps
<1>4. TypeOK' /\ OnePlace' /\ NoAbort'
  BY <1>2, <1>3 DEF TypeOK, SchedTypeOK, OnePlace, NoAbort
<1> QED BY <1>3, <1>4

(* Yielding and dispatching move a task between the CPU and the run queue, *)
(* and no lock is involved (task.c:209-223, 272-292).                      *)
LEMMA YieldKeeps ==
  ASSUME IInv, NEW t \in Task, Yield(t)
  PROVE  IInv'
<1> USE TasklistAssumption, SchedAssumption, QLockAssumption DEF IInv
<1>1. /\ lists' = addtask(lists, RunQ, t) /\ taskrunning = t /\ taskrunning' = nil
      /\ UNCHANGED <<prog, owner, holds, pc, arg>>
  BY DEF Yield, taskyield, taskready, taskswitch, Running, lockvars
<1>2. /\ lists' \in [List -> Seq(Task)] /\ Disjoint(lists')
      /\ \A m \in List \ {RunQ} : lists'[m] = lists[m] /\ On(lists', m) = On(lists, m)
      /\ Listed(lists') = Listed(lists) \cup {t}
  BY <1>1, AddTask DEF TypeOK, SchedTypeOK, OnePlace
<1>3. \A l \in Lock : lists'[l] = lists[l] /\ On(lists', l) = On(lists, l)
  BY <1>2
<1>4. TypeOK' /\ OnePlace' /\ NoAbort'
  BY <1>1, <1>2 DEF TypeOK, SchedTypeOK, OnePlace, NoAbort
<1> QED BY <1>1, <1>3, <1>4
        DEF WaitersHaveOwner, HoldersOwn, OwnersKnow, WaitersWait, QlockCalls

LEMMA ScheduleKeeps ==
  ASSUME IInv, Schedule
  PROVE  IInv'
<1> USE TasklistAssumption, SchedAssumption, QLockAssumption DEF IInv
<1>0. UNCHANGED <<owner, holds, pc, arg>>
  BY DEF Schedule, lockvars
<1>1. CASE Stall
  <2>1. lists' = lists /\ taskrunning' = taskrunning /\ prog' = "stalled"
    BY <1>1 DEF Stall
  <2> QED BY <1>0, <2>1
          DEF TypeOK, SchedTypeOK, OnePlace, NoAbort, WaitersHaveOwner, HoldersOwn,
              OwnersKnow, WaitersWait, QlockCalls, On
<1>2. CASE Dispatch
  <2> DEFINE h == Head(lists[RunQ])
  <2>1. /\ taskrunning = nil /\ taskrunning' = h /\ prog' = prog
        /\ lists[RunQ] # <<>> /\ lists' = deltask(lists, RunQ)
    BY <1>2 DEF Dispatch, Running
  <2>2. /\ h \in Task /\ h \in Listed(lists)
        /\ lists' \in [List -> Seq(Task)] /\ Disjoint(lists')
        /\ \A m \in List \ {RunQ} : lists'[m] = lists[m] /\ On(lists', m) = On(lists, m)
        /\ Listed(lists') = Listed(lists) \ {h}
    BY <2>1, DelTask DEF TypeOK, SchedTypeOK, OnePlace
  <2> HIDE DEF h
  <2>3. \A l \in Lock : lists'[l] = lists[l] /\ On(lists', l) = On(lists, l)
    BY <2>2
  <2>4. TypeOK' /\ OnePlace' /\ NoAbort'
    BY <1>0, <2>1, <2>2 DEF TypeOK, SchedTypeOK, OnePlace, NoAbort
  <2> QED BY <1>0, <2>3, <2>4
          DEF WaitersHaveOwner, HoldersOwn, OwnersKnow, WaitersWait, QlockCalls
<1> QED BY <1>1, <1>2 DEF Schedule

-----------------------------------------------------------------------------
(* The invariant of a program that unlocks only what it holds. *)
THEOREM QLockInvariant == Spec => []IInv
<1>1. IInv /\ [Next]_vars => IInv'
  <2> SUFFICES ASSUME IInv, [Next]_vars
               PROVE  IInv'
    OBVIOUS
  <2>1. CASE UNCHANGED vars
    BY <2>1 DEF vars, schedvars, lockvars, IInv, TypeOK, SchedTypeOK, OnePlace, NoAbort,
                WaitersHaveOwner, HoldersOwn, OwnersKnow, WaitersWait, QlockCalls, On, Listed
  <2>2. CASE Schedule
    BY <2>2, ScheduleKeeps
  <2>3. ASSUME NEW t \in Task, TaskStep(t)
        PROVE  IInv'
    <3>1. ASSUME NEW l \in Lock \ holds[t], qlock(t, l) \/ canqlock(t, l)
          PROVE  IInv'
      BY <3>1, AcquireKeeps, EnqueueKeeps DEF qlock, canqlock, Running
    <3>2. ASSUME NEW l \in holds[t], qunlock(t, l)
          PROVE  IInv'
      BY <3>2, UnlockKeeps
    <3>3. CASE qlock_resume(t)
      BY <3>3, ResumeKeeps
    <3>4. CASE Yield(t)
      BY <3>4, YieldKeeps
    <3> QED BY <2>3, <3>1, <3>2, <3>3, <3>4 DEF TaskStep
  <2> QED BY <2>1, <2>2, <2>3 DEF Next
<1> QED BY <1>1, InitInv, PTL DEF Spec

(* Type correctness of the lock model. *)
THEOREM QLockTypeOK == Spec => []TypeOK
BY QLockInvariant, PTL DEF IInv

(* No two tasks hold the same lock after qlock or canqlock returned to     *)
(* them, for any number of tasks and locks.                                *)
THEOREM QLockMutualExclusion == Spec => []MutualExclusion
<1>1. IInv => MutualExclusion
  <2> SUFFICES ASSUME IInv, NEW t \in Task, NEW u \in Task, t # u
               PROVE  holds[t] \cap holds[u] = {}
    BY DEF MutualExclusion
  <2> QED BY DEF IInv, HoldersOwn
<1> QED BY <1>1, QLockInvariant, PTL

(* Neither abort of qlock.c is reached, no task is lost or on two lists,   *)
(* and while a task waits for a lock another one owns it.                  *)
THEOREM QLockSafety == Spec => [](NoAbort /\ OnePlace /\ WaitersHaveOwner)
BY QLockInvariant, PTL DEF IInv

-----------------------------------------------------------------------------
(* The same for a program that locks and unlocks at will.  Each operation  *)
(* keeps AnyInv, whoever calls it.                                         *)
LEMMA AnyQlockKeeps ==
  ASSUME AnyInv, NEW t \in Task, NEW l \in Lock, qlock(t, l)
  PROVE  AnyInv'
<1> USE TasklistAssumption, SchedAssumption, QLockAssumption DEF AnyInv
<1>0. taskrunning = t /\ t # nil /\ lists \in [List -> Seq(Task)] /\ l \in List
  BY DEF qlock, Running, TypeOK, SchedTypeOK
<1>1. CASE acquire(t, l)
  <2>1. TypeOK' /\ OnePlace' /\ \A u \in Task : pc'[u] = "qlock" => arg'[u] \in Lock
    BY <1>1 DEF TypeOK, SchedTypeOK, OnePlace, acquire, schedvars
  <2>2. FreeLockHasNoWaiters'
    BY <1>1 DEF FreeLockHasNoWaiters, TypeOK, acquire, schedvars
  <2> QED BY <2>1, <2>2
<1>2. CASE enqueue(t, l)
  <2>1. /\ lists' = addtask(lists, l, t) /\ taskrunning' = nil /\ owner[l] # nil
        /\ pc' = [pc EXCEPT ![t] = "qlock"] /\ arg' = [arg EXCEPT ![t] = l]
        /\ UNCHANGED <<prog, owner, holds>>
    BY <1>2 DEF enqueue, taskswitch
  <2>2. /\ lists' \in [List -> Seq(Task)] /\ Disjoint(lists')
        /\ \A m \in List \ {l} : lists'[m] = lists[m]
        /\ Listed(lists') = Listed(lists) \cup {t}
    BY <1>0, <2>1, AddTask, SMTT(30) DEF OnePlace
  <2>3. TypeOK' /\ \A u \in Task : pc'[u] = "qlock" => arg'[u] \in Lock
    BY <2>1, <2>2 DEF TypeOK, SchedTypeOK
  <2>4. OnePlace' /\ FreeLockHasNoWaiters'
    BY <1>0, <2>1, <2>2 DEF OnePlace, FreeLockHasNoWaiters
  <2> QED BY <2>3, <2>4
<1> QED BY <1>1, <1>2 DEF qlock

LEMMA AnyUnlockKeeps ==
  ASSUME AnyInv, NEW t \in Task, NEW l \in Lock, qunlock(t, l)
  PROVE  AnyInv'
<1> USE TasklistAssumption, SchedAssumption, QLockAssumption DEF AnyInv
<1>0. lists \in [List -> Seq(Task)] /\ l \in List \ {RunQ} /\ Disjoint(lists)
  BY DEF TypeOK, SchedTypeOK, OnePlace
<1>1. CASE owner[l] = nil
  BY <1>1 DEF qunlock, Abort, lockvars, TypeOK, SchedTypeOK, OnePlace, FreeLockHasNoWaiters
<1>2. CASE owner[l] # nil
  <2>1. /\ release(lists, l) /\ holds' = [holds EXCEPT ![t] = @ \ {l}]
        /\ UNCHANGED <<taskrunning, prog, pc, arg>>
    BY <1>2 DEF qunlock
  <2>2. CASE lists[l] = <<>>
    <3>1. owner' = [owner EXCEPT ![l] = nil] /\ lists' = lists
      BY <2>1, <2>2 DEF release
    <3> QED BY <2>1, <2>2, <3>1 DEF TypeOK, SchedTypeOK, OnePlace, FreeLockHasNoWaiters
  <2>3. CASE lists[l] # <<>>
    <3> DEFINE h == Head(lists[l])
               q == deltask(lists, l)
    <3>1. owner' = [owner EXCEPT ![l] = h] /\ lists' = addtask(q, RunQ, h)
      BY <2>1, <2>3 DEF release, taskready
    <3>2. /\ h \in Task /\ h \in Listed(lists)
          /\ q \in [List -> Seq(Task)] /\ Disjoint(q)
          /\ \A m \in List \ {l} : q[m] = lists[m]
          /\ Listed(q) = Listed(lists) \ {h}
      BY <1>0, <2>3, DelTask
    <3> HIDE DEF h, q
    <3>3. /\ lists' \in [List -> Seq(Task)] /\ Disjoint(lists')
          /\ \A m \in List \ {RunQ} : lists'[m] = q[m]
          /\ Listed(lists') = Listed(q) \cup {h}
      BY <3>1, <3>2, AddTask
    <3>4. TypeOK' /\ OnePlace'
      BY <2>1, <3>1, <3>2, <3>3 DEF TypeOK, SchedTypeOK, OnePlace
    <3>5. FreeLockHasNoWaiters'
      BY <1>0, <3>1, <3>2, <3>3 DEF FreeLockHasNoWaiters, TypeOK
    <3> QED BY <2>1, <3>4, <3>5
  <2> QED BY <2>2, <2>3
<1> QED BY <1>1, <1>2

LEMMA AnyOtherKeeps ==
  ASSUME AnyInv, Schedule \/ \E t \in Task : qlock_resume(t) \/ Yield(t)
  PROVE  AnyInv'
<1> USE TasklistAssumption, SchedAssumption, QLockAssumption DEF AnyInv
<1>0. lists \in [List -> Seq(Task)] /\ Disjoint(lists)
  BY DEF TypeOK, SchedTypeOK, OnePlace
<1>1. CASE Stall /\ UNCHANGED lockvars
  BY <1>1 DEF Stall, lockvars, TypeOK, SchedTypeOK, OnePlace, FreeLockHasNoWaiters
<1>2. CASE Dispatch /\ UNCHANGED lockvars
  <2> DEFINE h == Head(lists[RunQ])
  <2>1. /\ taskrunning = nil /\ taskrunning' = h /\ lists[RunQ] # <<>>
        /\ lists' = deltask(lists, RunQ) /\ UNCHANGED <<prog, owner, holds, pc, arg>>
    BY <1>2 DEF Dispatch, Running, lockvars
  <2>2. /\ h \in Task /\ h \in Listed(lists)
        /\ lists' \in [List -> Seq(Task)] /\ Disjoint(lists')
        /\ \A m \in List \ {RunQ} : lists'[m] = lists[m]
        /\ Listed(lists') = Listed(lists) \ {h}
    BY <1>0, <2>1, DelTask
  <2> HIDE DEF h
  <2> QED BY <2>1, <2>2 DEF TypeOK, SchedTypeOK, OnePlace, FreeLockHasNoWaiters
<1>3. ASSUME NEW t \in Task, Yield(t)
      PROVE  AnyInv'
  <2>1. /\ lists' = addtask(lists, RunQ, t) /\ taskrunning = t /\ taskrunning' = nil
        /\ UNCHANGED <<prog, owner, holds, pc, arg>>
    BY <1>3 DEF Yield, taskyield, taskready, taskswitch, Running, lockvars
  <2>2. /\ lists' \in [List -> Seq(Task)] /\ Disjoint(lists')
        /\ \A m \in List \ {RunQ} : lists'[m] = lists[m]
        /\ Listed(lists') = Listed(lists) \cup {t}
    BY <1>0, <2>1, AddTask DEF OnePlace
  <2> QED BY <2>1, <2>2 DEF TypeOK, SchedTypeOK, OnePlace, FreeLockHasNoWaiters
<1>4. ASSUME NEW t \in Task, qlock_resume(t)
      PROVE  AnyInv'
  <2>1. arg[t] \in Lock
    BY <1>4 DEF qlock_resume
  <2>2. CASE owner[arg[t]] # t
    BY <1>4, <2>2 DEF qlock_resume, Abort, lockvars, TypeOK, SchedTypeOK, OnePlace,
                      FreeLockHasNoWaiters
  <2>3. CASE owner[arg[t]] = t
    <3>1. /\ holds' = [holds EXCEPT ![t] = @ \cup {arg[t]}]
          /\ pc' = [pc EXCEPT ![t] = "user"] /\ arg' = [arg EXCEPT ![t] = nil]
          /\ UNCHANGED <<lists, taskrunning, prog, owner>>
      BY <1>4, <2>3 DEF qlock_resume, schedvars
    <3> QED BY <2>1, <3>1 DEF TypeOK, SchedTypeOK, OnePlace, FreeLockHasNoWaiters
  <2> QED BY <2>2, <2>3
<1> QED BY <1>1, <1>2, <1>3, <1>4 DEF Schedule

(* Whatever tasks lock and unlock, no task is lost or linked twice, and no *)
(* lock is left free with tasks waiting for it.                            *)
THEOREM QLockMisuse == AnySpec => []AnyInv
<1>1. Init => AnyInv
  BY InitInv, TasklistAssumption DEF IInv, AnyInv, Init, FreeLockHasNoWaiters, WaitersHaveOwner, QlockCalls
<1>2. AnyInv /\ [AnyNext]_vars => AnyInv'
  <2> SUFFICES ASSUME AnyInv, [AnyNext]_vars
               PROVE  AnyInv'
    OBVIOUS
  <2>1. CASE UNCHANGED vars
    BY <2>1 DEF vars, schedvars, lockvars, AnyInv, TypeOK, SchedTypeOK, OnePlace,
                FreeLockHasNoWaiters, Listed, On
  <2>2. ASSUME NEW t \in Task, NEW l \in Lock, canqlock(t, l) \/ qlock(t, l) \/ qunlock(t, l)
        PROVE  AnyInv'
    BY <2>2, AnyQlockKeeps, AnyUnlockKeeps DEF canqlock, qlock
  <2>3. \A t \in Task : holds[t] \subseteq Lock
    BY DEF AnyInv, TypeOK
  <2> QED BY <2>1, <2>2, <2>3, AnyOtherKeeps DEF AnyNext, Next, TaskStep
<1> QED BY <1>1, <1>2, PTL DEF AnySpec

-----------------------------------------------------------------------------
(* The list of a rendezvous is neither the run queue nor that of a lock. *)
LEMMA RendezLists ==
  /\ RunQ \in List /\ Lock \subseteq List \ {RunQ} /\ nil \notin Lock
  /\ \A r \in Rendez : r \in List /\ r # RunQ /\ r \notin Lock /\ r # nil
                      /\ lockof[r] \in Lock \cup {nil}
BY SchedAssumption, QLockAssumption, RendezAssumption

(* tasksleep gives up r->l on its way to the list of r (rendez.c:12-19). *)
LEMMA SleepKeeps ==
  ASSUME RInv, NEW t \in Task, NEW r \in Rendez, lockof[r] \in holds[t] \cup {nil},
         tasksleep(t, r)
  PROVE  RInv'
<1> USE TasklistAssumption, RendezLists DEF RInv, IInv
<1> DEFINE q == addtask(lists, r, t)
<1>0. /\ lists \in [List -> Seq(Task)] /\ Disjoint(lists) /\ t \notin Listed(lists)
      /\ taskrunning = t /\ t # nil /\ pc[t] = "user" /\ r \in List /\ RunQ \in List \ {r}
      /\ Task \ {t} = Listed(lists)
  BY DEF tasksleep, Running, TypeOK, SchedTypeOK, OnePlace
<1>1. /\ q \in [List -> Seq(Task)] /\ Disjoint(q) /\ Listed(q) = Task
      /\ On(q, r) = On(lists, r) \cup {t}
      /\ \A m \in List \ {r} : q[m] = lists[m] /\ On(q, m) = On(lists, m)
  <2>1. /\ q \in [List -> Seq(Task)] /\ Disjoint(q) /\ Listed(q) = Listed(lists) \cup {t}
        /\ On(q, r) = On(lists, r) \cup {t}
        /\ \A m \in List \ {r} : q[m] = lists[m] /\ On(q, m) = On(lists, m)
    BY <1>0, AddTask
  <2> QED BY <1>0, <2>1
<1>2. /\ pc' = [pc EXCEPT ![t] = "sleep"] /\ rz' = [rz EXCEPT ![t] = r]
      /\ prog' = prog /\ arg' = arg /\ taskrunning' = nil
  <2>1. lockof[r] # nil => owner[lockof[r]] # nil
    BY <1>0 DEF HoldersOwn
  <2> QED BY <2>1 DEF tasksleep, taskswitch
<1>3. \A k \in Lock : q[k] = lists[k] /\ On(q, k) = On(lists, k)
  BY <1>1
<1>4. /\ owner' \in [Lock -> Task \cup {nil}] /\ holds' \in [Task -> SUBSET Lock]
      /\ lists' \in [List -> Seq(Task)] /\ Disjoint(lists') /\ Listed(lists') = Task
      /\ On(q, RunQ) \subseteq On(lists', RunQ)
      /\ \A m \in Rendez : On(lists', m) = On(q, m)
      /\ WaitersHaveOwner' /\ HoldersOwn' /\ OwnersKnow' /\ WaitersWait' /\ QlockCalls'
      /\ lockof[r] \notin holds'[t] /\ \A u \in Task \ {t} : holds'[u] = holds[u]
  <2>1. CASE lockof[r] = nil
    <3>1. lists' = q /\ UNCHANGED <<owner, holds>>
      BY <2>1 DEF tasksleep
    <3> HIDE DEF q
    <3>2. WaitersHaveOwner' /\ HoldersOwn' /\ OwnersKnow'
      BY <1>0, <1>2, <1>3, <3>1 DEF WaitersHaveOwner, HoldersOwn, OwnersKnow, TypeOK
    <3>3. WaitersWait' /\ QlockCalls'
      BY <1>0, <1>2, <1>3, <3>1, InListed DEF WaitersWait, QlockCalls, TypeOK
    <3> QED BY <1>1, <2>1, <3>1, <3>2, <3>3 DEF TypeOK
  <2>2. CASE lockof[r] # nil
    <3> DEFINE l == lockof[r]
    <3>1. l \in holds[t] /\ l \in Lock /\ owner[l] # nil
      BY <1>0, <2>2 DEF HoldersOwn
    <3>2. release(q, l) /\ holds' = [holds EXCEPT ![t] = @ \ {l}]
      BY <2>2, <3>1 DEF tasksleep
    <3>3. pc'[t] # "qlock" /\ \A u \in Task \ {t} : pc'[u] = pc[u]
      BY <1>2 DEF TypeOK
    <3> HIDE DEF q, l
    <3>4. /\ owner' \in [Lock -> Task \cup {nil}]
          /\ lists' \in [List -> Seq(Task)] /\ Disjoint(lists') /\ Listed(lists') = Listed(q)
          /\ On(q, RunQ) \subseteq On(lists', RunQ)
          /\ \A m \in List \ (Lock \cup {RunQ}) : On(lists', m) = On(q, m)
          /\ WaitersHaveOwner' /\ HoldersOwn' /\ OwnersKnow' /\ WaitersWait' /\ QlockCalls'
      BY <1>0, <1>1, <1>2, <1>3, <3>1, <3>2, <3>3, ReleaseKeeps
    <3>5. holds' \in [Task -> SUBSET Lock] /\ l \notin holds'[t]
          /\ \A u \in Task \ {t} : holds'[u] = holds[u]
      BY <3>2 DEF TypeOK
    <3> QED BY <1>1, <3>4, <3>5 DEF l
  <2> QED BY <2>1, <2>2
<1> HIDE DEF q
<1>5. TypeOK' /\ OnePlace' /\ NoAbort' /\ RTypeOK'
  <2>1. TypeOK'
    BY <1>2, <1>4 DEF TypeOK, SchedTypeOK
  <2>2. OnePlace' /\ NoAbort'
    BY <1>2, <1>4 DEF OnePlace, NoAbort
  <2>3. rz' \in [Task -> Rendez \cup {nil}]
    BY <1>2 DEF RTypeOK
  <2> QED BY <2>1, <2>2, <2>3 DEF RTypeOK
<1>6. SleepersExact'
  <2>1. ASSUME NEW u \in Task, NEW m \in Rendez, u \in On(lists', m)
        PROVE  pc'[u] = "sleep" /\ rz'[u] = m
    <3>1. u \in On(q, m)
      BY <1>4, <2>1
    <3>2. CASE u = t
      <4>1. m = r
        BY <1>0, <1>1, <3>1, <3>2, InListed
      <4> QED BY <1>2, <3>2, <4>1 DEF RTypeOK, TypeOK
    <3>3. CASE u # t
      <4>1. u \in On(lists, m)
        BY <1>1, <3>1, <3>3
      <4> QED BY <1>2, <3>3, <4>1 DEF SleepersExact, RTypeOK, TypeOK
    <3> QED BY <3>2, <3>3
  <2>2. ASSUME NEW u \in Task, pc'[u] = "sleep"
        PROVE  u \in On(lists', rz'[u]) \cup On(lists', RunQ) \cup {taskrunning'}
    <3>1. CASE u = t
      BY <1>1, <1>2, <1>4, <3>1 DEF RTypeOK
    <3>2. CASE u # t
      <4>1. pc[u] = "sleep" /\ rz'[u] = rz[u] /\ rz[u] \in Rendez
        BY <1>2, <2>2, <3>2 DEF RTypeOK, TypeOK, InsideSleep
      <4>2. u \in On(lists, rz[u]) \cup On(lists, RunQ)
        BY <1>0, <3>2, <4>1 DEF SleepersExact
      <4>3. On(lists, rz[u]) \subseteq On(q, rz[u]) /\ On(q, RunQ) = On(lists, RunQ)
        BY <1>0, <1>1, <4>1
      <4> QED BY <1>4, <4>1, <4>2, <4>3
    <3> QED BY <3>1, <3>2
  <2> QED BY <2>1, <2>2 DEF SleepersExact
<1>7. InsideSleep'
  <2>1. pc'[t] = "sleep" /\ rz'[t] = r /\ \A u \in Task \ {t} : pc'[u] = pc[u] /\ rz'[u] = rz[u]
    BY <1>2 DEF RTypeOK, TypeOK
  <2> QED BY <1>2, <1>4, <2>1 DEF InsideSleep
<1> QED BY <1>4, <1>5, <1>6, <1>7

(* taskwakeup and taskwakeupall only move sleepers of one rendezvous to    *)
(* the run queue (rendez.c:27-47).                                         *)
LEMMA WakeupKeeps ==
  ASSUME RInv, NEW t \in Task, NEW r \in Rendez, taskwakeup(t, r) \/ taskwakeupall(t, r)
  PROVE  RInv'
<1> USE TasklistAssumption, RendezLists DEF RInv, IInv
<1>0. /\ lists \in [List -> Seq(Task)] /\ Disjoint(lists) /\ lists[r] # <<>>
      /\ r \in List /\ RunQ \in List \ {r}
  BY DEF taskwakeup, taskwakeupall, TypeOK, SchedTypeOK, OnePlace
<1>1. UNCHANGED <<taskrunning, prog, owner, holds, pc, arg, rz>>
  BY DEF taskwakeup, taskwakeupall, lockvars
<1>2. /\ lists' \in [List -> Seq(Task)] /\ Disjoint(lists') /\ Listed(lists') = Listed(lists)
      /\ \A m \in List \ {r, RunQ} : lists'[m] = lists[m] /\ On(lists', m) = On(lists, m)
      /\ On(lists', r) \subseteq On(lists, r)
      /\ On(lists, r) \cup On(lists, RunQ) \subseteq On(lists', r) \cup On(lists', RunQ)
  <2>1. CASE taskwakeup(t, r)
    <3>1. lists' = addtask(deltask(lists, r), RunQ, Head(lists[r]))
      BY <2>1 DEF taskwakeup, taskready
    <3>2. /\ lists' \in [List -> Seq(Task)] /\ Disjoint(lists')
          /\ On(lists', r) = On(lists, r) \ {Head(lists[r])}
          /\ On(lists', RunQ) = On(lists, RunQ) \cup {Head(lists[r])}
          /\ \A m \in List \ {r, RunQ} : lists'[m] = lists[m] /\ On(lists', m) = On(lists, m)
          /\ Listed(lists') = Listed(lists)
      BY ONLY <1>0, <3>1, MoveHead, SMTT(30)
    <3> QED BY <3>2
  <2>2. CASE taskwakeupall(t, r)
    <3>1. lists' = [lists EXCEPT ![r] = <<>>, ![RunQ] = @ \o lists[r]]
      BY <2>2 DEF taskwakeupall
    <3>2. <<>> \in Seq(Task) /\ lists[RunQ] \o lists[r] \in Seq(Task)
      BY <1>0
    <3>3. /\ lists' \in [List -> Seq(Task)] /\ AllMoved(lists, lists', r, RunQ)
          /\ \A m \in List \ {r, RunQ} : lists'[m] = lists[m]
      BY <1>0, <3>1, <3>2 DEF AllMoved
    <3>4. Disjoint(lists')
      BY ONLY <1>0, <3>3, MoveAll
    <3>5. On(lists', r) = {} /\ Listed(lists') = Listed(lists)
      BY ONLY <1>0, <3>3, MoveAll
    <3>6. \A m \in List \ {r, RunQ} : On(lists', m) = On(lists, m)
      BY <3>3 DEF On
    <3>7. ASSUME NEW u \in On(lists, r) \cup On(lists, RunQ)
          PROVE  u \in On(lists', RunQ)
      <4>1. u \in Listed(lists')
        BY <1>0, <3>5, <3>7, InListed
      <4>2. PICK m \in List : u \in On(lists', m)
        BY <4>1, InListed
      <4>3. m # r
        BY <3>5, <4>2
      <4>4. ASSUME m # RunQ
            PROVE  FALSE
        <5>1. u \in On(lists, m)
          BY <3>6, <4>2, <4>3, <4>4
        <5> QED BY <1>0, <3>7, <4>3, <4>4, <5>1, OnOneList
      <4> QED BY <4>2, <4>4
    <3> QED BY <3>3, <3>4, <3>5, <3>6, <3>7
  <2> QED BY <2>1, <2>2
<1>3. \A k \in Lock : lists'[k] = lists[k] /\ On(lists', k) = On(lists, k)
  BY <1>2
<1>4. TypeOK' /\ OnePlace' /\ NoAbort' /\ RTypeOK'
  BY <1>1, <1>2 DEF TypeOK, SchedTypeOK, OnePlace, NoAbort, RTypeOK
<1>5. WaitersHaveOwner' /\ HoldersOwn' /\ OwnersKnow' /\ WaitersWait' /\ QlockCalls'
  BY <1>1, <1>3 DEF WaitersHaveOwner, HoldersOwn, OwnersKnow, WaitersWait, QlockCalls
<1>6. SleepersExact'
  <2>1. \A m \in Rendez : On(lists', m) \subseteq On(lists, m)
    BY <1>2
  <2>2. ASSUME NEW u \in Task, pc[u] = "sleep"
        PROVE  u \in On(lists', rz[u]) \cup On(lists', RunQ) \cup {taskrunning}
    <3>1. rz[u] \in Rendez /\ u \in On(lists, rz[u]) \cup On(lists, RunQ) \cup {taskrunning}
      BY <2>2 DEF SleepersExact, InsideSleep
    <3>2. On(lists, RunQ) \subseteq On(lists', r) \cup On(lists', RunQ)
      BY <1>2
    <3>3. u \in On(lists', r) => rz[u] = r
      BY <2>1 DEF SleepersExact
    <3>4. CASE rz[u] = r
      BY <1>2, <3>1, <3>4
    <3>5. CASE rz[u] # r
      BY <1>2, <3>1, <3>2, <3>3, <3>5
    <3> QED BY <3>4, <3>5
  <2> QED BY <1>1, <2>1, <2>2 DEF SleepersExact
<1>7. InsideSleep'
  BY <1>1 DEF InsideSleep
<1> QED BY <1>4, <1>5, <1>6, <1>7

(* A step of the running task t, after which t does not sleep, that leaves *)
(* the other tasks inside tasksleep as they are.                           *)
LEMMA SleepersStay ==
  ASSUME RInv, NEW t \in Task, taskrunning = t,
         \A u \in Task \ {t} : /\ pc'[u] = pc[u] /\ arg'[u] = arg[u]
                               /\ holds'[u] = holds[u] /\ rz'[u] = rz[u],
         pc'[t] # "sleep",
         rz'[t] # nil => /\ pc'[t] # "user" /\ lockof[rz'[t]] \notin holds'[t]
                         /\ arg'[t] = lockof[rz'[t]],
         \A r \in Rendez : On(lists', r) = On(lists, r),
         On(lists, RunQ) \subseteq On(lists', RunQ)
  PROVE  SleepersExact' /\ InsideSleep'
<1> USE RendezLists DEF RInv
<1>1. InsideSleep'
  BY DEF InsideSleep
<1>2. ASSUME NEW u \in Task, pc'[u] = "sleep"
      PROVE  u \in On(lists', rz'[u]) \cup On(lists', RunQ) \cup {taskrunning'}
  <2>1. u # t /\ pc[u] = "sleep" /\ rz[u] \in Rendez
    BY <1>2 DEF InsideSleep
  <2>2. u \in On(lists, rz[u]) \cup On(lists, RunQ) \cup {taskrunning}
    BY <2>1 DEF SleepersExact
  <2> QED BY <2>1, <2>2
<1>3. ASSUME NEW u \in Task, NEW r \in Rendez, u \in On(lists', r)
      PROVE  pc'[u] = "sleep" /\ rz'[u] = r
  <2>1. u \in On(lists, r) /\ pc[u] = "sleep" /\ rz[u] = r
    BY <1>3 DEF SleepersExact
  <2>2. u # t
    BY <2>1, InListed DEF IInv, OnePlace
  <2> QED BY <2>1, <2>2
<1> QED BY <1>1, <1>2, <1>3 DEF SleepersExact

(* The operations of QLock, and yielding, by a task that is not inside     *)
(* tasksleep.                                                              *)
LEMMA UserStepKeeps ==
  ASSUME RInv, NEW t \in Task, rz' = rz,
         \/ \E l \in Lock \ holds[t] : qlock(t, l) \/ canqlock(t, l)
         \/ \E l \in holds[t] : qunlock(t, l)
         \/ Yield(t)
  PROVE  RInv'
<1> USE TasklistAssumption, RendezLists DEF RInv, IInv
<1>0. /\ lists \in [List -> Seq(Task)] /\ Disjoint(lists) /\ t \notin Listed(lists)
      /\ taskrunning = t /\ pc[t] = "user" /\ rz[t] = nil
  <2>1. taskrunning = t /\ pc[t] = "user"
    BY DEF qlock, canqlock, qunlock, Yield, taskyield, Running
  <2> QED BY <2>1 DEF TypeOK, SchedTypeOK, OnePlace, InsideSleep
<1>1. ASSUME IInv', \A u \in Task \ {t} : pc'[u] = pc[u] /\ arg'[u] = arg[u] /\ holds'[u] = holds[u],
             pc'[t] # "sleep", \A r \in Rendez : On(lists', r) = On(lists, r),
             On(lists, RunQ) \subseteq On(lists', RunQ)
      PROVE  RInv'
  <2>1. SleepersExact' /\ InsideSleep'
    BY <1>0, <1>1, SleepersStay
  <2> QED BY <1>1, <2>1 DEF RTypeOK
<1>2. ASSUME NEW l \in Lock \ holds[t], Running(t), acquire(t, l)
      PROVE  RInv'
  <2>1. IInv'
    BY <1>0, <1>2, AcquireKeeps
  <2>2. /\ \A u \in Task \ {t} : pc'[u] = pc[u] /\ arg'[u] = arg[u] /\ holds'[u] = holds[u]
        /\ pc'[t] # "sleep" /\ lists' = lists
    BY <1>2 DEF acquire, schedvars, TypeOK
  <2> QED BY <1>1, <2>1, <2>2
<1>3. ASSUME NEW l \in Lock \ holds[t], Running(t), enqueue(t, l)
      PROVE  RInv'
  <2>1. IInv'
    BY <1>0, <1>3, EnqueueKeeps
  <2>2. /\ \A u \in Task \ {t} : pc'[u] = pc[u] /\ arg'[u] = arg[u] /\ holds'[u] = holds[u]
        /\ pc'[t] # "sleep" /\ lists' = addtask(lists, l, t)
    BY <1>3 DEF enqueue, TypeOK
  <2>3. l \in List /\ \A m \in List \ {l} : On(lists', m) = On(lists, m)
    BY <1>0, <2>2, AddTask
  <2> QED BY <1>1, <2>1, <2>2, <2>3
<1>4. ASSUME NEW l \in holds[t], qunlock(t, l)
      PROVE  RInv'
  <2>1. /\ IInv' /\ On(lists, RunQ) \subseteq On(lists', RunQ)
        /\ \A m \in List \ (Lock \cup {RunQ}) : On(lists', m) = On(lists, m)
    BY <1>4, UnlockKeeps
  <2>2. /\ \A u \in Task \ {t} : pc'[u] = pc[u] /\ arg'[u] = arg[u] /\ holds'[u] = holds[u]
        /\ pc'[t] # "sleep"
    BY <1>0, <1>4 DEF qunlock, lockvars, TypeOK
  <2> QED BY <1>1, <2>1, <2>2
<1>5. CASE Yield(t)
  <2>1. IInv'
    BY <1>5, YieldKeeps
  <2>2. UNCHANGED <<holds, pc, arg>> /\ lists' = addtask(lists, RunQ, t)
    BY <1>5 DEF Yield, taskyield, taskready, lockvars
  <2>3. /\ \A m \in List \ {RunQ} : On(lists', m) = On(lists, m)
        /\ On(lists', RunQ) = On(lists, RunQ) \cup {t}
    BY <1>0, <2>2, AddTask
  <2> QED BY <1>0, <1>1, <2>1, <2>2, <2>3
<1> QED BY <1>2, <1>3, <1>4, <1>5 DEF qlock, canqlock

(* tasksleep goes on after its taskswitch: it returns, takes r->l, or      *)
(* queues for it (rendez.c:20-22).                                         *)
LEMMA SleepResumeKeeps ==
  ASSUME RInv, NEW t \in Task, tasksleep_resume(t)
  PROVE  RInv' /\ (rz'[t] = nil => lockof[rz[t]] \in holds'[t] \cup {nil})
               /\ \A u \in Task \ {t} : rz'[u] = rz[u]
<1> USE TasklistAssumption, RendezLists DEF RInv
<1> DEFINE r == rz[t]
<1>0. /\ Running(t) /\ taskrunning = t /\ pc[t] = "sleep" /\ r \in Rendez
      /\ lockof[r] \notin holds[t] /\ RTypeOK /\ TypeOK
      /\ lists \in [List -> Seq(Task)] /\ Disjoint(lists) /\ t \notin Listed(lists)
  BY DEF tasksleep_resume, Running, InsideSleep, IInv, OnePlace, TypeOK, SchedTypeOK
<1>1. CASE lockof[r] = nil
  <2>1. /\ pc' = [pc EXCEPT ![t] = "user"] /\ rz' = [rz EXCEPT ![t] = nil]
        /\ UNCHANGED <<lists, taskrunning, prog, owner, holds, arg>>
    BY <1>0, <1>1 DEF tasksleep_resume, schedvars, acquire, enqueue
  <2>2. TypeOK' /\ OnePlace' /\ NoAbort' /\ RTypeOK'
    BY <1>0, <2>1 DEF IInv, TypeOK, SchedTypeOK, OnePlace, NoAbort, RTypeOK
  <2>3. WaitersHaveOwner' /\ HoldersOwn' /\ OwnersKnow'
    BY <1>0, <2>1 DEF IInv, WaitersHaveOwner, HoldersOwn, OwnersKnow, TypeOK, On
  <2>4. WaitersWait' /\ QlockCalls'
    BY <1>0, <2>1 DEF IInv, WaitersWait, QlockCalls, TypeOK, On
  <2>5. /\ \A u \in Task \ {t} : pc'[u] = pc[u] /\ rz'[u] = rz[u]
        /\ pc'[t] = "user" /\ rz'[t] = nil
    BY <1>0, <2>1 DEF RTypeOK, TypeOK
  <2>6. SleepersExact' /\ InsideSleep'
    <3>1. \A m \in Rendez : On(lists', m) = On(lists, m)
      BY <2>1
    <3>2. On(lists', RunQ) = On(lists, RunQ)
      BY <2>1
    <3> QED BY <1>0, <2>1, <2>5, <3>1, <3>2, SleepersStay
  <2> QED BY <1>1, <2>2, <2>3, <2>4, <2>5, <2>6 DEF IInv
<1>2. CASE lockof[r] # nil /\ acquire(t, lockof[r]) /\ rz' = [rz EXCEPT ![t] = nil]
  <2>1. lockof[r] \in Lock
    BY <1>0, <1>2
  <2>2. IInv'
    BY <1>0, <1>2, <2>1, AcquireKeeps
  <2>3. /\ \A u \in Task \ {t} : /\ pc'[u] = pc[u] /\ arg'[u] = arg[u]
                                /\ holds'[u] = holds[u] /\ rz'[u] = rz[u]
        /\ pc'[t] = "user" /\ rz'[t] = nil /\ lockof[r] \in holds'[t] /\ lists' = lists
    BY <1>0, <1>2, <2>1 DEF acquire, schedvars, RTypeOK, TypeOK
  <2>4. SleepersExact' /\ InsideSleep'
    BY <1>0, <2>3, SleepersStay
  <2>5. RTypeOK'
    BY <1>0, <1>2, <2>2 DEF RTypeOK, IInv
  <2> QED BY <2>2, <2>3, <2>4, <2>5
<1>3. CASE lockof[r] # nil /\ enqueue(t, lockof[r]) /\ rz' = rz
  <2>1. lockof[r] \in Lock \ holds[t] /\ lockof[r] \in List
    BY <1>0, <1>3
  <2>2. IInv'
    BY <1>0, <1>3, <2>1, EnqueueKeeps
  <2>3. /\ \A u \in Task \ {t} : /\ pc'[u] = pc[u] /\ arg'[u] = arg[u]
                                /\ holds'[u] = holds[u] /\ rz'[u] = rz[u]
        /\ pc'[t] = "qlock" /\ rz'[t] = r /\ arg'[t] = lockof[r] /\ holds'[t] = holds[t]
        /\ lists' = addtask(lists, lockof[r], t)
    BY <1>0, <1>3, <2>1 DEF enqueue, TypeOK
  <2>4. \A m \in List \ {lockof[r]} : On(lists', m) = On(lists, m)
    <3>1. \A m \in List \ {lockof[r]} : lists'[m] = lists[m]
      BY <1>0, <2>3 DEF addtask
    <3> QED BY <3>1 DEF On
  <2>5. SleepersExact' /\ InsideSleep'
    <3>1. /\ \A m \in Rendez : On(lists', m) = On(lists, m)
          /\ On(lists', RunQ) = On(lists, RunQ)
      BY <2>1, <2>4
    <3>2. rz'[t] # nil => /\ pc'[t] # "user" /\ lockof[rz'[t]] \notin holds'[t]
                          /\ arg'[t] = lockof[rz'[t]]
      BY <1>0, <2>3
    <3> QED BY <1>0, <2>3, <3>1, <3>2, SleepersStay
  <2>6. RTypeOK' /\ rz'[t] # nil
    BY <1>0, <1>3, <2>2 DEF RTypeOK, IInv
  <2> QED BY <2>2, <2>3, <2>5, <2>6
<1> QED BY <1>1, <1>2, <1>3 DEF tasksleep_resume

(* The qlock inside tasksleep, or one of the task's own, ends. *)
LEMMA RQlockResumeKeeps ==
  ASSUME RInv, NEW t \in Task, rqlock_resume(t)
  PROVE  RInv' /\ (rz[t] # nil => lockof[rz[t]] \in holds'[t])
               /\ \A u \in Task \ {t} : rz'[u] = rz[u]
<1> USE TasklistAssumption, RendezLists DEF RInv
<1>1. qlock_resume(t) /\ taskrunning = t /\ pc[t] = "qlock" /\ IInv'
      /\ rz' = [rz EXCEPT ![t] = nil]
  BY ResumeKeeps DEF rqlock_resume, qlock_resume, Running
<1>2. owner[arg[t]] = t
  BY <1>1, InListed DEF IInv, QlockCalls, OnePlace
<1>3. /\ \A u \in Task \ {t} : /\ pc'[u] = pc[u] /\ arg'[u] = arg[u]
                              /\ holds'[u] = holds[u] /\ rz'[u] = rz[u]
      /\ pc'[t] = "user" /\ rz'[t] = nil /\ arg[t] \in holds'[t] /\ lists' = lists
  BY <1>1, <1>2 DEF qlock_resume, schedvars, RTypeOK, IInv, TypeOK
<1>4. SleepersExact' /\ InsideSleep'
  BY <1>1, <1>3, SleepersStay
<1>5. RTypeOK'
  BY <1>1 DEF RTypeOK, IInv
<1> QED BY <1>1, <1>3, <1>4, <1>5 DEF InsideSleep

(* The scheduler takes a task off the run queue; nobody goes to sleep or   *)
(* leaves a tasksleep.                                                     *)
LEMMA RScheduleKeeps ==
  ASSUME RInv, Schedule, rz' = rz
  PROVE  RInv'
<1> USE TasklistAssumption, RendezLists DEF RInv
<1>1. IInv' /\ UNCHANGED <<owner, holds, pc, arg, rz>>
  BY ScheduleKeeps DEF Schedule, lockvars
<1>2. RTypeOK' /\ InsideSleep'
  BY <1>1 DEF RTypeOK, IInv, InsideSleep
<1>3. CASE Stall
  <2>1. lists' = lists /\ taskrunning' = taskrunning
    BY <1>3 DEF Stall
  <2> QED BY <1>1, <1>2, <2>1 DEF SleepersExact, On
<1>4. CASE Dispatch
  <2>1. /\ lists[RunQ] # <<>> /\ lists' = deltask(lists, RunQ) /\ taskrunning = nil
        /\ taskrunning' = Head(lists[RunQ])
    BY <1>4 DEF Dispatch, Running
  <2>2. lists \in [List -> Seq(Task)] /\ Disjoint(lists)
    BY DEF IInv, TypeOK, SchedTypeOK, OnePlace
  <2>3. /\ On(lists', RunQ) = On(lists, RunQ) \ {taskrunning'}
        /\ \A m \in List \ {RunQ} : On(lists', m) = On(lists, m)
    <3>1. /\ On(deltask(lists, RunQ), RunQ) = On(lists, RunQ) \ {Head(lists[RunQ])}
          /\ \A m \in List \ {RunQ} : On(deltask(lists, RunQ), m) = On(lists, m)
      BY <2>1, <2>2, DelTask
    <3> QED BY <2>1, <3>1
  <2>4. \A m \in Rendez : On(lists', m) = On(lists, m)
    BY <2>3
  <2>5. SleepersExact'
    <3>1. ASSUME NEW u \in Task, pc[u] = "sleep"
          PROVE  u \in On(lists', rz[u]) \cup On(lists', RunQ) \cup {taskrunning'}
      BY <2>1, <2>3, <2>4, <3>1 DEF SleepersExact, InsideSleep
    <3> QED BY <1>1, <2>4, <3>1 DEF SleepersExact
  <2> QED BY <1>1, <1>2, <2>5
<1> QED BY <1>3, <1>4 DEF Schedule

(* The invariant of the locks and the rendezvous points together. *)
THEOREM RendezInvariant == RSpec => []RInv
<1>1. RInit => RInv
  <2> SUFFICES ASSUME RInit
               PROVE  RInv
    OBVIOUS
  <2>1. IInv
    BY InitInv DEF RInit
  <2>2. /\ \A r \in Rendez : On(lists, r) = {}
        /\ RTypeOK /\ \A t \in Task : pc[t] = "user" /\ rz[t] = nil
    <3>1. \A r \in Rendez : r \in List \ {RunQ}
      BY RendezLists
    <3>2. \A r \in Rendez : lists[r] = <<>>
      BY <3>1 DEF RInit, Init, SchedInit
    <3>3. \A r \in Rendez : On(lists, r) = {}
      BY <2>1, <3>1, <3>2, EmptyList DEF IInv, TypeOK, SchedTypeOK
    <3> QED BY <2>1, <3>3 DEF RTypeOK, IInv, RInit, Init
  <2> QED BY <2>1, <2>2 DEF RInv, SleepersExact, InsideSleep
<1>2. RInv /\ [RNext]_rvars => RInv'
  <2> SUFFICES ASSUME RInv, [RNext]_rvars
               PROVE  RInv'
    OBVIOUS
  <2>1. CASE UNCHANGED rvars
    BY <2>1 DEF rvars, vars, schedvars, lockvars, RInv, RTypeOK, SleepersExact, InsideSleep,
                IInv, TypeOK, SchedTypeOK, OnePlace, NoAbort, WaitersHaveOwner, HoldersOwn,
                OwnersKnow, WaitersWait, QlockCalls, On, Listed
  <2>2. CASE Schedule /\ UNCHANGED rz
    BY <2>2, RScheduleKeeps
  <2>3. ASSUME NEW t \in Task, RTaskStep(t)
        PROVE  RInv'
    BY <2>3, UserStepKeeps, SleepKeeps, WakeupKeeps, SleepResumeKeeps, RQlockResumeKeeps
       DEF RTaskStep
  <2> QED BY <2>1, <2>2, <2>3 DEF RNext
<1> QED BY <1>1, <1>2, PTL DEF RSpec

(* Mutual exclusion survives the rendezvous points: the lock tasksleep     *)
(* releases and takes again is never held twice.                           *)
THEOREM RendezMutualExclusion == RSpec => []MutualExclusion
<1>1. RInv => MutualExclusion
  <2> SUFFICES ASSUME RInv, NEW t \in Task, NEW u \in Task, t # u
               PROVE  holds[t] \cap holds[u] = {}
    BY DEF MutualExclusion
  <2> QED BY DEF RInv, IInv, HoldersOwn
<1> QED BY <1>1, RendezInvariant, PTL

(* A sleeper that has not been made ready is on the list of its rendezvous *)
(* and a wakeup finds only such sleepers: none is missed or woken wrongly. *)
THEOREM RendezSleepersExact == RSpec => []SleepersExact
BY RendezInvariant, PTL DEF RInv

(* tasksleep runs without r->l and ends with it held again, whatever the   *)
(* other tasks do in between.                                              *)
THEOREM RendezSleepReleasesAndRetakes == RSpec => SleepReleasesAndRetakes
<1> DEFINE Goal == \A t \in Task : rz[t] # nil =>
                     /\ lockof[rz[t]] \notin holds[t]
                     /\ rz'[t] = nil => lockof[rz[t]] \in holds'[t] \cup {nil}
<1>1. RInv /\ [RNext]_rvars => [Goal]_rvars
  <2> SUFFICES ASSUME RInv, RNext, NEW t \in Task, rz[t] # nil
               PROVE  /\ lockof[rz[t]] \notin holds[t]
                      /\ rz'[t] = nil => lockof[rz[t]] \in holds'[t] \cup {nil}
    OBVIOUS
  <2>1. lockof[rz[t]] \notin holds[t] /\ pc[t] # "user"
    BY DEF RInv, InsideSleep
  <2>2. CASE rz' = rz
    BY <2>1, <2>2
  <2>3. ASSUME NEW u \in Task, NEW r \in Rendez, tasksleep(u, r)
        PROVE  rz'[t] = rz[t]
    BY <2>1, <2>3 DEF tasksleep, RInv, RTypeOK
  <2>4. ASSUME NEW u \in Task, tasksleep_resume(u) \/ rqlock_resume(u), rz'[t] = nil
        PROVE  lockof[rz[t]] \in holds'[t] \cup {nil}
    BY <2>4, SleepResumeKeeps, RQlockResumeKeeps
  <2> QED BY <2>1, <2>2, <2>3, <2>4 DEF RNext, RTaskStep, taskwakeup, taskwakeupall
<1> QED BY <1>1, RendezInvariant, PTL DEF RSpec, SleepReleasesAndRetakes
=============================================================================
