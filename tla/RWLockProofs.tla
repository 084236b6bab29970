---------------------------- MODULE RWLockProofs ----------------------------
(***************************************************************************)
(* Proofs about RWLock, for any number of tasks: the invariant IInv is     *)
(* inductive.  Exclusion, the absence of the aborts of wunlock and of lost *)
(* wakeups follow.                                                         *)
(***************************************************************************)
EXTENDS RWLock, TasklistLemmas

(* The lists of the lock are not the run queue. *)
LEMMA ThreeLists ==
  /\ RunQ \in List /\ rwaiting \in List /\ wwaiting \in List
  /\ rwaiting # RunQ /\ wwaiting # RunQ /\ rwaiting # wwaiting
BY SchedAssumption, RWLockAssumption

(* What the invariant says about the count and the writer: the count is a  *)
(* number, zero exactly if no reader is let in, and at most one writer is. *)
LEMMA Counting ==
  ASSUME IInv
  PROVE  /\ Readers \subseteq Task /\ IsFiniteSet(Readers)
         /\ readers \in Nat
         /\ readers = 0 <=> Readers = {}
         /\ \A t \in Writers : t = writer
<1> USE SchedAssumption DEF IInv
<1>1. Readers \subseteq Task
  BY DEF Readers, TypeOK
<1>2. IsFiniteSet(Readers)
  BY <1>1, FS_Subset
<1>3. readers \in Nat /\ (readers = 0 <=> Readers = {})
  BY <1>2, FS_CardinalityType, FS_EmptySet DEF CountsExact
<1>4. \A t \in Writers : t = writer
  BY DEF CountsExact
<1> QED BY <1>1, <1>2, <1>3, <1>4

(* In the initial state all tasks are ready and the lock is free. *)
LEMMA InitInv == Init => IInv
<1> SUFFICES ASSUME Init
             PROVE  IInv
  OBVIOUS
<1> USE TasklistAssumption, SchedAssumption, ThreeLists
<1>1. PICK order \in Bijection(1..Cardinality(Task), Task) :
        lists = [[l \in List |-> <<>>] EXCEPT ![RunQ] = order]
  BY DEF Init, SchedInit
<1>2. /\ lists \in [List -> Seq(Task)] /\ Disjoint(lists) /\ Listed(lists) = Task
      /\ \A l \in List \ {RunQ} : lists[l] = <<>> /\ On(lists, l) = {}
  <2>1. /\ lists = [l \in List |-> lists[l]] /\ lists[RunQ] = order
        /\ \A l \in List \ {RunQ} : lists[l] = <<>>
    BY <1>1
  <2> QED BY <2>1, InitialLists
<1>3. TypeOK /\ OnePlace /\ NoAbort
  BY <1>2 DEF Init, SchedInit, TypeOK, SchedTypeOK, OnePlace, NoAbort
<1>4. Readers = {} /\ Writers = {}
  BY DEF Init, Readers, Writers
<1>5. CountsExact
  BY <1>4, FS_EmptySet DEF Init, CountsExact
<1> QED BY <1>2, <1>3, <1>5 DEF Init, IInv, WaitersHaveReason, WaitersWait, HoldersRun

-----------------------------------------------------------------------------
(* A reader is let in and counted (qlock.c:76-79). *)
LEMMA CanrlockKeeps ==
  ASSUME IInv, NEW t \in Task, t \notin reading \cup writing, canrlock(t)
  PROVE  IInv'
<1> USE TasklistAssumption, SchedAssumption, ThreeLists DEF IInv
<1>0. /\ pc[t] = "user" /\ writer = nil /\ lists[wwaiting] = <<>>
      /\ readers' = readers + 1 /\ reading' = reading \cup {t}
      /\ UNCHANGED <<lists, taskrunning, prog, writer, writing, pc>>
  BY DEF canrlock, Call, schedvars
<1>1. TypeOK' /\ OnePlace' /\ NoAbort' /\ WaitersWait' /\ HoldersRun'
  BY <1>0 DEF TypeOK, SchedTypeOK, OnePlace, NoAbort, WaitersWait, HoldersRun, On
<1>2. Readers' = Readers \cup {t} /\ t \notin Readers
  BY <1>0 DEF Readers, On
<1>3. Writers' = Writers
  BY <1>0 DEF Writers, On
<1>4. CountsExact'
  BY <1>0, <1>2, <1>3, Counting, FS_AddElement DEF CountsExact
<1>5. WaitersHaveReason'
  BY <1>0, Counting DEF WaitersHaveReason
<1> QED BY <1>0, <1>1, <1>4, <1>5

(* A reader that finds a writer holding or awaiting the lock queues        *)
(* (qlock.c:82-90).                                                        *)
LEMMA RlockWaitKeeps ==
  ASSUME IInv, NEW t \in Task, t \notin reading \cup writing, rlock_wait(t)
  PROVE  IInv'
<1> USE TasklistAssumption, SchedAssumption, ThreeLists DEF IInv
<1>0. /\ taskrunning = t /\ pc[t] = "user" /\ ~(writer = nil /\ lists[wwaiting] = <<>>)
      /\ lists' = addtask(lists, rwaiting, t) /\ taskrunning' = nil
      /\ pc' = [pc EXCEPT ![t] = "rlock"]
      /\ UNCHANGED <<prog, readers, writer, reading, writing>>
  BY DEF rlock_wait, Call, Running, taskswitch
<1>1. lists \in [List -> Seq(Task)] /\ Disjoint(lists) /\ t \notin Listed(lists)
  BY <1>0 DEF TypeOK, SchedTypeOK, OnePlace
<1>2. /\ lists' \in [List -> Seq(Task)] /\ Disjoint(lists')
      /\ On(lists', rwaiting) = On(lists, rwaiting) \cup {t}
      /\ lists'[wwaiting] = lists[wwaiting] /\ On(lists', wwaiting) = On(lists, wwaiting)
      /\ Listed(lists') = Listed(lists) \cup {t}
  BY <1>0, <1>1, AddTask, SMTT(30)
<1>3. TypeOK' /\ OnePlace' /\ NoAbort'
  BY <1>0, <1>1, <1>2 DEF TypeOK, SchedTypeOK, OnePlace, NoAbort
<1>4. t \notin On(lists, rwaiting) /\ t \notin On(lists, wwaiting)
  BY <1>1, InListed
<1>5. WaitersWait' /\ HoldersRun'
  BY <1>0, <1>2, <1>4, ListedAreTasks DEF WaitersWait, HoldersRun, TypeOK
<1>6. Readers' = Readers
  BY <1>0, <1>2 DEF Readers, TypeOK
<1>7. Writers' = Writers
  BY <1>0, <1>2 DEF Writers, TypeOK
<1>8. CountsExact' /\ WaitersHaveReason'
  BY <1>0, <1>2, <1>6, <1>7 DEF CountsExact, WaitersHaveReason
<1> QED BY <1>0, <1>3, <1>5, <1>8

(* A writer takes a free lock (qlock.c:112-115). *)
LEMMA CanwlockKeeps ==
  ASSUME IInv, NEW t \in Task, t \notin reading \cup writing, canwlock(t)
  PROVE  IInv'
<1> USE TasklistAssumption, SchedAssumption, ThreeLists DEF IInv
<1>0. /\ pc[t] = "user" /\ writer = nil /\ readers = 0 /\ writer' = t
      /\ writing' = writing \cup {t}
      /\ UNCHANGED <<lists, taskrunning, prog, readers, reading, pc>>
  BY DEF canwlock, Call, schedvars
<1>1. TypeOK' /\ OnePlace' /\ NoAbort' /\ WaitersWait' /\ HoldersRun'
  BY <1>0 DEF TypeOK, SchedTypeOK, OnePlace, NoAbort, WaitersWait, HoldersRun, On
<1>2. Readers' = Readers
  BY <1>0 DEF Readers, On
<1>3. Writers' = Writers \cup {t}
  BY <1>0 DEF Writers, On
<1>4. CountsExact'
  BY <1>0, <1>2, <1>3 DEF CountsExact
<1>5. WaitersHaveReason'
  BY <1>0 DEF WaitersHaveReason
<1> QED BY <1>0, <1>1, <1>4, <1>5

(* A writer that finds a holder queues (qlock.c:117-125). *)
LEMMA WlockWaitKeeps ==
  ASSUME IInv, NEW t \in Task, t \notin reading \cup writing, wlock_wait(t)
  PROVE  IInv'
<1> USE TasklistAssumption, SchedAssumption, ThreeLists DEF IInv
<1>0. /\ taskrunning = t /\ pc[t] = "user" /\ ~(writer = nil /\ readers = 0)
      /\ lists' = addtask(lists, wwaiting, t) /\ taskrunning' = nil
      /\ pc' = [pc EXCEPT ![t] = "wlock"]
      /\ UNCHANGED <<prog, readers, writer, reading, writing>>
  BY DEF wlock_wait, Call, Running, taskswitch
<1>1. lists \in [List -> Seq(Task)] /\ Disjoint(lists) /\ t \notin Listed(lists)
  BY <1>0 DEF TypeOK, SchedTypeOK, OnePlace
<1>2. /\ lists' \in [List -> Seq(Task)] /\ Disjoint(lists')
      /\ lists'[wwaiting] # <<>>
      /\ On(lists', wwaiting) = On(lists, wwaiting) \cup {t}
      /\ lists'[rwaiting] = lists[rwaiting] /\ On(lists', rwaiting) = On(lists, rwaiting)
      /\ Listed(lists') = Listed(lists) \cup {t}
  BY <1>0, <1>1, AddTask, SMTT(30)
<1>3. TypeOK' /\ OnePlace' /\ NoAbort'
  BY <1>0, <1>1, <1>2 DEF TypeOK, SchedTypeOK, OnePlace, NoAbort
<1>4. t \notin On(lists, rwaiting) /\ t \notin On(lists, wwaiting)
  BY <1>1, InListed
<1>5. WaitersWait' /\ HoldersRun'
  BY <1>0, <1>2, <1>4, ListedAreTasks DEF WaitersWait, HoldersRun, TypeOK
<1>6. Readers' = Readers
  BY <1>0, <1>2 DEF Readers, TypeOK
<1>7. Writers' = Writers
  BY <1>0, <1>2 DEF Writers, TypeOK
<1>8. CountsExact' /\ WaitersHaveReason'
  BY <1>0, <1>2, <1>6, <1>7, Counting DEF CountsExact, WaitersHaveReason
<1> QED BY <1>0, <1>3, <1>5, <1>8

(* A task that runs again inside rlock or wlock was let in by the unlock   *)
(* that made it ready, and only learns of it (qlock.c:89-90, 124-125).     *)
LEMMA ResumeKeeps ==
  ASSUME IInv, NEW t \in Task, rlock_resume(t) \/ wlock_resume(t)
  PROVE  IInv'
<1> USE TasklistAssumption, SchedAssumption, ThreeLists DEF IInv
<1>0. /\ taskrunning = t /\ pc[t] \in {"rlock", "wlock"}
      /\ pc' = [pc EXCEPT ![t] = "user"]
      /\ reading' = IF pc[t] = "rlock" THEN reading \cup {t} ELSE reading
      /\ writing' = IF pc[t] = "wlock" THEN writing \cup {t} ELSE writing
      /\ UNCHANGED <<lists, prog, taskrunning, readers, writer>>
  BY DEF rlock_resume, wlock_resume, Running, schedvars
<1>1. t \notin On(lists, rwaiting) /\ t \notin On(lists, wwaiting)
  BY <1>0, InListed DEF OnePlace
<1>2. TypeOK' /\ OnePlace' /\ NoAbort'
  BY <1>0 DEF TypeOK, SchedTypeOK, OnePlace, NoAbort
<1>3. WaitersWait' /\ HoldersRun'
  BY <1>0, <1>1 DEF WaitersWait, HoldersRun, TypeOK, On
<1>4. Readers' = Readers
  BY <1>0, <1>1 DEF Readers, TypeOK, On
<1>5. Writers' = Writers
  BY <1>0, <1>1 DEF Writers, TypeOK, On
<1>6. CountsExact' /\ WaitersHaveReason'
  BY <1>0, <1>4, <1>5 DEF CountsExact, WaitersHaveReason
<1> QED BY <1>0, <1>2, <1>3, <1>6

-----------------------------------------------------------------------------
(* The lists when the first waiting writer gets the lock. *)
LEMMA PassToWriter ==
  ASSUME IInv, lists[wwaiting] # <<>>, pass_to_writer(lists)
  PROVE  /\ writer' \in Task /\ writer' \in On(lists, wwaiting) /\ pc[writer'] = "wlock"
         /\ lists' \in [List -> Seq(Task)] /\ Disjoint(lists')
         /\ On(lists', wwaiting) = On(lists, wwaiting) \ {writer'}
         /\ lists'[rwaiting] = lists[rwaiting] /\ On(lists', rwaiting) = On(lists, rwaiting)
         /\ Listed(lists') = Listed(lists)
<1> USE TasklistAssumption, SchedAssumption, ThreeLists DEF IInv
<1>1. lists \in [List -> Seq(Task)] /\ Disjoint(lists)
  BY DEF TypeOK, SchedTypeOK, OnePlace
<1>2. /\ writer' = Head(lists[wwaiting])
      /\ lists' = addtask(deltask(lists, wwaiting), RunQ, Head(lists[wwaiting]))
  BY DEF pass_to_writer, taskready
<1>3. /\ writer' \in Task /\ writer' \in On(lists, wwaiting)
      /\ lists' \in [List -> Seq(Task)] /\ Disjoint(lists')
      /\ On(lists', wwaiting) = On(lists, wwaiting) \ {writer'}
      /\ \A m \in List \ {wwaiting, RunQ} : lists'[m] = lists[m] /\ On(lists', m) = On(lists, m)
      /\ Listed(lists') = Listed(lists)
  BY <1>1, <1>2, MoveHead, SMTT(30)
<1> QED BY <1>3 DEF WaitersWait

(* A reader leaves; the last one passes the lock to a waiting writer       *)
(* (qlock.c:144-155).                                                      *)
LEMMA RunlockKeeps ==
  ASSUME IInv, NEW t \in reading, runlock(t)
  PROVE  IInv'
<1> USE TasklistAssumption, SchedAssumption, ThreeLists DEF IInv
<1>0. /\ t \in Task /\ pc[t] = "user" /\ readers' = readers - 1 /\ reading' = reading \ {t}
      /\ UNCHANGED <<taskrunning, prog, writing, pc>>
  BY DEF runlock, Call, TypeOK
<1>1. t \in Readers /\ readers > 0 /\ writer = nil /\ Writers = {}
  <2>1. t \in Readers
    BY DEF Readers
  <2> QED BY <2>1, Counting DEF CountsExact
<1>2. Readers' = Readers \ {t} => readers' = Cardinality(Readers')
  BY <1>0, <1>1, Counting, FS_RemoveElement DEF CountsExact
<1>3. CASE readers' = 0 /\ lists[wwaiting] # <<>>
  <2>1. pass_to_writer(lists)
    BY <1>3 DEF runlock
  <2>2. /\ writer' \in Task /\ writer' \in On(lists, wwaiting) /\ pc[writer'] = "wlock"
        /\ lists' \in [List -> Seq(Task)] /\ Disjoint(lists')
        /\ On(lists', wwaiting) = On(lists, wwaiting) \ {writer'}
        /\ lists'[rwaiting] = lists[rwaiting] /\ On(lists', rwaiting) = On(lists, rwaiting)
        /\ Listed(lists') = Listed(lists)
    BY <1>3, <2>1, PassToWriter
  <2>3. TypeOK' /\ OnePlace' /\ NoAbort'
    BY <1>0, <2>2 DEF TypeOK, SchedTypeOK, OnePlace, NoAbort
  <2>4. WaitersWait' /\ HoldersRun'
    BY <1>0, <2>2 DEF WaitersWait, HoldersRun
  <2>5. Readers' = Readers \ {t}
    BY <1>0, <2>2 DEF Readers
  <2>6. Writers' = Writers \cup {writer'}
    BY <1>0, <2>2 DEF Writers
  <2>7. CountsExact'
    BY <1>1, <1>2, <2>2, <2>5, <2>6 DEF CountsExact
  <2>8. WaitersHaveReason'
    BY <2>2 DEF WaitersHaveReason
  <2> QED BY <1>3, <2>3, <2>4, <2>7, <2>8
<1>4. CASE ~(readers' = 0 /\ lists[wwaiting] # <<>>)
  <2>1. UNCHANGED <<lists, writer>>
    BY <1>4 DEF runlock
  <2>2. TypeOK' /\ OnePlace' /\ NoAbort' /\ WaitersWait' /\ HoldersRun'
    BY <1>0, <2>1 DEF TypeOK, SchedTypeOK, OnePlace, NoAbort, WaitersWait, HoldersRun, On
  <2>3. Readers' = Readers \ {t}
    BY <1>0, <2>1 DEF Readers, On
  <2>4. Writers' = Writers
    BY <1>0, <2>1 DEF Writers, On
  <2>5. CountsExact'
    BY <1>2, <2>1, <2>3, <2>4 DEF CountsExact
  <2>6. WaitersHaveReason'
    BY <1>0, <1>1, <1>4, <2>1, Counting DEF WaitersHaveReason
  <2> QED BY <1>1, <2>1, <2>2, <2>5, <2>6
<1> QED BY <1>3, <1>4

(* A writer leaves: it lets all waiting readers in, counted before any of  *)
(* them runs, or else passes the lock to the next writer                   *)
(* (qlock.c:159-188).                                                      *)
LEMMA WunlockKeeps ==
  ASSUME IInv, NEW t \in writing, wunlock(t)
  PROVE  IInv'
<1> USE TasklistAssumption, SchedAssumption, ThreeLists DEF IInv
<1>0. t \in Task /\ t \in Writers /\ writer = t /\ writer # nil /\ Writers = {t} /\ pc[t] = "user"
  BY DEF TypeOK, CountsExact, Writers, HoldersRun
<1>1. readers = 0 /\ Readers = {}
  BY <1>0, Counting
<1>2. /\ readers' = Len(lists[rwaiting]) /\ writing' = writing \ {t}
      /\ UNCHANGED <<taskrunning, prog, reading, pc>>
  BY <1>0, <1>1 DEF wunlock
<1>3. lists \in [List -> Seq(Task)] /\ Disjoint(lists)
  BY DEF TypeOK, SchedTypeOK, OnePlace
<1>4. readers' \in Nat /\ (readers' = 0 <=> lists[rwaiting] = <<>>)
      /\ readers' = Cardinality(On(lists, rwaiting))
  <2>1. lists[rwaiting] \in Seq(Task)
    BY <1>3
  <2> QED BY <1>2, <1>3, <2>1, ListLength
<1>5. CASE readers' = 0 /\ lists[wwaiting] # <<>>
  <2>1. pass_to_writer(lists)
    BY <1>0, <1>1, <1>5 DEF wunlock
  <2>2. /\ writer' \in Task /\ writer' \in On(lists, wwaiting) /\ pc[writer'] = "wlock"
        /\ lists' \in [List -> Seq(Task)] /\ Disjoint(lists')
        /\ On(lists', wwaiting) = On(lists, wwaiting) \ {writer'}
        /\ lists'[rwaiting] = lists[rwaiting] /\ On(lists', rwaiting) = On(lists, rwaiting)
        /\ Listed(lists') = Listed(lists)
    BY <1>5, <2>1, PassToWriter
  <2>3. TypeOK' /\ OnePlace' /\ NoAbort'
    BY <1>2, <1>5, <2>2 DEF TypeOK, SchedTypeOK, OnePlace, NoAbort
  <2>4. WaitersWait' /\ HoldersRun'
    BY <1>2, <2>2 DEF WaitersWait, HoldersRun
  <2>5. Readers' = Readers
    BY <1>2, <2>2 DEF Readers
  <2>6. Writers' = (Writers \ {t}) \cup {writer'}
    BY <1>0, <1>2, <2>2 DEF Writers
  <2>7. CountsExact'
    BY <1>0, <1>1, <1>5, <2>2, <2>5, <2>6, FS_EmptySet DEF CountsExact
  <2>8. WaitersHaveReason'
    BY <2>2 DEF WaitersHaveReason
  <2> QED BY <1>5, <2>3, <2>4, <2>7, <2>8
<1>6. CASE ~(readers' = 0 /\ lists[wwaiting] # <<>>)
  <2>1. writer' = nil /\ lists' = [lists EXCEPT ![rwaiting] = <<>>, ![RunQ] = @ \o lists[rwaiting]]
    BY <1>0, <1>1, <1>6 DEF wunlock, admit_readers
  <2>2. /\ lists' \in [List -> Seq(Task)] /\ Disjoint(lists')
        /\ lists'[rwaiting] = <<>> /\ On(lists', rwaiting) = {}
        /\ lists'[wwaiting] = lists[wwaiting] /\ On(lists', wwaiting) = On(lists, wwaiting)
        /\ Listed(lists') = Listed(lists)
    <3>1. /\ lists' \in [List -> Seq(Task)]
          /\ lists'[rwaiting] = <<>> /\ lists'[RunQ] = lists[RunQ] \o lists[rwaiting]
          /\ \A m \in List \ {rwaiting, RunQ} : lists'[m] = lists[m]
      <4>1. <<>> \in Seq(Task) /\ lists[RunQ] \o lists[rwaiting] \in Seq(Task)
        BY <1>3
      <4> QED BY <1>3, <2>1, <4>1
    <3>2. rwaiting \in List /\ RunQ \in List \ {rwaiting} /\ wwaiting \in List \ {rwaiting, RunQ}
      BY ThreeLists
    <3>3. /\ Disjoint(lists') /\ On(lists', rwaiting) = {} /\ Listed(lists') = Listed(lists)
          /\ \A m \in List \ {rwaiting, RunQ} : On(lists', m) = On(lists, m)
      <4>1. AllMoved(lists, lists', rwaiting, RunQ)
        BY <3>1 DEF AllMoved
      <4>2. lists' \in [List -> Seq(Task)]
        BY <3>1
      <4> HIDE DEF IInv
      <4>3. Disjoint(lists')
        BY <1>3, <3>2, <4>1, <4>2, MoveAll
      <4>4. On(lists', rwaiting) = {} /\ Listed(lists') = Listed(lists)
        BY <1>3, <3>2, <4>1, <4>2, MoveAll
      <4>5. \A m \in List \ {rwaiting, RunQ} : On(lists', m) = On(lists, m)
        BY <3>1 DEF On
      <4> QED BY <4>3, <4>4, <4>5
    <3> QED BY <3>1, <3>2, <3>3
  <2>3. TypeOK' /\ OnePlace' /\ NoAbort'
    <3>1. writer' = nil
      BY <2>1
    <3> QED BY <1>2, <1>4, <2>2, <3>1 DEF TypeOK, SchedTypeOK, OnePlace, NoAbort
  <2>4. WaitersWait' /\ HoldersRun'
    BY <1>2, <2>2 DEF WaitersWait, HoldersRun
  <2>5. Readers' = Readers \cup On(lists, rwaiting)
    BY <1>2, <1>3, <2>2, ListedAreTasks DEF Readers, WaitersWait
  <2>6. Writers' = Writers \ {t}
    BY <1>0, <1>2, <2>2 DEF Writers
  <2>7. CountsExact'
    BY <1>0, <1>1, <1>4, <2>1, <2>5, <2>6 DEF CountsExact
  <2>8. WaitersHaveReason'
    BY <1>4, <1>6, <2>2 DEF WaitersHaveReason
  <2> QED BY <2>1, <2>3, <2>4, <2>7, <2>8
<1> QED BY <1>5, <1>6

(* Yielding and scheduling do not touch the lock. *)
LEMMA YieldKeeps ==
  ASSUME IInv, NEW t \in Task, Yield(t)
  PROVE  IInv'
<1> USE TasklistAssumption, SchedAssumption, ThreeLists DEF IInv
<1>1. /\ lists' = addtask(lists, RunQ, t) /\ taskrunning = t /\ taskrunning' = nil
      /\ UNCHANGED <<prog, readers, writer, reading, writing, pc>>
  BY DEF Yield, taskyield, taskready, taskswitch, Running, lockvars
<1>2. /\ lists' \in [List -> Seq(Task)] /\ Disjoint(lists')
      /\ lists'[rwaiting] = lists[rwaiting] /\ On(lists', rwaiting) = On(lists, rwaiting)
      /\ lists'[wwaiting] = lists[wwaiting] /\ On(lists', wwaiting) = On(lists, wwaiting)
      /\ Listed(lists') = Listed(lists) \cup {t}
  <2>1. /\ lists \in [List -> Seq(Task)] /\ Disjoint(lists) /\ t \notin Listed(lists)
        /\ RunQ \in List /\ rwaiting \in List \ {RunQ} /\ wwaiting \in List \ {RunQ}
    BY <1>1 DEF TypeOK, SchedTypeOK, OnePlace
  <2>2. /\ lists' \in [List -> Seq(Task)] /\ Disjoint(lists')
        /\ Listed(lists') = Listed(lists) \cup {t}
        /\ \A m \in List \ {RunQ} : lists'[m] = lists[m] /\ On(lists', m) = On(lists, m)
    BY ONLY <1>1, <2>1, AddTask, t \in Task
  <2> QED BY <2>1, <2>2
<1>3. TypeOK' /\ OnePlace' /\ NoAbort'
  BY <1>1, <1>2 DEF TypeOK, SchedTypeOK, OnePlace, NoAbort
<1> QED BY <1>1, <1>2, <1>3
        DEF WaitersHaveReason, WaitersWait, HoldersRun, CountsExact, Readers, Writers

LEMMA ScheduleKeeps ==
  ASSUME IInv, Schedule
  PROVE  IInv'
<1> USE TasklistAssumption, SchedAssumption, ThreeLists DEF IInv
<1>0. UNCHANGED <<readers, writer, reading, writing, pc>>
  BY DEF Schedule, lockvars
<1>1. CASE Stall
  <2>1. lists' = lists /\ taskrunning' = taskrunning /\ prog' = "stalled"
    BY <1>1 DEF Stall
  <2> QED BY <1>0, <2>1
          DEF TypeOK, SchedTypeOK, OnePlace, NoAbort, WaitersHaveReason, WaitersWait,
              HoldersRun, CountsExact, Readers, Writers, On
<1>2. CASE Dispatch
  <2> DEFINE h == Head(lists[RunQ])
  <2>1. /\ taskrunning = nil /\ taskrunning' = h /\ prog' = prog
        /\ lists[RunQ] # <<>> /\ lists' = deltask(lists, RunQ)
    BY <1>2 DEF Dispatch, Running
  <2>2. /\ h \in Task /\ h \in Listed(lists)
        /\ lists' \in [List -> Seq(Task)] /\ Disjoint(lists')
        /\ \A m \in {rwaiting, wwaiting} : lists'[m] = lists[m] /\ On(lists', m) = On(lists, m)
        /\ Listed(lists') = Listed(lists) \ {h}
    BY <2>1, DelTask, SMTT(30) DEF TypeOK, SchedTypeOK, OnePlace
  <2> HIDE DEF h
  <2>3. TypeOK' /\ OnePlace' /\ NoAbort'
    BY <1>0, <2>1, <2>2 DEF TypeOK, SchedTypeOK, OnePlace, NoAbort
  <2> QED BY <1>0, <2>2, <2>3
          DEF WaitersHaveReason, WaitersWait, HoldersRun, CountsExact, Readers, Writers
<1> QED BY <1>1, <1>2 DEF Schedule

-----------------------------------------------------------------------------
(* The lists, the count, the writer field and what the tasks know agree in *)
(* every reachable state, for any number of tasks.                         *)
THEOREM RWLockInvariant == Spec => []IInv
<1>1. IInv /\ [Next]_vars => IInv'
  <2> SUFFICES ASSUME IInv, [Next]_vars
               PROVE  IInv'
    OBVIOUS
  <2>1. CASE UNCHANGED vars
    BY <2>1 DEF vars, schedvars, lockvars, IInv, TypeOK, SchedTypeOK, OnePlace, NoAbort,
                WaitersHaveReason, WaitersWait, HoldersRun, CountsExact, Readers, Writers,
                On, Listed
  <2>2. CASE Schedule
    BY <2>2, ScheduleKeeps
  <2>3. ASSUME NEW t \in Task, TaskStep(t)
        PROVE  IInv'
    <3>1. CASE t \notin reading \cup writing /\ (rlock(t) \/ wlock(t))
      BY <3>1, CanrlockKeeps, RlockWaitKeeps, CanwlockKeeps, WlockWaitKeeps DEF rlock, wlock
    <3>2. CASE t \in reading /\ runlock(t)
      BY <3>2, RunlockKeeps
    <3>3. CASE t \in writing /\ wunlock(t)
      BY <3>3, WunlockKeeps
    <3>4. CASE rlock_resume(t) \/ wlock_resume(t)
      BY <3>4, ResumeKeeps
    <3>5. CASE Yield(t)
      BY <3>5, YieldKeeps
    <3> QED BY <2>3, <3>1, <3>2, <3>3, <3>4, <3>5 DEF TaskStep
  <2> QED BY <2>1, <2>2, <2>3 DEF Next
<1> QED BY <1>1, InitInv, PTL DEF Spec

(* In the tasks' own view nobody reads while somebody writes, and at most  *)
(* one task writes (README:228-230).                                       *)
THEOREM RWLockExclusion == Spec => []Exclusion
<1>1. IInv => Exclusion
  <2> SUFFICES ASSUME IInv
               PROVE  Exclusion
    OBVIOUS
  <2>1. reading \subseteq Readers /\ writing \subseteq Writers
    BY DEF Readers, Writers
  <2>2. writer # nil => Readers = {}
    BY Counting DEF IInv
  <2> QED BY <2>1, <2>2, Counting DEF Exclusion, IInv, CountsExact
<1> QED BY <1>1, RWLockInvariant, PTL

(* Neither abort of wunlock is reached, no task is lost or on two lists,   *)
(* and a task waits only while another one will pass the lock on.          *)
THEOREM RWLockSafety == Spec => [](NoAbort /\ OnePlace /\ WaitersHaveReason)
BY RWLockInvariant, PTL DEF IInv
=============================================================================
