------------------------------- MODULE RWLock -------------------------------
(***************************************************************************)
(* Reader-writer locks (qlock.c:69-188).  One lock l: its reader count,    *)
(* its writer and two FIFO lists.  A reader enters if no writer holds the  *)
(* lock or waits for it; the last reader to leave passes the lock to the   *)
(* first waiting writer; a writer that leaves lets all waiting readers in, *)
(* or else the next writer.                                                *)
(*                                                                         *)
(* pc[t] = "rlock" ("wlock") is a task inside rlock (wlock) past its       *)
(* addtask.  reading and writing are what the tasks know: those whose call *)
(* has returned and that have not unlocked.                                *)
(***************************************************************************)
EXTENDS Sched

CONSTANTS rwaiting, wwaiting   \* the two task lists of the lock

ASSUME RWLockAssumption ==
  /\ {rwaiting, wwaiting} \subseteq List \ {RunQ}
  /\ rwaiting # wwaiting

VARIABLES readers,   \* l->readers
          writer,    \* l->writer
          reading,   \* tasks that know they have the lock for reading
          writing,   \* tasks that know they have the lock for writing
          pc         \* per task: where in the library it is

lockvars == <<readers, writer, reading, writing, pc>>
vars == <<schedvars, lockvars>>

TypeOK ==
  /\ SchedTypeOK
  /\ readers \in Int
  /\ writer \in Task \cup {nil}
  /\ reading \subseteq Task
  /\ writing \subseteq Task
  /\ pc \in [Task -> {"user", "rlock", "wlock"}]

Init ==
  /\ SchedInit
  /\ readers = 0
  /\ writer = nil
  /\ reading = {}
  /\ writing = {}
  /\ pc = [t \in Task |-> "user"]

-----------------------------------------------------------------------------
Call(t) == Running(t) /\ pc[t] = "user"

(* Mutant: a waiting writer does not keep readers out. *)
canrlock_overtake(t) ==
  /\ Call(t)
  /\ writer = nil
  /\ readers' = readers + 1
  /\ reading' = reading \cup {t}
  /\ UNCHANGED <<schedvars, writer, writing, pc>>

(* _rlock(l, block): a writer that holds or awaits the lock keeps readers  *)
(* out; canrlock (block = FALSE) then changes nothing.                     *)
canrlock(t) ==
  /\ Call(t)
  /\ writer = nil /\ lists[wwaiting] = <<>>
  /\ readers' = readers + 1
  /\ reading' = reading \cup {t}
  /\ UNCHANGED <<schedvars, writer, writing, pc>>

rlock_wait(t) ==
  /\ Call(t)
  /\ ~(writer = nil /\ lists[wwaiting] = <<>>)
  /\ lists' = addtask(lists, rwaiting, t)
  /\ taskswitch
  /\ pc' = [pc EXCEPT ![t] = "rlock"]
  /\ UNCHANGED <<prog, readers, writer, reading, writing>>

rlock(t) == canrlock(t) \/ rlock_wait(t)

(* Mutant: readers do not keep a writer out. *)
canwlock_readers(t) ==
  /\ Call(t)
  /\ writer = nil
  /\ writer' = t
  /\ writing' = writing \cup {t}
  /\ UNCHANGED <<schedvars, readers, reading, pc>>

(* _wlock(l, block): any holder keeps a writer out. *)
canwlock(t) ==
  /\ Call(t)
  /\ writer = nil /\ readers = 0
  /\ writer' = t
  /\ writing' = writing \cup {t}
  /\ UNCHANGED <<schedvars, readers, reading, pc>>

wlock_wait(t) ==
  /\ Call(t)
  /\ ~(writer = nil /\ readers = 0)
  /\ lists' = addtask(lists, wwaiting, t)
  /\ taskswitch
  /\ pc' = [pc EXCEPT ![t] = "wlock"]
  /\ UNCHANGED <<prog, readers, writer, reading, writing>>

wlock(t) == canwlock(t) \/ wlock_wait(t)

(* After its taskswitch either call just returns: there is no check. *)
rlock_resume(t) ==
  /\ Running(t) /\ pc[t] = "rlock"
  /\ reading' = reading \cup {t}
  /\ pc' = [pc EXCEPT ![t] = "user"]
  /\ UNCHANGED <<schedvars, readers, writer, writing>>

wlock_resume(t) ==
  /\ Running(t) /\ pc[t] = "wlock"
  /\ writing' = writing \cup {t}
  /\ pc' = [pc EXCEPT ![t] = "user"]
  /\ UNCHANGED <<schedvars, readers, writer, reading>>

(* The first waiting writer of the lists q gets the lock. *)
pass_to_writer(q) ==
  /\ writer' = Head(q[wwaiting])
  /\ lists' = taskready(deltask(q, wwaiting), Head(q[wwaiting]))

runlock(t) ==
  /\ Call(t)
  /\ readers' = readers - 1
  /\ reading' = reading \ {t}
  /\ \/ /\ readers' = 0 /\ lists[wwaiting] # <<>>
        /\ pass_to_writer(lists)
     \/ /\ ~(readers' = 0 /\ lists[wwaiting] # <<>>)
        /\ UNCHANGED <<lists, writer>>
  /\ UNCHANGED <<taskrunning, prog, writing, pc>>

(* The loop of wunlock: every waiting reader is made ready, in order. *)
admit_readers(q) ==
  [q EXCEPT ![rwaiting] = <<>>, ![RunQ] = @ \o q[rwaiting]]

(* Mutants: readers let in are not counted; writers are preferred. *)
wunlock_uncounted(t) ==
  /\ Call(t)
  /\ writer # nil /\ readers = 0
  /\ writer' = nil
  /\ lists' = admit_readers(lists)
  /\ writing' = writing \ {t}
  /\ UNCHANGED <<taskrunning, prog, readers, reading, pc>>

wunlock_writers_first(t) ==
  /\ Call(t)
  /\ writer # nil /\ readers = 0
  /\ \/ /\ lists[wwaiting] # <<>>
        /\ pass_to_writer(lists)
        /\ UNCHANGED readers
     \/ /\ lists[wwaiting] = <<>>
        /\ readers' = Len(lists[rwaiting])
        /\ writer' = nil
        /\ lists' = admit_readers(lists)
  /\ writing' = writing \ {t}
  /\ UNCHANGED <<taskrunning, prog, reading, pc>>

wunlock(t) ==
  /\ Call(t)
  /\ \/ /\ writer = nil \/ readers # 0
        /\ Abort
        /\ UNCHANGED lockvars
     \/ /\ writer # nil /\ readers = 0
        /\ readers' = Len(lists[rwaiting])
        /\ \/ /\ readers' = 0 /\ lists[wwaiting] # <<>>
              /\ pass_to_writer(lists)
           \/ /\ ~(readers' = 0 /\ lists[wwaiting] # <<>>)
              /\ writer' = nil
              /\ lists' = admit_readers(lists)
        /\ writing' = writing \ {t}
        /\ UNCHANGED <<taskrunning, prog, reading, pc>>

-----------------------------------------------------------------------------
(* A program that uses the lock as intended: a task locks it only if it    *)
(* has no part of it, and unlocks what it has.                             *)
Yield(t) == pc[t] = "user" /\ taskyield(t) /\ UNCHANGED lockvars
Schedule == (Dispatch \/ Stall) /\ UNCHANGED lockvars

TaskStep(t) ==
  \/ /\ t \notin reading \cup writing
     /\ rlock(t) \/ wlock(t)
  \/ t \in reading /\ runlock(t)
  \/ t \in writing /\ wunlock(t)
  \/ rlock_resume(t)
  \/ wlock_resume(t)
  \/ Yield(t)

Next == Schedule \/ \E t \in Task : TaskStep(t)

Spec == Init /\ [][Next]_vars

(* The library does not stop, a running task leaves the CPU at some point, *)
(* and one that has the lock unlocks it if it keeps being scheduled.       *)
Fairness ==
  /\ WF_vars(Schedule)
  /\ \A t \in Task :
       /\ WF_vars(rlock_resume(t))
       /\ WF_vars(wlock_resume(t))
       /\ WF_vars(Yield(t))
       /\ SF_vars(t \in reading /\ runlock(t))
       /\ SF_vars(t \in writing /\ wunlock(t))

FairSpec == Spec /\ Fairness

-----------------------------------------------------------------------------
(* "If a writer is holding it, there can't be any readers", "only one      *)
(* writer at a time" (README:228-230), in the tasks' own view.             *)
Exclusion ==
  /\ writing # {} => reading = {}
  /\ \A t, u \in writing : t = u

(* The aborts of wunlock ("not locked", "readers") are not reached. *)
NoAbort == prog # "aborted"

(* Every task is in exactly one place: it runs, or it is on exactly one    *)
(* task list, once.                                                        *)
OnePlace ==
  /\ Disjoint(lists)
  /\ taskrunning \notin Listed(lists)
  /\ Task \ {taskrunning} = Listed(lists)

(* Tasks the lock lets in: those that know it, and those made ready by an  *)
(* unlock that have not run since.                                         *)
Readers == reading \cup {t \in Task : pc[t] = "rlock" /\ t \notin On(lists, rwaiting)}
Writers == writing \cup {t \in Task : pc[t] = "wlock" /\ t \notin On(lists, wwaiting)}

(* The count and the writer field describe exactly the tasks let in.       *)
CountsExact ==
  /\ readers = Cardinality(Readers)
  /\ Writers = {writer} \ {nil}

(* No lost wakeup: a writer waits only while somebody has the lock, and a  *)
(* reader only while a writer has it or waits for it; so there is always a *)
(* task whose unlock will pass the lock on.                                *)
WaitersHaveReason ==
  /\ lists[wwaiting] # <<>> => writer # nil \/ readers > 0
  /\ lists[rwaiting] # <<>> => writer # nil \/ lists[wwaiting] # <<>>

(* Neither side starves the other: readers that arrive while a writer      *)
(* waits queue up behind it, and a writer lets all waiting readers in.     *)
ReadersGetIn == \A t \in Task : pc[t] = "rlock" ~> t \in reading
WritersGetIn == \A t \in Task : pc[t] = "wlock" ~> t \in writing

(* The inductive invariant behind the safety properties. *)
WaitersWait ==
  /\ \A t \in On(lists, rwaiting) : pc[t] = "rlock"
  /\ \A t \in On(lists, wwaiting) : pc[t] = "wlock"

HoldersRun == \A t \in reading \cup writing : pc[t] = "user"

IInv ==
  /\ TypeOK /\ OnePlace /\ NoAbort /\ CountsExact /\ WaitersHaveReason
  /\ WaitersWait /\ HoldersRun
  /\ writer # nil => readers = 0
=============================================================================
