----------------------------- MODULE Scheduler ------------------------------
(***************************************************************************)
(* task.c as a whole: creation and exit of tasks, the array alltask, the   *)
(* count that decides when the program is done, taskyield and its result,  *)
(* and the scheduler loop with its two ways to end the process.            *)
(*                                                                         *)
(* heap is the set of allocated Task structures; taskalloc takes any       *)
(* address that is free, so a structure may be reused after an exit.       *)
(* Blocking in a lock, rendezvous, channel or poll is block(t), the        *)
(* matching taskready is wake(t, u): what those components do with a task  *)
(* is in their own modules.                                                *)
(***************************************************************************)
EXTENDS Sched

CONSTANTS Main,     \* the task main() creates
          Status,   \* exit statuses
          Chunk,    \* alltask grows by this many slots (64)
          Wrap      \* tasknswitch is an int: it counts modulo this (2^32)

ASSUME SchedulerAssumption ==
  /\ Main \in Task
  /\ {0, 1} \subseteq Status /\ nil \notin Status
  /\ Chunk \in Nat \ {0}
  /\ Wrap \in Nat /\ Wrap > Cardinality(Task)

VARIABLES heap,         \* the allocated Task structures
          pc,           \* per task: user code, in taskyield, or blocked
          system,       \* tasks with t->system set
          ready,        \* tasks with t->ready set
          alltask,      \* the first nalltask entries of the array
          allocated,    \* the number of slots the array has room for
          alltaskslot,  \* t->alltaskslot
          taskcount, tasknswitch, taskexitval,
          status,       \* what the process exited with
          mark,         \* per task: n in taskyield
          ahead, ran,   \* history: ready at, and run since, a task's taskyield
          last          \* history: status given by the last non-system task

countvars == <<taskcount, taskexitval, status, last>>
arrayvars == <<heap, alltask, allocated, alltaskslot>>
yieldvars == <<mark, ahead, ran>>
vars == <<schedvars, countvars, arrayvars, yieldvars, pc, system, ready, tasknswitch>>

TypeOK ==
  /\ SchedTypeOK
  /\ heap \subseteq Task
  /\ pc \in [Task -> {"user", "yield", "blocked"}]
  /\ system \subseteq Task
  /\ ready \subseteq Task
  /\ alltask \in Seq(Task)
  /\ allocated \in Nat
  /\ alltaskslot \in [Task -> Nat]
  /\ taskcount \in Int
  /\ tasknswitch \in 0..Wrap - 1
  /\ taskexitval \in Status
  /\ status \in Status \cup {nil}
  /\ mark \in [Task -> 0..Wrap - 1]
  /\ ahead \in [Task -> SUBSET Task]
  /\ ran \in [Task -> SUBSET Task]
  /\ last \in Status \cup {nil}

(* The state in which main() calls taskscheduler: taskmain is ready. *)
Init ==
  /\ heap = {Main}
  /\ pc = [t \in Task |-> "user"]
  /\ system = {}
  /\ ready = {Main}
  /\ alltask = <<Main>>
  /\ allocated = Chunk
  /\ alltaskslot = [t \in Task |-> 0]
  /\ taskcount = 1
  /\ tasknswitch = 0
  /\ taskexitval = 0
  /\ status = nil
  /\ mark = [t \in Task |-> 0]
  /\ ahead = [t \in Task |-> {}]
  /\ ran = [t \in Task |-> {}]
  /\ last = nil
  /\ lists = [[l \in List |-> <<>>] EXCEPT ![RunQ] = <<Main>>]
  /\ taskrunning = nil
  /\ prog = "running"

Call(t) == Running(t) /\ pc[t] = "user"

-----------------------------------------------------------------------------
(* alltask has room for Chunk more entries whenever it is about to fill.   *)
grown(n) == IF n % Chunk = 0 THEN n + Chunk ELSE allocated

taskcreate(t, u) ==
  /\ Call(t)
  /\ u \notin heap
  /\ heap' = heap \cup {u}
  /\ pc' = [pc EXCEPT ![u] = "user"]
  /\ system' = system \ {u}
  /\ taskcount' = taskcount + 1
  /\ allocated' = grown(Len(alltask))
  /\ alltaskslot' = [alltaskslot EXCEPT ![u] = Len(alltask)]
  /\ alltask' = Append(alltask, u)
  /\ ready' = ready \cup {u}
  /\ lists' = taskready(lists, u)
  /\ UNCHANGED <<taskrunning, prog, tasknswitch, taskexitval, status, last, yieldvars>>

(* Mutant: a second tasksystem counts again. *)
tasksystem_twice(t) ==
  /\ Call(t)
  /\ system' = system \cup {t}
  /\ taskcount' = taskcount - 1
  /\ UNCHANGED <<schedvars, arrayvars, yieldvars, pc, ready, tasknswitch,
                 taskexitval, status, last>>

tasksystem(t) ==
  /\ Call(t)
  /\ t \notin system
  /\ system' = system \cup {t}
  /\ taskcount' = taskcount - 1
  /\ UNCHANGED <<schedvars, arrayvars, yieldvars, pc, ready, tasknswitch,
                 taskexitval, status, last>>

yield(t) ==
  /\ Call(t)
  /\ taskyield(t)
  /\ ready' = ready \cup {t}
  /\ mark' = [mark EXCEPT ![t] = tasknswitch]
  /\ ahead' = [ahead EXCEPT ![t] = On(lists, RunQ)]
  /\ ran' = [ran EXCEPT ![t] = {}]
  /\ pc' = [pc EXCEPT ![t] = "yield"]
  /\ UNCHANGED <<countvars, arrayvars, system, tasknswitch>>

(* Mutant: the switch back to the task itself is counted. *)
yielded_self(t) == (tasknswitch - mark[t]) % Wrap

(* What taskyield returns. *)
yielded(t) == (tasknswitch - mark[t] - 1) % Wrap

yield_resume(t) ==
  /\ Running(t) /\ pc[t] = "yield"
  /\ pc' = [pc EXCEPT ![t] = "user"]
  /\ mark' = [mark EXCEPT ![t] = 0]
  /\ ahead' = [ahead EXCEPT ![t] = {}]
  /\ ran' = [ran EXCEPT ![t] = {}]
  /\ UNCHANGED <<schedvars, countvars, arrayvars, system, ready, tasknswitch>>

(* Mutant: the task that is moved does not learn its new slot. *)
remove_slot_stale(t) ==
  LET n == Len(alltask)
      i == alltaskslot[t]
  IN  /\ alltask' = SubSeq([alltask EXCEPT ![i + 1] = alltask[n]], 1, n - 1)
      /\ alltaskslot' = [alltaskslot EXCEPT ![t] = 0]
      /\ UNCHANGED allocated

(* The last entry of alltask moves into the slot of the task that exits.   *)
(* (What the freed structure held is forgotten: taskalloc clears it.)      *)
remove_slot(t) ==
  LET n == Len(alltask)
      i == alltaskslot[t]
  IN  /\ alltask' = SubSeq([alltask EXCEPT ![i + 1] = alltask[n]], 1, n - 1)
      /\ alltaskslot' = [alltaskslot EXCEPT ![alltask[n]] = i, ![t] = 0]
      /\ UNCHANGED allocated

(* taskexit, and what the scheduler does with an exiting task. *)
taskexit(t, val) ==
  /\ Call(t)
  /\ taskexitval' = val
  /\ taskswitch
  /\ taskcount' = IF t \in system THEN taskcount ELSE taskcount - 1
  /\ remove_slot(t)
  /\ heap' = heap \ {t}
  /\ system' = system \ {t}
  /\ last' = IF heap \ system = {t} THEN val ELSE last
  /\ UNCHANGED <<lists, prog, status, yieldvars, pc, ready, tasknswitch>>

taskexitall(t, val) ==
  /\ Call(t)
  /\ prog' = "exited"
  /\ status' = val
  /\ UNCHANGED <<lists, taskrunning, taskcount, taskexitval, last, arrayvars,
                 yieldvars, pc, system, ready, tasknswitch>>

(* A task blocks in some component, and a running one makes it ready.      *)
block(t) ==
  /\ Call(t)
  /\ taskswitch
  /\ pc' = [pc EXCEPT ![t] = "blocked"]
  /\ UNCHANGED <<lists, prog, countvars, arrayvars, yieldvars, system, ready, tasknswitch>>

wake(t, u) ==
  /\ Call(t)
  /\ u \in heap /\ pc[u] = "blocked"
  /\ pc' = [pc EXCEPT ![u] = "user"]
  /\ ready' = ready \cup {u}
  /\ lists' = taskready(lists, u)
  /\ UNCHANGED <<taskrunning, prog, countvars, arrayvars, yieldvars, system, tasknswitch>>

-----------------------------------------------------------------------------
(* Mutants: the program is done with one task left; a task is run before   *)
(* the count is looked at; t->ready is not cleared.                        *)
schedule_exit_early ==
  /\ Running(nil)
  /\ taskcount <= 1
  /\ prog' = "exited"
  /\ status' = taskexitval
  /\ UNCHANGED <<lists, taskrunning, ready, tasknswitch, ran>>

schedule_run_first ==
  /\ Dispatch
  /\ ready' = ready \ {taskrunning'}
  /\ tasknswitch' = (tasknswitch + 1) % Wrap
  /\ UNCHANGED <<status, ran>>

schedule_run_ready ==
  /\ taskcount # 0
  /\ Dispatch
  /\ tasknswitch' = (tasknswitch + 1) % Wrap
  /\ UNCHANGED <<status, ready, ran>>

(* One turn of the loop of taskscheduler. *)
schedule_exit ==
  /\ Running(nil)
  /\ taskcount = 0
  /\ prog' = "exited"
  /\ status' = taskexitval
  /\ UNCHANGED <<lists, taskrunning, ready, tasknswitch, ran>>

schedule_stall ==
  /\ taskcount # 0
  /\ Stall
  /\ status' = 1
  /\ UNCHANGED <<ready, tasknswitch, ran>>

schedule_run ==
  /\ taskcount # 0
  /\ Dispatch
  /\ ready' = ready \ {taskrunning'}
  /\ tasknswitch' = (tasknswitch + 1) % Wrap
  /\ ran' = [t \in Task |-> IF pc[t] = "yield" /\ t # taskrunning'
                            THEN ran[t] \cup {taskrunning'} ELSE ran[t]]
  /\ UNCHANGED status

taskscheduler ==
  /\ schedule_exit \/ schedule_stall \/ schedule_run
  /\ UNCHANGED <<taskcount, taskexitval, last, arrayvars, mark, ahead, pc, system>>

TaskStep(t) ==
  \/ \E u \in Task : taskcreate(t, u)
  \/ tasksystem(t)
  \/ yield(t)
  \/ yield_resume(t)
  \/ \E val \in Status : taskexit(t, val)
  \/ \E val \in Status : taskexitall(t, val)
  \/ block(t)
  \/ \E u \in Task : wake(t, u)

Next == taskscheduler \/ \E t \in Task : TaskStep(t)

Spec == Init /\ [][Next]_vars

(* The scheduler goes on, taskyield returns, and no task keeps the CPU. *)
Fairness ==
  /\ WF_vars(taskscheduler)
  /\ \A t \in Task : WF_vars(yield(t)) /\ WF_vars(yield_resume(t))

FairSpec == Spec /\ Fairness

-----------------------------------------------------------------------------
(* taskcount, on which the end of the program depends, is the number of    *)
(* tasks that exist and are not system tasks.                              *)
CountExact == taskcount = Cardinality(heap \ system)

(* alltask lists every existing task once, every task knows its slot, and  *)
(* the array never outgrows its allocation: the swap with the last entry   *)
(* in taskscheduler and the growth test of taskcreate fit together.        *)
AlltaskExact ==
  /\ Range(alltask) = heap
  /\ \A t \in heap : alltaskslot[t] + 1 \in DOMAIN alltask /\ alltask[alltaskslot[t] + 1] = t
  /\ Len(alltask) = Cardinality(heap)
  /\ Len(alltask) <= allocated

(* No freed structure is run or queued, a task is queued at most once and  *)
(* not while it runs, t->ready tells whether it is queued, and every task  *)
(* that exists, is not blocked and does not run is queued: none is lost.   *)
QueueExact ==
  /\ Disjoint(lists)
  /\ taskrunning \notin Listed(lists)
  /\ taskrunning \in heap \cup {nil}
  /\ On(lists, RunQ) = ready
  /\ ready = {t \in heap : pc[t] # "blocked"} \ {taskrunning}

(* taskyield (README:42-46): the task runs again after exactly the tasks   *)
(* that were ready have run, and taskyield returns how many those were,    *)
(* also when tasknswitch has wrapped around in between.                    *)
YieldResult ==
  \A t \in Task : Running(t) /\ pc[t] = "yield" =>
    /\ ran[t] = ahead[t]
    /\ yielded(t) = Cardinality(ran[t])

(* taskexit (README:29-30): when the last non-system task exits, nothing   *)
(* runs any more and the process exits with the status it gave.            *)
LastExitEndsProgram ==
  last # nil => taskrunning = nil /\ (status = nil \/ status = last)

(* The scheduler ends the program with "no runnable tasks" only when all   *)
(* that exist are blocked, and with taskexitval only when no non-system    *)
(* task exists.                                                            *)
EndsForAReason ==
  [][/\ prog' = "stalled" /\ prog # prog' => \A t \in heap : pc[t] = "blocked"
     /\ prog' = "exited" /\ prog # prog' /\ taskrunning = nil => heap \subseteq system]_vars

(* The inductive invariant behind them.  For a task inside taskyield, the  *)
(* tasks that were ready are those that have run and those still in front  *)
(* of it, and each of the former is one switch that was counted.           *)
Before(q, i) == {q[j] : j \in 1..i - 1}

Switches(from, to, n) == to \in {from + n, from + n - Wrap}

YieldProgress ==
  \A t \in Task : pc[t] = "yield" =>
    /\ t \in heap
    /\ taskrunning = t => /\ ran[t] = ahead[t]
                          /\ Switches(mark[t], tasknswitch, Cardinality(ran[t]) + 1)
    /\ \A i \in DOMAIN lists[RunQ] : lists[RunQ][i] = t =>
         /\ ran[t] \cup Before(lists[RunQ], i) = ahead[t]
         /\ ran[t] \cap Before(lists[RunQ], i) = {}
         /\ Switches(mark[t], tasknswitch, Cardinality(ran[t]))

(* A status is only there at the end; after the exit of the last           *)
(* non-system task taskexitval keeps what it gave.                         *)
EndSettled ==
  /\ prog = "running" => status = nil
  /\ last # nil => /\ taskrunning = nil /\ heap \subseteq system
                   /\ taskexitval = last /\ status \in {nil, last}

IInv ==
  /\ TypeOK /\ CountExact /\ AlltaskExact /\ QueueExact /\ YieldProgress /\ EndSettled
  /\ allocated % Chunk = 0
  /\ \A i \in DOMAIN alltask : alltaskslot[alltask[i]] = i - 1
  /\ \A l \in List \ {RunQ} : lists[l] = <<>>

(* Every ready task gets to run, unless the program ends first. *)
ReadyRuns ==
  \A t \in Task : t \in ready ~> (taskrunning = t \/ prog # "running")
=============================================================================
