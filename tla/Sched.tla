------------------------------- MODULE Sched --------------------------------
(***************************************************************************)
(* The cooperative core of libtask (task.c) that the locks, rendezvous     *)
(* points and channels are built on: the run queue, the running task, and  *)
(* the scheduler's dispatch.  A task runs until it calls taskswitch; every *)
(* action of a running task is therefore everything the code does between  *)
(* two switches of one library call.                                       *)
(*                                                                         *)
(* The set of tasks is fixed here (all were created, none exits); creation,*)
(* exit and the accounting of tasks are in module Scheduler.               *)
(***************************************************************************)
EXTENDS Tasklist, FiniteSets

CONSTANT RunQ     \* the list taskrunqueue

ASSUME SchedAssumption == RunQ \in List /\ IsFiniteSet(Task)

VARIABLES lists,        \* every Tasklist of the program
          taskrunning,  \* the running task; nil while the scheduler runs
          prog          \* the process: running, or how it ended

schedvars == <<lists, taskrunning, prog>>

SchedTypeOK ==
  /\ lists \in [List -> Seq(Task)]
  /\ taskrunning \in Task \cup {nil}
  /\ prog \in {"running", "stalled", "aborted", "exited"}

(* All tasks were created and are ready, in any order of creation. *)
SchedInit ==
  /\ lists \in {[[l \in List |-> <<>>] EXCEPT ![RunQ] = order] :
                   order \in Bijection(1..Cardinality(Task), Task)}
  /\ taskrunning = nil
  /\ prog = "running"

(* Task t executes user code or library code. *)
Running(t) == prog = "running" /\ taskrunning = t

(* Mutant: a ready task goes to the head of the queue. *)
taskready_front(q, t) == [q EXCEPT ![RunQ] = <<t>> \o @]

(* taskready: at the tail of the run queue. *)
taskready(q, t) == addtask(q, RunQ, t)

(* taskswitch: back to the scheduler, which clears taskrunning. *)
taskswitch == taskrunning' = nil

(* taskscheduler: the head of the run queue runs ... *)
Dispatch ==
  /\ Running(nil)
  /\ lists[RunQ] # <<>>
  /\ taskrunning' = Head(lists[RunQ])
  /\ lists' = deltask(lists, RunQ)
  /\ UNCHANGED prog

(* ... or, with nobody ready, the program ends: "no runnable tasks!" *)
Stall ==
  /\ Running(nil)
  /\ lists[RunQ] = <<>>
  /\ prog' = "stalled"
  /\ UNCHANGED <<lists, taskrunning>>

(* taskyield: to the tail of the run queue, and switch. *)
taskyield(t) ==
  /\ Running(t)
  /\ lists' = taskready(lists, t)
  /\ taskswitch
  /\ UNCHANGED prog

(* abort(): the process is gone. *)
Abort ==
  /\ prog' = "aborted"
  /\ UNCHANGED <<lists, taskrunning>>
=============================================================================
