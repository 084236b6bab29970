--------------------------------- MODULE Fd ---------------------------------
(***************************************************************************)
(* Waiting for time and for file descriptors (fd.c).  A task that delays   *)
(* is on the list sleeping, ordered by alarmtime; a task that waits for a  *)
(* descriptor has an entry in the array pollfd/polltask.  The system task  *)
(* fdtask, created by the first wait, makes both ready again: it yields    *)
(* until nobody else can run, blocks the whole process in poll, and then   *)
(* wakes the tasks whose event or whose time has come.                     *)
(*                                                                         *)
(* clock is what gettimeofday shows, in units of which Msec make a         *)
(* millisecond.  The kernel (poll, read, write, the clock) is external.    *)
(* The calls and pc values of netaccept and netdial are module Net's.      *)
(***************************************************************************)
EXTENDS Sched

CONSTANTS Fdtask,    \* the task that runs fdtask
          Sleeping,  \* the list sleeping
          Fd,        \* file descriptors
          MAXFD,     \* entries in pollfd (1024)
          Msec,      \* clock units per millisecond (1000000)
          MaxWait,   \* the longest poll, in milliseconds (5000)
          Delay,     \* arguments of taskdelay, in milliseconds
          Horizon,   \* bound: no delay ends after this time
          Count,     \* bound: the most bytes one fdwrite is given
          Calls      \* what tasks do: the names of the library calls they make

ASSUME FdAssumption ==
  /\ Fdtask \in Task
  /\ Sleeping \in List \ {RunQ}
  /\ MAXFD \in Nat /\ Msec \in Nat \ {0} /\ MaxWait \in Nat /\ Horizon \in Nat /\ Count \in Nat
  /\ Delay \subseteq Nat
  /\ nil \notin Nat   \* no timeout (poll's -1) is not a time
  /\ Calls \subseteq {"yield", "delay", "wait", "read", "read1", "write", "system", "exit",
                      "announce", "accept", "dial", "close"}

(* The rw argument of fdwait; "e" stands for everything but 'r' and 'w'. *)
Mode == {"r", "w", "e"}

VARIABLES pc,               \* what a task does
          file, mode,       \* the arguments of the call a task is in
          left,             \* n - tot of a task's fdwrite
          alarmtime,        \* t->alarmtime
          began,            \* now in taskdelay
          system,           \* tasks with t->system set
          taskcount,
          sleepingcounted,
          startedfdtask,
          pollfd,           \* the first npollfd entries of pollfd and polltask
          others,           \* fdtask: has another task run since its taskyield?
          until,            \* fdtask: when the poll it is in times out, or nil
          i,                \* fdtask: the index of its loop over pollfd
          clock,            \* kernel: the time
          pending,          \* kernel: the events a poll would report
          hot               \* history: tasks whose event the last poll reported

taskvars == <<pc, file, mode, left>>
timevars == <<alarmtime, began>>
countvars == <<system, taskcount, sleepingcounted, startedfdtask>>
loopvars == <<others, until, i, hot>>
kernel == <<clock, pending>>
vars == <<schedvars, taskvars, timevars, countvars, loopvars, kernel, pollfd>>

User == Task \ {Fdtask}
Entry == [task : Task, fd : Fd, events : Mode, revents : BOOLEAN]

TypeOK ==
  /\ SchedTypeOK
  /\ pc \in [Task -> {"start", "yield", "poll", "scan", "user", "delay", "wait",
                      "read", "write", "accept", "dial", "gone"}]
  /\ file \in [Task -> Fd \cup {nil}]
  /\ mode \in [Task -> Mode]
  /\ left \in [Task -> 0..Count]
  /\ alarmtime \in [Task -> Nat]
  /\ began \in [Task -> Nat]
  /\ system \subseteq Task
  /\ taskcount \in Int /\ sleepingcounted \in Int
  /\ startedfdtask \in BOOLEAN
  /\ pollfd \in Seq(Entry) /\ Len(pollfd) <= MAXFD
  /\ others \in BOOLEAN
  /\ until \in Nat \cup {nil}
  /\ i \in Nat
  /\ clock \in 0..Horizon
  /\ pending \subseteq Fd \X Mode
  /\ hot \subseteq Task

(* Every user task was created and is ready; nobody has waited yet. *)
Init ==
  /\ lists \in {[[l \in List |-> <<>>] EXCEPT ![RunQ] = order] :
                   order \in Bijection(1..Cardinality(User), User)}
  /\ taskrunning = nil
  /\ prog = "running"
  /\ pc = [t \in Task |-> IF t = Fdtask THEN "start" ELSE "user"]
  /\ file = [t \in Task |-> nil]
  /\ mode = [t \in Task |-> "e"]
  /\ left = [t \in Task |-> 0]
  /\ alarmtime = [t \in Task |-> 0]
  /\ began = [t \in Task |-> 0]
  /\ system = {}
  /\ taskcount = Cardinality(User)
  /\ sleepingcounted = 0
  /\ startedfdtask = FALSE
  /\ pollfd = <<>>
  /\ others = FALSE
  /\ until = nil
  /\ i = 1
  /\ clock = 0
  /\ pending = {}
  /\ hot = {}

-----------------------------------------------------------------------------
(* The kernel: time passes, descriptors become ready, or cease to be. *)
Tick ==
  /\ prog = "running"
  /\ clock < Horizon
  /\ clock' = clock + 1
  /\ UNCHANGED <<schedvars, taskvars, timevars, countvars, loopvars, pollfd, pending>>

Event ==
  /\ prog = "running"
  /\ \E e \in Fd \X Mode : pending' = pending \cup {e}
  /\ pending' # pending
  /\ UNCHANGED <<schedvars, taskvars, timevars, countvars, loopvars, pollfd, clock>>

(* What poll reports for an entry: its own event, or an error on its fd. *)
reported(p) == {<<p.fd, p.events>>, <<p.fd, "e">>} \cap pending # {}

(* A read or write that does not fail with EAGAIN may use up the event. *)
consumed(f, m) == pending' \in {pending, pending \ {<<f, m>>}}
possible(f, m) == {<<f, m>>, <<f, "e">>} \cap pending # {}

-----------------------------------------------------------------------------
(* taskscheduler, with the outcome of fdtask's taskyield. *)
schedule ==
  /\ \/ /\ Running(nil) /\ taskcount = 0
        /\ prog' = "exited"
        /\ UNCHANGED <<lists, taskrunning, others>>
     \/ /\ taskcount # 0
        /\ Stall
        /\ UNCHANGED others
     \/ /\ taskcount # 0
        /\ Dispatch
        /\ others' = (others \/ taskrunning' # Fdtask)
  /\ UNCHANGED <<taskvars, timevars, countvars, until, i, hot, kernel, pollfd>>

(* The lists and the count after `if(!startedfdtask) taskcreate(fdtask)'. *)
started(q) == IF startedfdtask THEN q ELSE taskready(q, Fdtask)
counted(n) == IF startedfdtask THEN n ELSE n + 1

Call(t, name) == t \in User /\ name \in Calls /\ Running(t) /\ pc[t] = "user"

(* Mutant: the list is kept the other way round. *)
insert_after(q, t, when) ==
  LET s == q[Sleeping]
      n == CHOOSE k \in 0..Len(s) :
             /\ \A j \in 1..k : alarmtime[s[j]] > when
             /\ k < Len(s) => ~(alarmtime[s[k + 1]] > when)
  IN  [q EXCEPT ![Sleeping] = SubSeq(s, 1, n) \o <<t>> \o SubSeq(s, n + 1, Len(s))]

(* t takes its place before the first task that does not wake earlier. *)
insert(q, t, when) ==
  LET s == q[Sleeping]
      n == CHOOSE k \in 0..Len(s) :
             /\ \A j \in 1..k : alarmtime[s[j]] < when
             /\ k < Len(s) => ~(alarmtime[s[k + 1]] < when)
  IN  [q EXCEPT ![Sleeping] = SubSeq(s, 1, n) \o <<t>> \o SubSeq(s, n + 1, Len(s))]

(* Mutant: every sleeper is counted once more, not only the first. *)
taskdelay_uncounted(t, ms) ==
  LET when == clock + ms * Msec
  IN  /\ Call(t, "delay")
      /\ when <= Horizon
      /\ lists' = insert(started(lists), t, when)
      /\ began' = [began EXCEPT ![t] = clock]
      /\ alarmtime' = [alarmtime EXCEPT ![t] = when]
      /\ startedfdtask' = TRUE
      /\ sleepingcounted' = IF t \in system THEN sleepingcounted ELSE sleepingcounted + 1
      /\ taskcount' = IF t \notin system 
                      THEN counted(taskcount) + 1 ELSE counted(taskcount)
      /\ taskswitch
      /\ pc' = [pc EXCEPT ![t] = "delay"]
      /\ UNCHANGED <<prog, file, mode, left, system, loopvars, kernel, pollfd>>

taskdelay(t, ms) ==
  LET when == clock + ms * Msec
  IN  /\ Call(t, "delay")
      /\ when <= Horizon
      /\ lists' = insert(started(lists), t, when)
      /\ began' = [began EXCEPT ![t] = clock]
      /\ alarmtime' = [alarmtime EXCEPT ![t] = when]
      /\ startedfdtask' = TRUE
      /\ sleepingcounted' = IF t \in system THEN sleepingcounted ELSE sleepingcounted + 1
      /\ taskcount' = IF t \notin system /\ sleepingcounted = 0
                      THEN counted(taskcount) + 1 ELSE counted(taskcount)
      /\ taskswitch
      /\ pc' = [pc EXCEPT ![t] = "delay"]
      /\ UNCHANGED <<prog, file, mode, left, system, loopvars, kernel, pollfd>>

(* The milliseconds taskdelay reports. *)
slept(t) == (clock - began[t]) \div Msec

(* (The two times are of no use any more.) *)
taskdelay_resume(t) ==
  /\ Running(t) /\ pc[t] = "delay"
  /\ pc' = [pc EXCEPT ![t] = "user"]
  /\ began' = [began EXCEPT ![t] = 0]
  /\ alarmtime' = [alarmtime EXCEPT ![t] = 0]
  /\ UNCHANGED <<schedvars, file, mode, left, countvars, loopvars, kernel, pollfd>>

(* Mutant: room for one entry more than there is. *)
fdwait_room(t, f, m, then) ==
  /\ startedfdtask' = TRUE
  /\ taskcount' = counted(taskcount)
  /\ \/ /\ Len(pollfd) > MAXFD
        /\ prog' = "aborted"
        /\ lists' = started(lists)
        /\ UNCHANGED <<taskrunning, pollfd, taskvars>>
     \/ /\ Len(pollfd) <= MAXFD
        /\ pollfd' = Append(pollfd, [task |-> t, fd |-> f, events |-> m, revents |-> FALSE])
        /\ lists' = started(lists)
        /\ taskswitch
        /\ pc' = [pc EXCEPT ![t] = then]
        /\ file' = [file EXCEPT ![t] = f]
        /\ mode' = [mode EXCEPT ![t] = m]
        /\ UNCHANGED <<prog, left>>
  /\ UNCHANGED <<timevars, system, sleepingcounted, loopvars, kernel>>

(* fdwait up to its taskswitch; the task goes on at `then'. *)
fdwait(t, f, m, then) ==
  /\ startedfdtask' = TRUE
  /\ taskcount' = counted(taskcount)
  /\ \/ /\ Len(pollfd) >= MAXFD
        /\ prog' = "aborted"
        /\ lists' = started(lists)
        /\ UNCHANGED <<taskrunning, pollfd, taskvars>>
     \/ /\ Len(pollfd) < MAXFD
        /\ pollfd' = Append(pollfd, [task |-> t, fd |-> f, events |-> m, revents |-> FALSE])
        /\ lists' = started(lists)
        /\ taskswitch
        /\ pc' = [pc EXCEPT ![t] = then]
        /\ file' = [file EXCEPT ![t] = f]
        /\ mode' = [mode EXCEPT ![t] = m]
        /\ UNCHANGED <<prog, left>>
  /\ UNCHANGED <<timevars, system, sleepingcounted, loopvars, kernel>>

(* The call returns to user code. *)
return(t) ==
  /\ pc' = [pc EXCEPT ![t] = "user"]
  /\ file' = [file EXCEPT ![t] = nil]
  /\ mode' = [mode EXCEPT ![t] = "e"]
  /\ left' = [left EXCEPT ![t] = 0]
  /\ UNCHANGED <<schedvars, timevars, countvars, loopvars, clock, pollfd>>

wait(t, f, m) == Call(t, "wait") /\ fdwait(t, f, m, "wait")

wait_resume(t) ==
  /\ Running(t) /\ pc[t] = "wait"
  /\ return(t)
  /\ UNCHANGED pending

fdread1(t, f) == Call(t, "read1") /\ fdwait(t, f, "r", "read")

(* fdread, from its call and from every return of its fdwait. *)
fdread(t, f) ==
  /\ Call(t, "read") \/ (Running(t) /\ pc[t] = "read" /\ file[t] = f)
  /\ \/ possible(f, "r") /\ consumed(f, "r") /\ return(t)
     \/ ~possible(f, "r") /\ fdwait(t, f, "r", "read")

(* fdwrite: its call, and one turn of its loop. *)
fdwrite(t, f, n) ==
  /\ Call(t, "write")
  /\ pc' = [pc EXCEPT ![t] = "write"]
  /\ file' = [file EXCEPT ![t] = f]
  /\ left' = [left EXCEPT ![t] = n]
  /\ UNCHANGED <<schedvars, mode, timevars, countvars, loopvars, kernel, pollfd>>

fdwrite_step(t, f) ==
  /\ Running(t) /\ pc[t] = "write" /\ file[t] = f
  /\ \/ possible(f, "w") /\ consumed(f, "w") /\ return(t)   \* all, none or an error
     \/ /\ possible(f, "w") /\ consumed(f, "w")
        /\ \E m \in 1..left[t] - 1 : left' = [left EXCEPT ![t] = @ - m]
        /\ UNCHANGED <<schedvars, pc, file, mode, timevars, countvars, loopvars, clock, pollfd>>
     \/ ~possible(f, "w") /\ fdwait(t, f, "w", "write")

(* What else a task does (task.c). *)
yield(t) ==
  /\ Call(t, "yield")
  /\ taskyield(t)
  /\ UNCHANGED <<taskvars, timevars, countvars, loopvars, kernel, pollfd>>

tasksystem(t) ==
  /\ Call(t, "system")
  /\ t \notin system
  /\ system' = system \cup {t}
  /\ taskcount' = taskcount - 1
  /\ UNCHANGED <<schedvars, taskvars, timevars, sleepingcounted, startedfdtask,
                 loopvars, kernel, pollfd>>

taskexit(t) ==
  /\ Call(t, "exit")
  /\ taskswitch
  /\ pc' = [pc EXCEPT ![t] = "gone"]
  /\ taskcount' = IF t \in system THEN taskcount ELSE taskcount - 1
  /\ UNCHANGED <<lists, prog, file, mode, left, timevars, system, sleepingcounted,
                 startedfdtask, loopvars, kernel, pollfd>>

-----------------------------------------------------------------------------
(* fdtask gives way, with the task lists as q leaves them. *)
giveway(q) ==
  /\ lists' = taskready(q, Fdtask)
  /\ taskswitch
  /\ pc' = [pc EXCEPT ![Fdtask] = "yield"]
  /\ others' = FALSE
  /\ until' = nil
  /\ i' = 1
  /\ hot' = {}
  /\ UNCHANGED <<prog, file, mode, left, timevars, startedfdtask, kernel>>

fdtask_start ==
  /\ Running(Fdtask) /\ pc[Fdtask] = "start"
  /\ system' = system \cup {Fdtask}
  /\ taskcount' = taskcount - 1
  /\ giveway(lists)
  /\ UNCHANGED <<sleepingcounted, pollfd>>

(* Others ran: they may still want to. *)
fdtask_yield ==
  /\ Running(Fdtask) /\ pc[Fdtask] = "yield"
  /\ others
  /\ giveway(lists)
  /\ UNCHANGED <<system, taskcount, sleepingcounted, pollfd>>

(* Mutant: the milliseconds are rounded up. *)
timeout_up(due) ==
  CASE clock >= due -> 0
    [] clock < due /\ clock + MaxWait * Msec >= due -> (due - clock + Msec - 1) \div Msec
    [] OTHER -> MaxWait

(* The timeout in milliseconds when the first sleeper is due at `due'. *)
timeout(due) ==
  CASE clock >= due -> 0
    [] clock < due /\ clock + MaxWait * Msec >= due -> (due - clock) \div Msec
    [] OTHER -> MaxWait

(* Mutant: fdtask polls although others are ready. *)
fdtask_poll_early ==
  /\ Running(Fdtask) /\ pc[Fdtask] = "yield"
  /\ until' = IF lists[Sleeping] = <<>> THEN nil
              ELSE clock + timeout(alarmtime[Head(lists[Sleeping])]) * Msec
  /\ pc' = [pc EXCEPT ![Fdtask] = "poll"]
  /\ UNCHANGED <<schedvars, file, mode, left, timevars, countvars, others, i, hot,
                 kernel, pollfd>>

(* Mutant: the sleepers are forgotten. *)
fdtask_poll_forever ==
  /\ Running(Fdtask) /\ pc[Fdtask] = "yield"
  /\ ~others
  /\ until' = nil
  /\ pc' = [pc EXCEPT ![Fdtask] = "poll"]
  /\ UNCHANGED <<schedvars, file, mode, left, timevars, countvars, others, i, hot,
                 kernel, pollfd>>

fdtask_poll ==
  /\ Running(Fdtask) /\ pc[Fdtask] = "yield"
  /\ ~others
  /\ until' = IF lists[Sleeping] = <<>> THEN nil
              ELSE clock + timeout(alarmtime[Head(lists[Sleeping])]) * Msec
  /\ pc' = [pc EXCEPT ![Fdtask] = "poll"]
  /\ UNCHANGED <<schedvars, file, mode, left, timevars, countvars, others, i, hot,
                 kernel, pollfd>>

Polling == Running(Fdtask) /\ pc[Fdtask] = "poll"

poll_return ==
  /\ Polling
  /\ \/ \E k \in DOMAIN pollfd : reported(pollfd[k])
     \/ until # nil /\ clock >= until
  /\ pollfd' = [k \in DOMAIN pollfd |-> [pollfd[k] EXCEPT !.revents = reported(pollfd[k])]]
  /\ hot' = {pollfd[k].task : k \in {j \in DOMAIN pollfd : reported(pollfd[j])}}
  /\ pc' = [pc EXCEPT ![Fdtask] = "scan"]
  /\ until' = nil
  /\ UNCHANGED <<schedvars, file, mode, left, timevars, countvars, others, i, kernel>>

poll_eintr ==
  /\ Polling
  /\ giveway(lists)
  /\ UNCHANGED <<system, taskcount, sleepingcounted, pollfd>>

poll_fails ==
  /\ Polling
  /\ prog' = "exited"
  /\ UNCHANGED <<lists, taskrunning, taskvars, timevars, countvars, loopvars, kernel, pollfd>>

Scanning == Running(Fdtask) /\ pc[Fdtask] = "scan"

(* Mutant: the last entry is dropped, not the one that was woken. *)
fdtask_wake_last ==
  /\ Scanning
  /\ i <= Len(pollfd) /\ pollfd[i].revents
  /\ lists' = taskready(lists, pollfd[i].task)
  /\ LET n == Len(pollfd)
     IN  pollfd' = SubSeq(pollfd, 1, n - 1)
  /\ UNCHANGED <<taskrunning, prog, taskvars, timevars, countvars, loopvars, kernel>>

(* Mutant: polltask is moved and pollfd is not. *)
fdtask_wake_task ==
  /\ Scanning
  /\ i <= Len(pollfd) /\ pollfd[i].revents
  /\ lists' = taskready(lists, pollfd[i].task)
  /\ LET n == Len(pollfd)
     IN  pollfd' = SubSeq([pollfd EXCEPT ![i].task = pollfd[n].task], 1, n - 1)
  /\ UNCHANGED <<taskrunning, prog, taskvars, timevars, countvars, loopvars, kernel>>

(* Mutant: the entry moved into place i is not looked at. *)
fdtask_wake_once ==
  /\ Scanning
  /\ i <= Len(pollfd) /\ pollfd[i].revents
  /\ lists' = taskready(lists, pollfd[i].task)
  /\ LET n == Len(pollfd)
     IN  pollfd' = SubSeq([pollfd EXCEPT ![i] = pollfd[n]], 1, n - 1)
  /\ i' = i + 1
  /\ UNCHANGED <<taskrunning, prog, taskvars, timevars, countvars, others, until, hot, kernel>>

(* Mutant: the entry goes, and its task is not made ready. *)
fdtask_wake_silent ==
  /\ Scanning
  /\ i <= Len(pollfd) /\ pollfd[i].revents
  /\ LET n == Len(pollfd)
     IN  pollfd' = SubSeq([pollfd EXCEPT ![i] = pollfd[n]], 1, n - 1)
  /\ UNCHANGED <<schedvars, taskvars, timevars, countvars, loopvars, kernel>>

(* One test of the loops over pollfd: the last entry replaces a woken one. *)
fdtask_wake ==
  /\ Scanning
  /\ i <= Len(pollfd) /\ pollfd[i].revents
  /\ lists' = taskready(lists, pollfd[i].task)
  /\ LET n == Len(pollfd)
     IN  pollfd' = SubSeq([pollfd EXCEPT ![i] = pollfd[n]], 1, n - 1)
  /\ UNCHANGED <<taskrunning, prog, taskvars, timevars, countvars, loopvars, kernel>>

fdtask_next ==
  /\ Scanning
  /\ i <= Len(pollfd) /\ ~pollfd[i].revents
  /\ i' = i + 1
  /\ UNCHANGED <<schedvars, taskvars, timevars, countvars, others, until, hot, kernel, pollfd>>

(* Mutant: times are compared in milliseconds. *)
duecount_ms ==
  LET s == lists[Sleeping]
  IN  CHOOSE k \in 0..Len(s) :
        /\ \A j \in 1..k : clock \div Msec >= alarmtime[s[j]] \div Msec
        /\ k < Len(s) => ~(clock \div Msec >= alarmtime[s[k + 1]] \div Msec)

(* How many tasks from the head of sleeping are due. *)
duecount ==
  LET s == lists[Sleeping]
  IN  CHOOSE k \in 0..Len(s) :
        /\ \A j \in 1..k : clock >= alarmtime[s[j]]
        /\ k < Len(s) => ~(clock >= alarmtime[s[k + 1]])

(* The due sleepers become ready, and fdtask gives way again. *)
fdtask_alarms ==
  LET s == lists[Sleeping]
      due == SubSeq(s, 1, duecount)
      n == Cardinality(Range(due) \ system)
  IN  /\ Scanning
      /\ i > Len(pollfd)
      /\ sleepingcounted' = sleepingcounted - n
      /\ taskcount' = IF n > 0 /\ sleepingcounted' = 0 THEN taskcount - 1 ELSE taskcount
      /\ giveway([lists EXCEPT ![Sleeping] = SubSeq(s, Len(due) + 1, Len(s)),
                               ![RunQ] = @ \o due])
      /\ UNCHANGED <<system, pollfd>>

fdtask ==
  \/ fdtask_start \/ fdtask_yield \/ fdtask_poll
  \/ poll_return \/ poll_eintr \/ poll_fails
  \/ fdtask_wake \/ fdtask_next \/ fdtask_alarms

UserStep(t) ==
  \/ \E ms \in Delay : taskdelay(t, ms)
  \/ taskdelay_resume(t)
  \/ \E f \in Fd, m \in Mode : wait(t, f, m)
  \/ wait_resume(t)
  \/ \E f \in Fd : fdread1(t, f) \/ fdread(t, f) \/ fdwrite_step(t, f)
  \/ \E f \in Fd, n \in 1..Count : fdwrite(t, f, n)
  \/ yield(t) \/ tasksystem(t) \/ taskexit(t)

Next ==
  \/ Tick \/ Event
  \/ schedule
  \/ fdtask
  \/ \E t \in User : UserStep(t)

Spec == Init /\ [][Next]_vars

(* The scheduler, the clock and the running task go on; a poll that has    *)
(* something to report is not interrupted by a signal every time.          *)
Fairness ==
  /\ WF_vars(Tick)
  /\ WF_vars(schedule)
  /\ \A t \in User : WF_vars(UserStep(t))
  /\ WF_vars(fdtask_start \/ fdtask_yield \/ fdtask_poll)
  /\ WF_vars(fdtask_wake \/ fdtask_next \/ fdtask_alarms)
  /\ SF_vars(poll_return)

FairSpec == Spec /\ Fairness

-----------------------------------------------------------------------------
(* The tasks that exist, and those that have an entry in polltask. *)
Alive == {t \in User : pc[t] # "gone"} \cup (IF startedfdtask THEN {Fdtask} ELSE {})
Polled == {pollfd[k].task : k \in DOMAIN pollfd}

(* taskcount, on which the end of the program depends, is the number of    *)
(* tasks that are not system tasks, and one more while any of them sleeps: *)
(* taskdelay and fdtask add and take away that one in different tasks.     *)
CountExact ==
  /\ sleepingcounted = Cardinality(On(lists, Sleeping) \ system)
  /\ taskcount = Cardinality(Alive \ system) + (IF sleepingcounted > 0 THEN 1 ELSE 0)

(* A task is in one place: it runs, or is ready, or sleeps, or is polled   *)
(* for, and no task is in none.                                            *)
OnePlace ==
  /\ Disjoint(lists)
  /\ taskrunning \notin Listed(lists) \cup Polled
  /\ Polled \cap Listed(lists) = {}
  /\ Len(pollfd) = Cardinality(Polled)
  /\ Alive = (Listed(lists) \cup Polled \cup {taskrunning}) \ {nil}

(* The task that fdtask wakes for an entry is the one that waits for it,   *)
(* for that descriptor and that event, wherever swaps have moved the entry.*)
EntriesExact ==
  \A k \in DOMAIN pollfd :
    LET p == pollfd[k]
    IN  /\ pc[p.task] \in {"wait", "read", "write", "accept", "dial"}
        /\ file[p.task] = p.fd /\ mode[p.task] = p.events

(* The whole process blocks in poll only when no task is ready: the number *)
(* taskyield returns to fdtask tells the truth about that.                 *)
PollOnlyWhenIdle == Polling => lists[RunQ] = <<>>

(* A poll never lasts beyond the first alarm, and is never endless while a *)
(* task sleeps, although its timeout is in truncated milliseconds.         *)
PollInTime ==
  Polling => \A t \in On(lists, Sleeping) : until # nil /\ (until <= alarmtime[t] \/ until <= clock)

(* The loop over pollfd, which shrinks the array while it goes through it, *)
(* wakes exactly the tasks whose event poll reported.                      *)
PollWakesExactly ==
  Scanning =>
    LET todo == {k \in DOMAIN pollfd : pollfd[k].revents}
    IN  /\ On(lists, RunQ) \cup {pollfd[k].task : k \in todo} = hot
        /\ i > Len(pollfd) => todo = {}

(* taskdelay (README:50) takes at least the milliseconds asked for, and    *)
(* reports so, whichever way fdtask was woken in between.                  *)
DelayLongEnough ==
  \A t \in User : Running(t) /\ pc[t] = "delay" =>
    slept(t) >= (alarmtime[t] - began[t]) \div Msec

(* Where fdtask is: a system task from its first step on, which runs while *)
(* it polls and scans, and leaves no mark in pollfd when it is done.       *)
Control ==
  /\ \A t \in Task : t = Fdtask <=> pc[t] \in {"start", "yield", "poll", "scan"}
  /\ Fdtask \in system <=> pc[Fdtask] # "start"
  /\ pc[Fdtask] # "start" => startedfdtask
  /\ pc[Fdtask] \in {"poll", "scan"} => taskrunning = Fdtask
  /\ i > 0
  /\ pc[Fdtask] # "scan" => i = 1
  /\ \A k \in DOMAIN pollfd : pollfd[k].revents => pc[Fdtask] = "scan" /\ k >= i

(* A yield that saw nobody run left fdtask at the end of the run queue,    *)
(* and finds the queue empty.                                              *)
Alone ==
  /\ pc[Fdtask] = "poll" => lists[RunQ] = <<>>
  /\ pc[Fdtask] = "yield" /\ ~others =>
       LET q == lists[RunQ]
       IN  \/ taskrunning = Fdtask /\ q = <<>>
           \/ taskrunning = nil /\ q # <<>> /\ q[Len(q)] = Fdtask

(* The list sleeping holds tasks in taskdelay, in the order of their       *)
(* times, and whoever left it has slept long enough.                       *)
Sleepers ==
  LET s == lists[Sleeping]
  IN  /\ \A j \in DOMAIN s : pc[s[j]] = "delay"
      /\ \A j, k \in DOMAIN s : j < k => alarmtime[s[j]] <= alarmtime[s[k]]
      /\ \A t \in User : pc[t] = "delay" =>
           /\ began[t] <= alarmtime[t]
           /\ t \in On(lists, Sleeping) \/ alarmtime[t] <= clock

(* The inductive invariant: what fdtask relies on in one turn of its loop  *)
(* is what the other tasks, whatever they call, leave behind.              *)
IInv ==
  /\ TypeOK /\ CountExact /\ OnePlace /\ EntriesExact
  /\ PollInTime /\ PollWakesExactly
  /\ Control /\ Alone /\ Sleepers

(* fdtask, which looks at the head of sleeping only, leaves no task asleep *)
(* whose time has come.                                                    *)
NoneOverslept ==
  [][fdtask_alarms => \A t \in On(lists', Sleeping) : clock < alarmtime[t]]_vars

(* taskdelay (README:156) ends. *)
DelayEnds ==
  \A t \in User : pc[t] = "delay" ~> (pc[t] # "delay" \/ prog # "running")

(* A task polled for whose descriptor stays ready gets to run: fdtask polls *)
(* again and again, whatever others wait for.                              *)
EventsDelivered ==
  \A t \in User, f \in Fd, m \in Mode :
    (t \in Polled /\ file[t] = f /\ mode[t] = m /\ possible(f, m))
      ~> (Running(t) \/ ~possible(f, m) \/ prog # "running")
=============================================================================
