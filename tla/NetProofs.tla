----------------------------- MODULE NetProofs ------------------------------
(***************************************************************************)
(* Proofs about Fd and Net, for any tasks, descriptors, delays and sizes.  *)
(* The first half shows that IInv is an inductive invariant of Fd: fdtask  *)
(* polls in time and only when nobody else can run, wakes exactly whom the *)
(* poll and the clock name, and the counts that end the program are right. *)
(* The second half does the same for the sockets of Net.                   *)
(***************************************************************************)
EXTENDS Net, TasklistLemmas

-----------------------------------------------------------------------------
(* Times and counts. *)

(* Milliseconds are truncated, never rounded up. *)
LEMMA Truncated ==
  ASSUME NEW M \in Nat \ {0}, NEW x \in Nat
  PROVE  x \div M \in Nat /\ (x \div M) * M <= x
OBVIOUS

LEMMA DivMonotone ==
  ASSUME NEW M \in Nat \ {0}, NEW x \in Nat, NEW y \in Nat, x <= y
  PROVE  x \div M <= y \div M
OBVIOUS

(* A search that starts below n and goes up ends somewhere. *)
LEMMA SearchEnds ==
  ASSUME NEW n \in Nat, NEW D \in SUBSET (0..n), 0 \in D
  PROVE  \E k \in D : k + 1 \notin D
<1> SUFFICES ASSUME \A k \in D : k + 1 \in D
             PROVE  FALSE
  OBVIOUS
<1> DEFINE f == [k \in D |-> k + 1]
<1>1. IsFiniteSet(D) /\ Cardinality(D) \in Nat
  <2>1. IsFiniteSet(0..n)
    BY FS_Interval
  <2> QED BY <2>1, FS_Subset, FS_CardinalityType
<1>2. f \in Injection(D, D \ {0})
  <2>1. f \in [D -> D \ {0}]
    OBVIOUS
  <2>2. \A j, k \in D : f[j] = f[k] => j = k
    OBVIOUS
  <2> QED BY <2>1, <2>2 DEF Injection, IsInjective
<1>3. IsFiniteSet(D \ {0}) /\ Cardinality(D \ {0}) = Cardinality(D) - 1
  BY <1>1, FS_RemoveElement
<1>4. Cardinality(D) <= Cardinality(D \ {0})
  BY <1>2, <1>3, FS_Injection
<1> QED BY <1>1, <1>3, <1>4

(* The arrays pollfd and polltask name no task twice exactly when they are *)
(* as long as there are tasks in them.                                     *)
LEMMA Once ==
  ASSUME NEW P \in Seq(Entry), NEW T, T = {P[k].task : k \in DOMAIN P}
  PROVE  Len(P) = Cardinality(T) <=> \A j, k \in DOMAIN P : P[j].task = P[k].task => j = k
<1> DEFINE n == Len(P)
           f == [k \in 1..n |-> P[k].task]
<1>1. n \in Nat /\ DOMAIN P = 1..n
  OBVIOUS
<1> HIDE DEF n
<1>2. f \in Surjection(1..n, T)
  <2>1. f \in [1..n -> T]
    BY <1>1
  <2>2. \A t \in T : \E k \in 1..n : f[k] = t
    BY <1>1
  <2> QED BY <2>1, <2>2 DEF Surjection
<1>3. IsFiniteSet(1..n) /\ Cardinality(1..n) = n
  BY <1>1, FS_Interval
<1>4. Cardinality(T) = n <=> f \in Injection(1..n, T)
  BY <1>2, <1>3, FS_Surjection
<1>5. f \in Injection(1..n, T) <=> \A j, k \in 1..n : f[j] = f[k] => j = k
  BY <1>2 DEF Injection, IsInjective, Surjection
<1>6. \A k \in 1..n : f[k] = P[k].task
  OBVIOUS
<1> HIDE DEF f
<1>7. f \in Injection(1..n, T) <=> \A j, k \in 1..n : P[j].task = P[k].task => j = k
  BY <1>5, <1>6
<1> QED BY <1>1, <1>4, <1>7 DEF n

-----------------------------------------------------------------------------
(* What a task may rely on when it runs. *)

USE TasklistAssumption, SchedAssumption, FdAssumption

(* The entries of pollfd are of user tasks that are inside a call. *)
LEMMA Entries ==
  ASSUME IInv
  PROVE  /\ pollfd \in Seq(Entry) /\ Len(pollfd) \in Nat /\ DOMAIN pollfd = 1..Len(pollfd)
         /\ \A k \in DOMAIN pollfd :
              /\ pollfd[k] \in Entry /\ pollfd[k].task \in User /\ pollfd[k].task \in Polled
              /\ pollfd[k].fd \in Fd /\ pollfd[k].events \in Mode
         /\ \A j, k \in DOMAIN pollfd : pollfd[j].task = pollfd[k].task => j = k
         /\ Polled \subseteq User
<1>1. pollfd \in Seq(Entry) /\ Len(pollfd) \in Nat /\ DOMAIN pollfd = 1..Len(pollfd)
  BY DEF IInv, TypeOK
<1>2. \A k \in DOMAIN pollfd : pollfd[k] \in Entry
  BY <1>1
<1>3. \A k \in DOMAIN pollfd : pollfd[k].task \in Task /\ pollfd[k].fd \in Fd /\ pollfd[k].events \in Mode
  BY <1>2 DEF Entry
<1>4. \A k \in DOMAIN pollfd : pollfd[k].task \in User
  BY <1>3 DEF IInv, EntriesExact, Control, User
<1>5. \A j, k \in DOMAIN pollfd : pollfd[j].task = pollfd[k].task => j = k
  BY <1>1, Once DEF IInv, OnePlace, Polled
<1> QED BY <1>1, <1>2, <1>3, <1>4, <1>5 DEF Polled

(* A user task that runs is nowhere else, and fdtask is not in its poll. *)
LEMMA Caller ==
  ASSUME IInv, NEW t \in User, Running(t)
  PROVE  /\ t \in Task /\ t # Fdtask /\ t # nil /\ taskrunning = t /\ prog = "running"
         /\ t \notin Listed(lists) /\ \A l \in List : t \notin On(lists, l)
         /\ t \notin Polled /\ \A k \in DOMAIN pollfd : pollfd[k].task # t
         /\ pc[t] # "gone" /\ pc[t] \notin {"start", "yield", "poll", "scan"}
         /\ pc[Fdtask] \in {"start", "yield"} /\ (pc[Fdtask] = "yield" => others)
         /\ i = 1 /\ \A k \in DOMAIN pollfd : ~pollfd[k].revents
<1>1. t \in Task /\ t # Fdtask /\ t # nil /\ taskrunning = t /\ prog = "running"
  BY DEF User, Running
<1>2. t \notin Listed(lists) /\ t \notin Polled
  BY <1>1 DEF IInv, OnePlace
<1>3. t \in Alive
  BY <1>1 DEF IInv, OnePlace
<1>4. pc[Fdtask] \in {"start", "yield"} /\ (pc[Fdtask] = "yield" => others)
  BY <1>1 DEF IInv, Control, Alone
<1> QED BY <1>1, <1>2, <1>3, <1>4, InListed DEF IInv, Control, Alive, Polled

-----------------------------------------------------------------------------
(* The clock and the descriptors, outside the process. *)

LEMMA TickKeeps ==
  ASSUME IInv, Tick
  PROVE  IInv'
<1>1. /\ clock \in Nat /\ clock' \in Nat /\ clock' = clock + 1 /\ clock' \in 0..Horizon
      /\ alarmtime \in [Task -> Nat] /\ Task # {}
  BY DEF IInv, TypeOK, Tick
<1> USE DEF Tick, schedvars, taskvars, timevars, countvars, loopvars
<1>2. TypeOK'
  BY <1>1 DEF IInv, TypeOK, SchedTypeOK
<1>3. CountExact' /\ OnePlace' /\ EntriesExact'
  BY DEF IInv, CountExact, Alive, OnePlace, Polled, EntriesExact
<1>4. PollWakesExactly' /\ Control' /\ Alone'
  BY DEF IInv, PollWakesExactly, Scanning, Running, Control, Alone
<1>5. PollInTime'
  <2>1. lists \in [List -> Seq(Task)]
    BY DEF IInv, TypeOK, SchedTypeOK
  <2>2. until \in Nat \cup {nil}
    BY DEF IInv, TypeOK
  <2>3. On(lists, Sleeping)' = On(lists, Sleeping)
    BY DEF On
  <2>4. Polling' <=> Polling
    BY DEF Polling, Running
  <2> QED BY <1>1, <2>1, <2>2, <2>3, <2>4, ListedAreTasks DEF IInv, PollInTime
<1>6. Sleepers'
  <2>1. On(lists, Sleeping)' = On(lists, Sleeping)
    BY DEF On
  <2>2. \A t \in User : alarmtime[t] \in Nat
    BY <1>1 DEF User
  <2> QED BY <1>1, <2>1, <2>2 DEF IInv, Sleepers
<1> QED BY <1>2, <1>3, <1>4, <1>5, <1>6 DEF IInv

(* Only the kernel's events change. *)
LEMMA EventKeeps ==
  ASSUME IInv, pending' \in SUBSET (Fd \X Mode),
         UNCHANGED <<schedvars, taskvars, timevars, countvars, loopvars, pollfd, clock>>
  PROVE  IInv'
<1> USE DEF schedvars, taskvars, timevars, countvars, loopvars
<1>1. TypeOK'
  BY DEF IInv, TypeOK, SchedTypeOK
<1>2. CountExact' /\ OnePlace' /\ EntriesExact'
  BY DEF IInv, CountExact, Alive, OnePlace, Polled, EntriesExact
<1>3. PollWakesExactly' /\ Control' /\ Alone'
  BY DEF IInv, PollWakesExactly, Scanning, Running, Control, Alone
<1>4. PollInTime' /\ Sleepers'
  BY DEF IInv, PollInTime, Polling, Running, Sleepers, On
<1> QED BY <1>1, <1>2, <1>3, <1>4 DEF IInv

(* The process ends; what it leaves behind does not change. *)
LEMMA EndKeeps ==
  ASSUME IInv, prog' \in {"stalled", "aborted", "exited"},
         UNCHANGED <<lists, taskrunning, taskvars, timevars, countvars, loopvars, pollfd, kernel>>
  PROVE  IInv'
<1> USE DEF taskvars, timevars, countvars, loopvars, kernel
<1>1. TypeOK'
  BY DEF IInv, TypeOK, SchedTypeOK
<1>2. CountExact' /\ OnePlace' /\ EntriesExact'
  BY DEF IInv, CountExact, Alive, OnePlace, Polled, EntriesExact
<1>3. PollWakesExactly' /\ PollInTime'
  BY DEF PollWakesExactly, Scanning, PollInTime, Polling, Running
<1>4. Control' /\ Alone' /\ Sleepers'
  BY DEF IInv, Control, Alone, Sleepers, On
<1> QED BY <1>1, <1>2, <1>3, <1>4 DEF IInv

-----------------------------------------------------------------------------
(* taskscheduler (task.c:225-260): the head of the run queue runs. *)
LEMMA DispatchKeeps ==
  ASSUME IInv, Dispatch, others' = (others \/ taskrunning' # Fdtask),
         UNCHANGED <<taskvars, timevars, countvars, until, i, hot, kernel, pollfd>>
  PROVE  IInv'
<1> DEFINE h == Head(lists[RunQ])
<1> USE DEF taskvars, timevars, countvars, kernel
<1>1. /\ lists \in [List -> Seq(Task)] /\ Disjoint(lists) /\ lists[RunQ] # <<>>
      /\ taskrunning = nil /\ prog = "running" /\ prog' = prog
      /\ taskrunning' = h /\ lists' = deltask(lists, RunQ)
      /\ RunQ \in List /\ Sleeping \in List /\ Sleeping # RunQ
  BY DEF IInv, TypeOK, SchedTypeOK, OnePlace, Dispatch, Running
<1>2. /\ h \in Task /\ h \in Listed(lists)
      /\ lists' \in [List -> Seq(Task)] /\ Disjoint(lists')
      /\ lists'[Sleeping] = lists[Sleeping] /\ On(lists', Sleeping) = On(lists, Sleeping)
      /\ Listed(lists') = Listed(lists) \ {h}
  BY <1>1, DelTask
<1>3. pc[Fdtask] \notin {"poll", "scan"} /\ pc' = pc
  BY <1>1 DEF IInv, Control
<1> HIDE DEF h
<1>4. TypeOK'
  BY <1>1, <1>2 DEF IInv, TypeOK, SchedTypeOK
<1>5. CountExact'
  BY <1>2 DEF IInv, CountExact, Alive
<1>6. OnePlace'
  BY <1>1, <1>2 DEF IInv, OnePlace, Alive, Polled
<1>7. EntriesExact' /\ PollInTime' /\ PollWakesExactly' /\ Sleepers'
  BY <1>2, <1>3 DEF IInv, EntriesExact, PollInTime, Polling, PollWakesExactly, Scanning, Sleepers
<1>8. Control'
  BY <1>3 DEF IInv, Control
<1>9. Alone'
  <2> SUFFICES ASSUME pc[Fdtask] = "yield", ~others'
               PROVE  taskrunning' = Fdtask /\ lists'[RunQ] = <<>>
    BY <1>3 DEF Alone
  <2> DEFINE q == lists[RunQ]
             n == Len(q)
  <2>1. ~others /\ h = Fdtask
    BY <1>1
  <2>2. q \in Seq(Task) /\ n \in Nat \ {0} /\ DOMAIN q = 1..n /\ q[1] = h /\ lists'[RunQ] = Tail(q)
    BY <1>1 DEF h, deltask
  <2>3. q[n] = Fdtask
    BY <1>1, <2>1 DEF IInv, Alone
  <2>4. n = 1
    BY <1>1, <2>1, <2>2, <2>3 DEF Disjoint
  <2>5. Tail(q) = <<>>
    <3> HIDE DEF q
    <3> QED BY <2>2, <2>4
  <2> QED BY <1>1, <2>1, <2>2, <2>5
<1> QED BY <1>4, <1>5, <1>6, <1>7, <1>8, <1>9 DEF IInv

LEMMA ScheduleKeeps ==
  ASSUME IInv, schedule
  PROVE  IInv'
<1>1. CASE prog' \in {"stalled", "exited"} /\ UNCHANGED <<lists, taskrunning, others>>
  BY <1>1, EndKeeps DEF schedule, loopvars
<1>2. CASE Dispatch /\ others' = (others \/ taskrunning' # Fdtask)
  BY <1>2, DispatchKeeps DEF schedule
<1> QED BY <1>1, <1>2 DEF schedule, Stall

-----------------------------------------------------------------------------
(* The running task goes on in its own code. *)

(* What a step of the running task t that does not switch may change. *)
Local(t) ==
  /\ UNCHANGED <<schedvars, countvars, loopvars, clock, pollfd>>
  /\ pending' \in SUBSET (Fd \X Mode)
  /\ pc' = [pc EXCEPT ![t] = pc'[t]]
  /\ pc'[t] \in {"user", "wait", "read", "write", "accept", "dial"}
  /\ file' = [file EXCEPT ![t] = file'[t]] /\ file'[t] \in Fd \cup {nil}
  /\ mode' = [mode EXCEPT ![t] = mode'[t]] /\ mode'[t] \in Mode
  /\ left' = [left EXCEPT ![t] = left'[t]] /\ left'[t] \in 0..Count
  /\ alarmtime' = [alarmtime EXCEPT ![t] = alarmtime'[t]] /\ alarmtime'[t] \in Nat
  /\ began' = [began EXCEPT ![t] = began'[t]] /\ began'[t] \in Nat

LEMMA LocalKeeps ==
  ASSUME IInv, NEW t \in User, Running(t), Local(t)
  PROVE  IInv'
<1>0. /\ UNCHANGED <<lists, taskrunning, prog, system, taskcount, sleepingcounted, startedfdtask>>
      /\ UNCHANGED <<others, until, i, hot, clock, pollfd>>
  BY DEF Local, schedvars, countvars, loopvars
<1>1. /\ t \in Task /\ t # Fdtask /\ t \notin On(lists, Sleeping) /\ pc[t] # "gone"
      /\ \A k \in DOMAIN pollfd : pollfd[k].task # t
  BY Caller
<1>2. /\ pc \in [Task -> {"start", "yield", "poll", "scan", "user", "delay", "wait",
                          "read", "write", "accept", "dial", "gone"}]
      /\ file \in [Task -> Fd \cup {nil}] /\ mode \in [Task -> Mode] /\ left \in [Task -> 0..Count]
      /\ alarmtime \in [Task -> Nat] /\ began \in [Task -> Nat]
      /\ lists \in [List -> Seq(Task)]
  BY DEF IInv, TypeOK, SchedTypeOK
<1>3. TypeOK'
  <2>1. /\ file' \in [Task -> Fd \cup {nil}] /\ mode' \in [Task -> Mode] /\ left' \in [Task -> 0..Count]
        /\ alarmtime' \in [Task -> Nat] /\ began' \in [Task -> Nat]
    BY <1>2 DEF Local
  <2>2. pc' \in [Task -> {"start", "yield", "poll", "scan", "user", "delay", "wait",
                          "read", "write", "accept", "dial", "gone"}]
    BY <1>2 DEF Local
  <2>3. pending' \subseteq Fd \X Mode
    BY DEF Local
  <2> QED BY <1>0, <2>1, <2>2, <2>3 DEF IInv, TypeOK, SchedTypeOK
<1>4. \A u \in Task \ {t} : /\ pc'[u] = pc[u] /\ file'[u] = file[u] /\ mode'[u] = mode[u]
                            /\ alarmtime'[u] = alarmtime[u] /\ began'[u] = began[u]
  BY <1>2 DEF Local
<1>5. pc'[t] \in {"user", "wait", "read", "write", "accept", "dial"}
  BY DEF Local
<1>6. Alive' = Alive
  BY <1>0, <1>1, <1>4, <1>5 DEF Alive, User
<1>7. CountExact' /\ OnePlace'
  BY <1>0, <1>6 DEF IInv, CountExact, OnePlace, Polled, On
<1>8. EntriesExact'
  BY <1>0, <1>1, <1>4, Entries DEF IInv, EntriesExact, User
<1>9. Control'
  BY <1>0, <1>1, <1>4, <1>5 DEF IInv, Control
<1>10. Alone' /\ PollInTime' /\ PollWakesExactly'
  BY <1>0, <1>1, <1>4, Caller DEF IInv, Alone, PollInTime, Polling, PollWakesExactly, Scanning, Running
<1>11. Sleepers'
  <2>1. \A j \in DOMAIN lists[Sleeping] : lists[Sleeping][j] \in Task \ {t}
    BY <1>1, <1>2, InOn
  <2>2. On(lists, Sleeping)' = On(lists, Sleeping)
    BY <1>0 DEF On
  <2> QED BY <1>0, <1>1, <1>4, <1>5, <2>1, <2>2 DEF IInv, Sleepers, User
<1> QED BY <1>3, <1>7, <1>8, <1>9, <1>10, <1>11 DEF IInv

(* taskdelay returns (fd.c:139), a call returns, fdwrite starts, and       *)
(* fdwrite wrote a part (fd.c:212-222).                                    *)
LEMMA LocalSteps ==
  ASSUME IInv, NEW t \in User, Running(t),
         \/ taskdelay_resume(t)
         \/ return(t) /\ pending' \in SUBSET (Fd \X Mode)
         \/ \E f \in Fd, n \in 1..Count : fdwrite(t, f, n)
         \/ /\ pc[t] = "write" /\ pending' \in SUBSET (Fd \X Mode)
            /\ \E n \in 1..left[t] - 1 : left' = [left EXCEPT ![t] = @ - n]
            /\ UNCHANGED <<schedvars, pc, file, mode, timevars, countvars, loopvars, clock, pollfd>>
  PROVE  IInv'
<1>1. /\ pc \in [Task -> {"start", "yield", "poll", "scan", "user", "delay", "wait",
                          "read", "write", "accept", "dial", "gone"}]
      /\ file \in [Task -> Fd \cup {nil}] /\ mode \in [Task -> Mode] /\ left \in [Task -> 0..Count]
      /\ alarmtime \in [Task -> Nat] /\ began \in [Task -> Nat]
      /\ pending \in SUBSET (Fd \X Mode)
      /\ t \in Task
  BY DEF IInv, TypeOK, User
<1>2. /\ pc = [pc EXCEPT ![t] = pc[t]]
      /\ file = [file EXCEPT ![t] = file[t]] /\ file[t] \in Fd \cup {nil}
      /\ mode = [mode EXCEPT ![t] = mode[t]] /\ mode[t] \in Mode
      /\ left = [left EXCEPT ![t] = left[t]] /\ left[t] \in 0..Count
      /\ alarmtime = [alarmtime EXCEPT ![t] = alarmtime[t]] /\ alarmtime[t] \in Nat
      /\ began = [began EXCEPT ![t] = began[t]] /\ began[t] \in Nat
  BY <1>1
<1>3. CASE taskdelay_resume(t)
  <2>1. /\ UNCHANGED <<schedvars, countvars, loopvars, clock, pollfd, pending, file, mode, left>>
        /\ pc' = [pc EXCEPT ![t] = "user"] /\ pc'[t] = "user"
        /\ began' = [began EXCEPT ![t] = 0] /\ began'[t] = 0
        /\ alarmtime' = [alarmtime EXCEPT ![t] = 0] /\ alarmtime'[t] = 0
    BY <1>1, <1>3 DEF taskdelay_resume, kernel
  <2>2. Local(t)
    BY <1>1, <1>2, <2>1 DEF Local
  <2> QED BY <2>2, LocalKeeps
<1>4. CASE return(t) /\ pending' \in SUBSET (Fd \X Mode)
  <2>1. /\ UNCHANGED <<schedvars, countvars, loopvars, clock, pollfd, alarmtime, began>>
        /\ pc' = [pc EXCEPT ![t] = "user"] /\ pc'[t] = "user"
        /\ file' = [file EXCEPT ![t] = nil] /\ file'[t] = nil
        /\ mode' = [mode EXCEPT ![t] = "e"] /\ mode'[t] = "e"
        /\ left' = [left EXCEPT ![t] = 0] /\ left'[t] = 0 /\ 0 \in 0..Count
    BY <1>1, <1>4 DEF return, timevars
  <2>2. Local(t)
    BY <1>2, <1>4, <2>1 DEF Local, Mode
  <2> QED BY <2>2, LocalKeeps
<1>5. ASSUME NEW f \in Fd, NEW n \in 1..Count, fdwrite(t, f, n)
      PROVE  IInv'
  <2>1. /\ UNCHANGED <<schedvars, countvars, loopvars, clock, pollfd, pending, alarmtime, began, mode>>
        /\ pc' = [pc EXCEPT ![t] = "write"] /\ pc'[t] = "write"
        /\ file' = [file EXCEPT ![t] = f] /\ file'[t] = f
        /\ left' = [left EXCEPT ![t] = n] /\ left'[t] = n /\ n \in 0..Count
    BY <1>1, <1>5 DEF fdwrite, timevars, kernel
  <2>2. Local(t)
    BY <1>1, <1>2, <2>1 DEF Local
  <2> QED BY <2>2, LocalKeeps
<1>6. CASE /\ pc[t] = "write" /\ pending' \in SUBSET (Fd \X Mode)
           /\ \E n \in 1..left[t] - 1 : left' = [left EXCEPT ![t] = @ - n]
           /\ UNCHANGED <<schedvars, pc, file, mode, timevars, countvars, loopvars, clock, pollfd>>
  <2>1. PICK n \in 1..left[t] - 1 : left' = [left EXCEPT ![t] = @ - n]
    BY <1>6
  <2>2. left' = [left EXCEPT ![t] = left'[t]] /\ left'[t] \in 0..Count
    BY <1>1, <1>2, <2>1
  <2>3. Local(t)
    BY <1>2, <1>6, <2>2 DEF Local, timevars
  <2> QED BY <2>3, LocalKeeps
<1> QED BY <1>3, <1>4, <1>5, <1>6

-----------------------------------------------------------------------------
(* The running task gives way or exits (task.c). *)

(* The tasks that exist are finitely many, and the running one is among    *)
(* them.                                                                   *)
LEMMA Living ==
  ASSUME IInv
  PROVE  /\ Alive \subseteq Task /\ IsFiniteSet(Alive \ system)
         /\ Cardinality(Alive \ system) \in Nat
         /\ taskrunning # nil => taskrunning \in Alive
<1>1. Alive \subseteq Task
  BY DEF Alive, User
<1>2. Alive \ system \in SUBSET Task
  BY <1>1
<1> QED BY <1>1, <1>2, FS_Subset, FS_CardinalityType DEF IInv, OnePlace

LEMMA YieldKeeps ==
  ASSUME IInv, NEW t \in User, yield(t)
  PROVE  IInv'
<1> USE DEF taskvars, timevars, countvars, loopvars, kernel
<1>1. Running(t) /\ taskrunning' = nil /\ prog' = prog /\ lists' = taskready(lists, t)
  BY DEF yield, taskyield, taskswitch
<1>2. /\ lists \in [List -> Seq(Task)] /\ Disjoint(lists)
      /\ RunQ \in List /\ Sleeping \in List /\ Sleeping # RunQ
  BY DEF IInv, TypeOK, SchedTypeOK, OnePlace
<1>3. /\ t \in Task /\ t \notin Listed(lists) /\ t \notin Polled /\ t # nil /\ taskrunning = t
      /\ pc[Fdtask] \in {"start", "yield"} /\ (pc[Fdtask] = "yield" => others)
  BY <1>1, Caller
<1>4. /\ lists' \in [List -> Seq(Task)] /\ Disjoint(lists')
      /\ lists'[Sleeping] = lists[Sleeping] /\ On(lists', Sleeping) = On(lists, Sleeping)
      /\ Listed(lists') = Listed(lists) \cup {t}
  BY <1>1, <1>2, <1>3, AddTask DEF taskready
<1> USE DEF yield
<1>5. TypeOK'
  BY <1>1, <1>4 DEF IInv, TypeOK, SchedTypeOK
<1>6. CountExact'
  BY <1>4 DEF IInv, CountExact, Alive
<1>7. OnePlace'
  <2>1. Alive' = Alive /\ Polled' = Polled /\ pollfd' = pollfd
    BY DEF Alive, Polled
  <2>2. nil \notin Listed(lists') \cup Polled
    BY <1>3, <1>4, ListedAreTasks, Entries DEF User
  <2> QED BY <1>1, <1>3, <1>4, <2>1, <2>2 DEF IInv, OnePlace
<1>8. EntriesExact' /\ PollInTime' /\ PollWakesExactly' /\ Alone' /\ Control'
  BY <1>1, <1>3 DEF IInv, EntriesExact, PollInTime, Polling, PollWakesExactly, Scanning, Running,
                    Alone, Control
<1>9. Sleepers'
  BY <1>4 DEF IInv, Sleepers
<1> QED BY <1>5, <1>6, <1>7, <1>8, <1>9 DEF IInv

LEMMA SystemKeeps ==
  ASSUME IInv, NEW t \in User, tasksystem(t)
  PROVE  IInv'
<1> USE DEF tasksystem, schedvars, taskvars, timevars, loopvars, kernel
<1>1. Running(t) /\ t \notin system /\ system' = system \cup {t} /\ taskcount' = taskcount - 1
  BY DEF Call
<1>2. t \in Task /\ t \in Alive /\ t \notin On(lists, Sleeping) /\ t # Fdtask
  BY <1>1, Caller, Living DEF Running
<1>3. TypeOK'
  BY <1>1, <1>2, SMTT(30) DEF IInv, TypeOK, SchedTypeOK
<1>4. CountExact'
  <2>0. IsFiniteSet(Alive \ system)
    BY Living
  <2>1. Alive' = Alive /\ (On(lists, Sleeping) \ system)' = On(lists, Sleeping) \ system
    BY <1>1, <1>2 DEF Alive, On
  <2>2. (Alive \ system)' = (Alive \ system) \ {t} /\ t \in Alive \ system
    BY <1>1, <1>2, <2>1
  <2>3. Cardinality((Alive \ system)') = Cardinality(Alive \ system) - 1
    <3>1. Cardinality((Alive \ system) \ {t}) = Cardinality(Alive \ system) - 1
      BY ONLY <2>2, <2>0, FS_RemoveElement
    <3> QED BY <2>2, <3>1
  <2>4. sleepingcounted' = sleepingcounted /\ Cardinality(Alive \ system) \in Nat
    BY Living
  <2>5. taskcount = Cardinality(Alive \ system) + (IF sleepingcounted > 0 THEN 1 ELSE 0)
    BY DEF IInv, CountExact
  <2>6. taskcount' = Cardinality((Alive \ system)') + (IF sleepingcounted' > 0 THEN 1 ELSE 0)
    BY <1>1, <2>3, <2>4, <2>5
  <2> QED BY <2>1, <2>4, <2>6 DEF IInv, CountExact
<1>5. OnePlace' /\ EntriesExact' /\ PollInTime' /\ PollWakesExactly'
  BY DEF IInv, OnePlace, Alive, Polled, EntriesExact, PollInTime, Polling, PollWakesExactly, Scanning,
         Running, On
<1>6. Control'
  BY <1>1, <1>2 DEF IInv, Control
<1>7. Alone' /\ Sleepers'
  BY DEF IInv, Alone, Sleepers, On
<1> QED BY <1>3, <1>4, <1>5, <1>6, <1>7 DEF IInv

LEMMA ExitKeeps ==
  ASSUME IInv, NEW t \in User, taskexit(t)
  PROVE  IInv'
<1> USE DEF taskexit, timevars, loopvars, kernel
<1>1. /\ Running(t) /\ taskrunning' = nil /\ pc' = [pc EXCEPT ![t] = "gone"]
      /\ taskcount' = IF t \in system THEN taskcount ELSE taskcount - 1
  BY DEF Call, taskswitch
<1>2. /\ t \in Task /\ t \in Alive /\ \A l \in List : t \notin On(lists, l)
      /\ t # Fdtask /\ taskrunning = t /\ t # nil
      /\ t \notin Listed(lists) /\ t \notin Polled
      /\ \A k \in DOMAIN pollfd : pollfd[k].task # t
      /\ pc[Fdtask] \in {"start", "yield"} /\ (pc[Fdtask] = "yield" => others)
  BY <1>1, Caller, Living
<1>3. pc \in [Task -> {"start", "yield", "poll", "scan", "user", "delay", "wait",
                       "read", "write", "accept", "dial", "gone"}]
      /\ lists \in [List -> Seq(Task)] /\ Sleeping \in List
  BY DEF IInv, TypeOK, SchedTypeOK
<1>4. pc'[t] = "gone" /\ \A u \in Task \ {t} : pc'[u] = pc[u]
  BY <1>1, <1>2, <1>3
<1>5. TypeOK'
  <2>1. pc' \in [Task -> {"start", "yield", "poll", "scan", "user", "delay", "wait",
                          "read", "write", "accept", "dial", "gone"}]
    BY <1>1, <1>3
  <2>2. taskcount' \in Int
    BY <1>1 DEF IInv, TypeOK
  <2>3. taskrunning' \in Task \cup {nil}
    BY <1>1
  <2> HIDE DEF taskexit
  <2>4. UNCHANGED <<lists, prog, file, mode, left, alarmtime, began, system, sleepingcounted,
                    startedfdtask, others, until, i, hot, clock, pending, pollfd>>
    BY DEF taskexit
  <2> QED BY <2>1, <2>2, <2>3, <2>4 DEF IInv, TypeOK, SchedTypeOK
<1>6. Alive' = Alive \ {t}
  BY <1>2, <1>4 DEF Alive, User
<1>7. CountExact'
  <2>0. IsFiniteSet(Alive \ system)
    BY Living
  <2>1. (On(lists, Sleeping) \ system)' = On(lists, Sleeping) \ system
    BY DEF On
  <2>2. (Alive \ system)' = (Alive \ system) \ {t} /\ (t \in Alive \ system <=> t \notin system)
    BY <1>2, <1>6
  <2>3. Cardinality((Alive \ system)') = IF t \in system THEN Cardinality(Alive \ system)
                                         ELSE Cardinality(Alive \ system) - 1
    <3>1. Cardinality((Alive \ system) \ {t}) = IF t \in Alive \ system
                                                THEN Cardinality(Alive \ system) - 1
                                                ELSE Cardinality(Alive \ system)
      BY ONLY <2>0, FS_RemoveElement
    <3> QED BY <2>2, <3>1
  <2>4. sleepingcounted' = sleepingcounted /\ Cardinality(Alive \ system) \in Nat
    BY Living
  <2>5. taskcount = Cardinality(Alive \ system) + (IF sleepingcounted > 0 THEN 1 ELSE 0)
    BY DEF IInv, CountExact
  <2>6. taskcount' = Cardinality((Alive \ system)') + (IF sleepingcounted' > 0 THEN 1 ELSE 0)
    BY <1>1, <2>3, <2>4, <2>5
  <2> QED BY <2>1, <2>4, <2>6 DEF IInv, CountExact
<1>8. OnePlace'
  <2>1. nil \notin Listed(lists) \cup Polled
    BY <1>3, ListedAreTasks, Entries DEF User
  <2> QED BY <1>1, <1>2, <1>6, <2>1 DEF IInv, OnePlace, Polled
<1>9. EntriesExact'
  BY <1>2, <1>4, Entries DEF IInv, EntriesExact, User
<1>10. PollInTime' /\ PollWakesExactly' /\ Alone' /\ Control'
  BY <1>1, <1>2, <1>4 DEF IInv, PollInTime, Polling, PollWakesExactly, Scanning, Running, Alone, Control
<1>11. Sleepers'
  <2>1. \A j \in DOMAIN lists[Sleeping] : lists[Sleeping][j] \in Task \ {t}
    BY <1>2, <1>3, InOn
  <2>2. On(lists, Sleeping)' = On(lists, Sleeping)
    BY DEF On
  <2> QED BY <1>4, <2>1, <2>2 DEF IInv, Sleepers, User
<1> QED BY <1>5, <1>7, <1>8, <1>9, <1>10, <1>11 DEF IInv

-----------------------------------------------------------------------------
(* The calls that need fdtask create it if nobody has (fd.c:92-95, 147-152). *)
LEMMA Started ==
  ASSUME IInv, NEW t \in User, Running(t), NEW q, q = started(lists)
  PROVE  /\ q \in [List -> Seq(Task)] /\ Disjoint(q)
         /\ Listed(q) = Listed(lists) \cup {Fdtask}
         /\ t \notin Listed(q) /\ nil \notin Listed(q) /\ Polled \cap Listed(q) = {}
         /\ q[Sleeping] = lists[Sleeping] /\ On(q, Sleeping) = On(lists, Sleeping)
         /\ IsFiniteSet((Alive \cup {Fdtask}) \ system)
         /\ counted(taskcount) = Cardinality((Alive \cup {Fdtask}) \ system)
                                   + (IF sleepingcounted > 0 THEN 1 ELSE 0)
<1> DEFINE A == Alive \ system
<1>1. /\ t \in Task /\ t # Fdtask /\ t # nil /\ taskrunning = t /\ t \notin Listed(lists)
      /\ Fdtask \in Task /\ Polled \subseteq User /\ Fdtask \notin Polled /\ nil \notin Polled
  BY Caller, Entries DEF User
<1>2. /\ lists \in [List -> Seq(Task)] /\ Disjoint(lists) /\ Polled \cap Listed(lists) = {}
      /\ Alive = (Listed(lists) \cup Polled \cup {t}) \ {nil}
      /\ RunQ \in List /\ Sleeping \in List /\ Sleeping # RunQ
      /\ nil \notin Listed(lists)
  <2>1. lists \in [List -> Seq(Task)]
    BY DEF IInv, TypeOK, SchedTypeOK
  <2>2. nil \notin Listed(lists)
    BY <2>1, ListedAreTasks
  <2> QED BY <1>1, <2>1, <2>2 DEF IInv, OnePlace
<1>3. /\ IsFiniteSet(A) /\ Cardinality(A) \in Nat
      /\ taskcount = Cardinality(A) + (IF sleepingcounted > 0 THEN 1 ELSE 0)
  BY Living DEF IInv, CountExact
<1> HIDE DEF A
<1>4. CASE startedfdtask
  <2>1. q = lists /\ counted(taskcount) = taskcount
    BY <1>4 DEF started, counted
  <2>2. Fdtask \in Alive
    BY <1>4 DEF Alive
  <2>3. Fdtask \in Listed(lists)
    BY <1>1, <1>2, <2>2
  <2>4. (Alive \cup {Fdtask}) \ system = A
    BY <2>2 DEF A
  <2> QED BY <1>1, <1>2, <1>3, <2>1, <2>3, <2>4
<1>5. CASE ~startedfdtask
  <2>1. q = addtask(lists, RunQ, Fdtask) /\ counted(taskcount) = taskcount + 1
    BY <1>5 DEF started, counted, taskready
  <2>2. Fdtask \notin Alive
    BY <1>5 DEF Alive, User
  <2>3. Fdtask \notin Listed(lists)
    BY <1>1, <1>2, <2>2
  <2>4. Fdtask \notin system
    BY <1>5 DEF IInv, Control
  <2>5. (Alive \cup {Fdtask}) \ system = A \cup {Fdtask} /\ Fdtask \notin A
    BY <2>2, <2>4 DEF A
  <2>6. IsFiniteSet(A \cup {Fdtask}) /\ Cardinality(A \cup {Fdtask}) = Cardinality(A) + 1
    BY ONLY <1>3, <2>5, FS_AddElement
  <2>7. counted(taskcount) = Cardinality(A \cup {Fdtask}) + (IF sleepingcounted > 0 THEN 1 ELSE 0)
    BY <1>3, <2>1, <2>6
  <2>8. /\ q \in [List -> Seq(Task)] /\ Disjoint(q)
        /\ Listed(q) = Listed(lists) \cup {Fdtask}
        /\ q[Sleeping] = lists[Sleeping] /\ On(q, Sleeping) = On(lists, Sleeping)
    BY <1>1, <1>2, <2>1, <2>3, AddTask, SMTT(30)
  <2> QED BY <1>1, <1>2, <2>5, <2>6, <2>7, <2>8, ZenonT(30)
<1> QED BY <1>4, <1>5

(* fdwait (fd.c:143-185), from any call of a running task. *)
LEMMA WaitKeeps ==
  ASSUME IInv, NEW t \in User, Running(t), NEW f \in Fd, NEW m \in Mode,
         NEW then \in {"wait", "read", "write", "accept", "dial"}, fdwait(t, f, m, then)
  PROVE  IInv'
<1> DEFINE n == Len(pollfd)
           new == [task |-> t, fd |-> f, events |-> m, revents |-> FALSE]
           cnt == IF sleepingcounted > 0 THEN 1 ELSE 0
<1>1. /\ startedfdtask' = TRUE /\ taskcount' = counted(taskcount) /\ lists' = started(lists)
      /\ UNCHANGED <<alarmtime, began, system, sleepingcounted, others, until, i, hot, clock, pending>>
      /\ left' = left
  BY DEF fdwait, timevars, loopvars, kernel, taskvars
<1>2. /\ t \in Task /\ t # Fdtask /\ t # nil /\ taskrunning = t /\ t \notin Polled
      /\ \A k \in DOMAIN pollfd : pollfd[k].task # t
      /\ pc[t] # "gone" /\ pc[Fdtask] \in {"start", "yield"} /\ (pc[Fdtask] = "yield" => others)
      /\ i = 1 /\ \A k \in DOMAIN pollfd : ~pollfd[k].revents
  BY Caller
<1>3. /\ lists' \in [List -> Seq(Task)] /\ Disjoint(lists')
      /\ Listed(lists') = Listed(lists) \cup {Fdtask}
      /\ t \notin Listed(lists') /\ nil \notin Listed(lists') /\ Polled \cap Listed(lists') = {}
      /\ lists'[Sleeping] = lists[Sleeping] /\ On(lists', Sleeping) = On(lists, Sleeping)
      /\ taskcount' = Cardinality((Alive \cup {Fdtask}) \ system) + cnt
  BY <1>1, Started
<1>4. /\ pc \in [Task -> {"start", "yield", "poll", "scan", "user", "delay", "wait",
                          "read", "write", "accept", "dial", "gone"}]
      /\ file \in [Task -> Fd \cup {nil}] /\ mode \in [Task -> Mode]
      /\ lists \in [List -> Seq(Task)] /\ Sleeping \in List
  BY DEF IInv, TypeOK, SchedTypeOK
<1>5. /\ Alive = (Listed(lists) \cup Polled \cup {t}) \ {nil}
      /\ Fdtask \in Task /\ nil \notin Polled /\ Cardinality((Alive \cup {Fdtask}) \ system) \in Nat
  <2>1. IsFiniteSet((Alive \cup {Fdtask}) \ system)
    BY Started
  <2> QED BY <1>2, <2>1, Entries, FS_CardinalityType DEF IInv, OnePlace, User
<1>6. CASE prog' = "aborted" /\ UNCHANGED <<taskrunning, pollfd, taskvars>>
  <2> USE <1>6 DEF taskvars
  <2>1. TypeOK'
    <3>1. taskcount' \in Int
      BY <1>3, <1>5
    <3> HIDE <1>6
    <3>2. /\ UNCHANGED <<taskrunning, pc, file, mode, pollfd>>
          /\ prog' \in {"running", "stalled", "aborted", "exited"}
      BY <1>6
    <3> QED BY <1>1, <1>3, <3>1, <3>2 DEF IInv, TypeOK, SchedTypeOK
  <2>2. Alive' = Alive \cup {Fdtask} /\ Polled' = Polled
    BY <1>1 DEF Alive, Polled
  <2>3. CountExact'
    BY <1>1, <1>3, <2>2 DEF IInv, CountExact
  <2>4. OnePlace'
    BY <1>2, <1>3, <1>5, <2>2 DEF IInv, OnePlace
  <2>5. EntriesExact' /\ PollInTime' /\ PollWakesExactly' /\ Control' /\ Alone' /\ Sleepers'
    BY <1>1, <1>2, <1>3 DEF IInv, EntriesExact, PollInTime, Polling, PollWakesExactly, Scanning, Running,
                            Control, Alone, Sleepers
  <2> QED BY <2>1, <2>3, <2>4, <2>5 DEF IInv
<1>7. CASE /\ n < MAXFD /\ pollfd' = Append(pollfd, new) /\ taskrunning' = nil /\ prog' = prog
           /\ pc' = [pc EXCEPT ![t] = then]
           /\ file' = [file EXCEPT ![t] = f] /\ mode' = [mode EXCEPT ![t] = m]
  <2>1. /\ pc'[t] = then /\ file'[t] = f /\ mode'[t] = m
        /\ \A u \in Task \ {t} : pc'[u] = pc[u] /\ file'[u] = file[u] /\ mode'[u] = mode[u]
    BY <1>2, <1>4, <1>7
  <2>2. /\ pollfd \in Seq(Entry) /\ n \in Nat /\ DOMAIN pollfd = 1..n /\ new \in Entry
        /\ \A k \in 1..n : pollfd[k].task \in User
        /\ \A j, k \in 1..n : pollfd[j].task = pollfd[k].task => j = k
        /\ new.task = t /\ new.fd = f /\ new.events = m /\ ~new.revents
    BY <1>2, Entries DEF Entry
  <2> HIDE DEF n, new
  <2>3. /\ pollfd' \in Seq(Entry) /\ Len(pollfd') = n + 1 /\ DOMAIN pollfd' = 1..n + 1
        /\ pollfd'[n + 1] = new /\ \A k \in 1..n : pollfd'[k] = pollfd[k]
    BY <1>7, <2>2 DEF n
  <2>4. 1..n + 1 = (1..n) \cup {n + 1} /\ n + 1 \notin 1..n
    BY <2>2
  <2>5. TypeOK'
    <3>1. /\ pc' \in [Task -> {"start", "yield", "poll", "scan", "user", "delay", "wait",
                               "read", "write", "accept", "dial", "gone"}]
          /\ file' \in [Task -> Fd \cup {nil}] /\ mode' \in [Task -> Mode]
      BY <1>2, <1>4, <1>7
    <3>2. Len(pollfd') <= MAXFD
      BY <1>7, <2>2, <2>3
    <3>3. taskcount' \in Int
      BY <1>3, <1>5
    <3>4. taskrunning' \in Task \cup {nil} /\ prog' = prog
      BY <1>7
    <3> QED BY <1>1, <1>3, <2>3, <3>1, <3>2, <3>3, <3>4 DEF IInv, TypeOK, SchedTypeOK
  <2>6. Alive' = Alive \cup {Fdtask}
    BY <1>1, <1>2, <2>1 DEF Alive, User
  <2>7. Polled' = Polled \cup {t}
    <3>1. \A u : u \in Polled' <=> \E k \in 1..n + 1 : pollfd'[k].task = u
      BY <2>3 DEF Polled
    <3>2. \A u : u \in Polled <=> \E k \in 1..n : pollfd[k].task = u
      BY <2>2 DEF Polled
    <3> QED BY <2>2, <2>3, <2>4, <3>1, <3>2
  <2>8. CountExact'
    BY <1>1, <1>3, <2>6 DEF IInv, CountExact
  <2>9. OnePlace'
    <3>1. \A j, k \in DOMAIN pollfd' : pollfd'[j].task = pollfd'[k].task => j = k
      BY <1>2, <2>2, <2>3, <2>4
    <3>2. Len(pollfd') = Cardinality(Polled')
      BY <2>3, <3>1, Once DEF Polled
    <3>3. Polled' \cap Listed(lists') = {} /\ nil \notin Listed(lists') \cup Polled'
      BY <1>2, <1>3, <1>5, <2>7
    <3>4. Alive' = (Listed(lists') \cup Polled' \cup {nil}) \ {nil}
      BY <1>2, <1>3, <1>5, <2>6, <2>7
    <3> QED BY <1>3, <1>7, <3>2, <3>3, <3>4 DEF OnePlace
  <2>10. EntriesExact'
    <3>1. ASSUME NEW k \in 1..n + 1
          PROVE  /\ pc'[pollfd'[k].task] \in {"wait", "read", "write", "accept", "dial"}
                 /\ file'[pollfd'[k].task] = pollfd'[k].fd /\ mode'[pollfd'[k].task] = pollfd'[k].events
      <4>1. CASE k = n + 1
        BY <2>1, <2>2, <2>3, <4>1
      <4>2. CASE k # n + 1
        <5>1. k \in 1..n /\ pollfd'[k] = pollfd[k] /\ pollfd[k].task \in Task \ {t}
          BY <1>2, <2>2, <2>3, <2>4, <4>2 DEF User
        <5> QED BY <2>1, <2>2, <5>1 DEF IInv, EntriesExact
      <4> QED BY <4>1, <4>2
    <3> QED BY <2>3, <3>1 DEF EntriesExact
  <2>11. Control'
    <3>1. \A k \in DOMAIN pollfd' : ~pollfd'[k].revents
      BY <1>2, <2>2, <2>3, <2>4
    <3> QED BY <1>1, <1>2, <2>1, <3>1 DEF IInv, Control
  <2>12. PollInTime' /\ PollWakesExactly' /\ Alone'
    BY <1>1, <1>2, <2>1 DEF PollInTime, Polling, PollWakesExactly, Scanning, Alone
  <2>13. Sleepers'
    <3>1. \A j \in DOMAIN lists[Sleeping] : lists[Sleeping][j] \in Task \ {t}
      <4>1. t \notin On(lists, Sleeping)
        BY Caller
      <4> QED BY <1>4, <4>1, InOn
    <3>2. \A j \in DOMAIN lists'[Sleeping] : pc'[lists'[Sleeping][j]] = "delay"
      <4>1. \A j \in DOMAIN lists[Sleeping] : pc[lists[Sleeping][j]] = "delay"
        BY Zenon DEF IInv, Sleepers
      <4>2. \A j \in DOMAIN lists[Sleeping] : pc'[lists[Sleeping][j]] = pc[lists[Sleeping][j]]
        BY <2>1, <3>1, Zenon
      <4>3. lists'[Sleeping] = lists[Sleeping]
        BY <1>3
      <4> QED BY <4>1, <4>2, <4>3, Zenon
    <3>3. \A u \in User : pc'[u] = "delay" => u # t /\ pc[u] = "delay"
      BY <2>1 DEF User
    <3> QED BY <1>1, <1>3, <3>2, <3>3 DEF IInv, Sleepers
  <2> QED BY <2>5, <2>8, <2>9, <2>10, <2>11, <2>12, <2>13 DEF IInv
<1> QED BY <1>6, <1>7 DEF fdwait, taskswitch

-----------------------------------------------------------------------------
(* taskdelay (fd.c:86-141). *)

(* The loop over the list sleeping finds a place. *)
LEMMA InsertPlace ==
  ASSUME NEW q, NEW s \in Seq(Task), q[Sleeping] = s, alarmtime \in [Task -> Nat],
         NEW t, NEW when \in Nat
  PROVE  \E k \in 0..Len(s) :
           /\ Inserted(q, insert(q, t, when), Sleeping, t, k)
           /\ \A j \in 1..k : alarmtime[s[j]] < when
           /\ k < Len(s) => ~(alarmtime[s[k + 1]] < when)
<1> DEFINE n == Len(s)
           D == {k \in 0..n : \A j \in 1..k : alarmtime[s[j]] < when}
           P(k) == /\ \A j \in 1..k : alarmtime[s[j]] < when
                   /\ k < n => ~(alarmtime[s[k + 1]] < when)
           c == CHOOSE k \in 0..n : P(k)
<1>1. n \in Nat
  OBVIOUS
<1>2. \E k \in 0..n : P(k)
  <2>1. 0 \in D /\ D \in SUBSET (0..n)
    BY <1>1
  <2>2. PICK k \in D : k + 1 \notin D
    <3> HIDE DEF D, n
    <3> QED BY <1>1, <2>1, SearchEnds
  <2>3. ASSUME k < n
        PROVE  ~(alarmtime[s[k + 1]] < when)
    <3>1. k + 1 \in 0..n /\ \A j \in 1..k + 1 : j \in 1..k \/ j = k + 1
      BY <1>1, <2>3
    <3> QED BY <2>2, <3>1
  <2> QED BY <2>2, <2>3
<1>3. c \in 0..n /\ P(c)
  <2> HIDE DEF P, n
  <2> QED BY <1>2
<1>4. insert(q, t, when) = [q EXCEPT ![Sleeping] = SubSeq(s, 1, c) \o <<t>> \o SubSeq(s, c + 1, n)]
  BY DEF insert
<1> HIDE DEF c
<1>5. Inserted(q, insert(q, t, when), Sleeping, t, c)
  BY <1>4 DEF Inserted
<1> QED BY <1>3, <1>5

LEMMA DelayKeeps ==
  ASSUME IInv, NEW t \in User, NEW ms \in Delay, taskdelay(t, ms)
  PROVE  IInv'
<1> DEFINE when == clock + ms * Msec
           q == started(lists)
           s == lists[Sleeping]
           n == Len(s)
<1>1. /\ Running(t) /\ pc[t] = "user" /\ taskrunning' = nil /\ prog' = prog
      /\ lists' = insert(q, t, when)
      /\ began' = [began EXCEPT ![t] = clock] /\ alarmtime' = [alarmtime EXCEPT ![t] = when]
      /\ startedfdtask' = TRUE
      /\ sleepingcounted' = IF t \in system THEN sleepingcounted ELSE sleepingcounted + 1
      /\ taskcount' = IF t \notin system /\ sleepingcounted = 0
                      THEN counted(taskcount) + 1 ELSE counted(taskcount)
      /\ pc' = [pc EXCEPT ![t] = "delay"]
      /\ UNCHANGED <<file, mode, left, system, others, until, i, hot, clock, pending, pollfd>>
  BY DEF taskdelay, Call, taskswitch, loopvars, kernel
<1>2. /\ t \in Task /\ t # Fdtask /\ t # nil /\ taskrunning = t /\ t \notin Polled
      /\ \A k \in DOMAIN pollfd : pollfd[k].task # t
      /\ pc[Fdtask] \in {"start", "yield"} /\ (pc[Fdtask] = "yield" => others)
      /\ t \notin On(lists, Sleeping)
  BY <1>1, Caller
<1>3. /\ pc \in [Task -> {"start", "yield", "poll", "scan", "user", "delay", "wait",
                          "read", "write", "accept", "dial", "gone"}]
      /\ alarmtime \in [Task -> Nat] /\ began \in [Task -> Nat] /\ clock \in Nat
      /\ lists \in [List -> Seq(Task)] /\ Sleeping \in List
      /\ s \in Seq(Task) /\ n \in Nat /\ DOMAIN s = 1..n
      /\ sleepingcounted \in Int
  BY DEF IInv, TypeOK, SchedTypeOK
<1>4. when \in Nat /\ clock <= when
  <2>1. PICK x \in Nat : x = ms * Msec
    <3>1. ms \in Nat /\ Msec \in Nat
      OBVIOUS
    <3>2. \A a, b \in Nat : a * b \in Nat
      OBVIOUS
    <3> QED BY <3>1, <3>2
  <2>2. when = clock + x
    BY <2>1
  <2> HIDE DEF when
  <2> QED BY <1>3, <2>2
<1>5. /\ q \in [List -> Seq(Task)] /\ Disjoint(q)
      /\ Listed(q) = Listed(lists) \cup {Fdtask}
      /\ t \notin Listed(q) /\ nil \notin Listed(q) /\ Polled \cap Listed(q) = {}
      /\ q[Sleeping] = s /\ On(q, Sleeping) = On(lists, Sleeping)
      /\ IsFiniteSet((Alive \cup {Fdtask}) \ system)
      /\ counted(taskcount) = Cardinality((Alive \cup {Fdtask}) \ system)
                                + (IF sleepingcounted > 0 THEN 1 ELSE 0)
  BY <1>1, Started
<1> HIDE DEF when, q, s, n
<1>6. PICK k \in 0..n : /\ Inserted(q, lists', Sleeping, t, k)
                        /\ \A j \in 1..k : alarmtime[s[j]] < when
                        /\ k < n => ~(alarmtime[s[k + 1]] < when)
  BY <1>1, <1>3, <1>4, <1>5, InsertPlace DEF n
<1>7. /\ lists' \in [List -> Seq(Task)] /\ Disjoint(lists')
      /\ On(lists', Sleeping) = On(lists, Sleeping) \cup {t}
      /\ Listed(lists') = Listed(lists) \cup {Fdtask, t}
      /\ Len(lists'[Sleeping]) = n + 1
      /\ \A j \in 1..n + 1 :
           \/ j <= k /\ j \in 1..n /\ lists'[Sleeping][j] = s[j]
           \/ j = k + 1 /\ lists'[Sleeping][j] = t
           \/ j > k + 1 /\ j - 1 \in 1..n /\ lists'[Sleeping][j] = s[j - 1]
  <2>1. k \in 0..Len(q[Sleeping])
    BY <1>5 DEF n
  <2>2. /\ lists' \in [List -> Seq(Task)] /\ Disjoint(lists')
        /\ On(lists', Sleeping) = On(q, Sleeping) \cup {t}
        /\ Listed(lists') = Listed(q) \cup {t}
        /\ Len(lists'[Sleeping]) = Len(q[Sleeping]) + 1
        /\ \A j \in 1..Len(q[Sleeping]) + 1 :
             \/ j <= k /\ j \in 1..Len(q[Sleeping]) /\ lists'[Sleeping][j] = q[Sleeping][j]
             \/ j = k + 1 /\ lists'[Sleeping][j] = t
             \/ j > k + 1 /\ j - 1 \in 1..Len(q[Sleeping]) /\ lists'[Sleeping][j] = q[Sleeping][j - 1]
    <3>1. Inserted(q, lists', Sleeping, t, k)
      BY <1>6
    <3>2. q \in [List -> Seq(Task)] /\ Sleeping \in List /\ t \in Task /\ Disjoint(q) /\ t \notin Listed(q)
      BY <1>2, <1>3, <1>5
    <3> QED BY ONLY <2>1, <3>1, <3>2, InsertAt, SMTT(30)
  <2>3. q[Sleeping] = s /\ Len(q[Sleeping]) = n
    BY <1>5 DEF n
  <2> QED BY <1>5, <2>2, <2>3
<1>8. /\ pc'[t] = "delay" /\ \A u \in Task \ {t} : pc'[u] = pc[u]
      /\ alarmtime'[t] = when /\ \A u \in Task \ {t} : alarmtime'[u] = alarmtime[u]
      /\ began'[t] = clock /\ \A u \in Task \ {t} : began'[u] = began[u]
  BY <1>1, <1>2, <1>3
<1>9. Alive' = Alive \cup {Fdtask}
  <2>1. pc[t] # "gone"
    BY <1>1
  <2> QED BY <1>1, <1>2, <1>8, <2>1 DEF Alive, User
<1>10. CountExact'
  <2> DEFINE S == On(lists, Sleeping) \ system
             A == (Alive \cup {Fdtask}) \ system
  <2>1. IsFiniteSet(On(lists, Sleeping))
    BY <1>3, ListLength DEF IInv, OnePlace
  <2>2. IsFiniteSet(S) /\ sleepingcounted = Cardinality(S) /\ t \notin S
    <3>1. S \in SUBSET On(lists, Sleeping)
      OBVIOUS
    <3> QED BY <1>2, <2>1, <3>1, FS_Subset DEF IInv, CountExact
  <2>3. (On(lists, Sleeping) \ system)' = IF t \in system THEN S ELSE S \cup {t}
    BY <1>1, <1>7
  <2>4. (Alive \ system)' = A
    BY <1>1, <1>9
  <2>5. Cardinality(A) \in Nat /\ Cardinality(S) \in Nat
    BY <1>5, <2>2, FS_CardinalityType
  <2> HIDE DEF S, A
  <2>6. Cardinality(S \cup {t}) = Cardinality(S) + 1
    BY ONLY <2>2, FS_AddElement
  <2>7. sleepingcounted' = Cardinality((On(lists, Sleeping) \ system)')
    BY <1>1, <2>2, <2>3, <2>6
  <2>8. taskcount' = Cardinality(A) + (IF sleepingcounted' > 0 THEN 1 ELSE 0)
    <3>1. counted(taskcount) = Cardinality(A) + (IF sleepingcounted > 0 THEN 1 ELSE 0)
      BY <1>5 DEF A
    <3>2. sleepingcounted \in Nat
      BY <2>2, <2>5
    <3> QED BY <1>1, <2>5, <3>1, <3>2
  <2> QED BY <2>4, <2>7, <2>8 DEF CountExact
<1>11. TypeOK'
  <2>1. /\ pc' \in [Task -> {"start", "yield", "poll", "scan", "user", "delay", "wait",
                             "read", "write", "accept", "dial", "gone"}]
        /\ alarmtime' \in [Task -> Nat] /\ began' \in [Task -> Nat]
    BY <1>1, <1>2, <1>3, <1>4
  <2>2. sleepingcounted' \in Int
    BY <1>1, <1>3
  <2>3. taskcount' \in Int
    <3>1. Cardinality((Alive \cup {Fdtask}) \ system) \in Nat
      BY <1>5, FS_CardinalityType
    <3>2. counted(taskcount) \in Int
      BY <1>5, <3>1
    <3> QED BY <1>1, <3>2
  <2>4. taskrunning' \in Task \cup {nil} /\ startedfdtask' \in BOOLEAN
    BY <1>1
  <2> QED BY <1>1, <1>7, <2>1, <2>2, <2>3, <2>4 DEF IInv, TypeOK, SchedTypeOK
<1>12. OnePlace'
  <2>1. Alive = (Listed(lists) \cup Polled \cup {t}) \ {nil} /\ Len(pollfd) = Cardinality(Polled)
    BY <1>2 DEF IInv, OnePlace
  <2>2. Polled' = Polled /\ nil \notin Polled
    BY <1>1, Entries DEF Polled, User
  <2>3. Polled' \cap Listed(lists') = {} /\ nil \notin Listed(lists') \cup Polled'
    BY <1>2, <1>5, <1>7, <2>2
  <2>4. Alive' = (Listed(lists') \cup Polled' \cup {nil}) \ {nil}
    BY <1>2, <1>7, <1>9, <2>1, <2>2
  <2> QED BY <1>1, <1>7, <2>1, <2>2, <2>3, <2>4 DEF OnePlace
<1>13. EntriesExact'
  BY <1>1, <1>2, <1>8, Entries DEF IInv, EntriesExact, User
<1>14. Control'
  BY <1>1, <1>2, <1>8 DEF IInv, Control
<1>15. PollInTime' /\ PollWakesExactly' /\ Alone'
  BY <1>1, <1>2, <1>8 DEF PollInTime, Polling, PollWakesExactly, Scanning, Alone
<1>16. Sleepers'
  <2> DEFINE p == lists'[Sleeping]
  <2>1. DOMAIN p = 1..n + 1
    BY <1>3, <1>7
  <2>2. /\ \A j \in 1..n : /\ s[j] \in Task \ {t} /\ pc[s[j]] = "delay"
                           /\ alarmtime[s[j]] \in Nat /\ alarmtime'[s[j]] = alarmtime[s[j]]
        /\ \A j, h \in 1..n : j < h => alarmtime[s[j]] <= alarmtime[s[h]]
    <3>1. \A j \in 1..n : s[j] \in Task \ {t}
      <4>1. \A j \in 1..n : s[j] \in Task
        BY <1>3
      <4>2. \A j \in 1..n : s[j] # t
        BY <1>2, <1>3, InOn DEF s
      <4> QED BY <4>1, <4>2
    <3>2. \A j \in 1..n : pc[s[j]] = "delay"
      BY <1>3 DEF IInv, Sleepers, s
    <3>3. \A j, h \in 1..n : j < h => alarmtime[s[j]] <= alarmtime[s[h]]
      BY <1>3 DEF IInv, Sleepers, s
    <3> QED BY <1>3, <1>8, <3>1, <3>2, <3>3
  <2>3. \A j \in 1..n : (j <= k => alarmtime[s[j]] <= when) /\ (j > k => when <= alarmtime[s[j]])
    <3>1. ASSUME NEW j \in 1..n, j <= k
          PROVE  alarmtime[s[j]] <= when
      BY <1>3, <1>4, <1>6, <2>2, <3>1
    <3>2. ASSUME NEW j \in 1..n, j > k
          PROVE  when <= alarmtime[s[j]]
      <4>1. k < n /\ k + 1 \in 1..n /\ (j = k + 1 \/ k + 1 < j)
        BY <1>3, <3>2
      <4>2. when <= alarmtime[s[k + 1]]
        BY <1>4, <1>6, <2>2, <4>1
      <4>3. alarmtime[s[k + 1]] <= alarmtime[s[j]]
        BY <2>2, <4>1
      <4> QED BY <1>4, <2>2, <4>1, <4>2, <4>3
    <3> QED BY <3>1, <3>2
  <2> HIDE DEF p
  <2>4. ASSUME NEW j \in 1..n + 1
        PROVE  pc'[p[j]] = "delay"
    BY <1>7, <1>8, <2>2 DEF p
  <2>5. ASSUME NEW j \in 1..n + 1, NEW h \in 1..n + 1, j < h
        PROVE  alarmtime'[p[j]] <= alarmtime'[p[h]]
    <3>1. \/ j <= k /\ j \in 1..n /\ p[j] = s[j]
          \/ j = k + 1 /\ p[j] = t
          \/ j > k + 1 /\ j - 1 \in 1..n /\ p[j] = s[j - 1]
      BY <1>7 DEF p
    <3>2. \/ h <= k /\ h \in 1..n /\ p[h] = s[h]
          \/ h = k + 1 /\ p[h] = t
          \/ h > k + 1 /\ h - 1 \in 1..n /\ p[h] = s[h - 1]
      BY <1>7 DEF p
    <3>3. CASE j <= k /\ j \in 1..n /\ p[j] = s[j]
      <4>1. CASE h <= k /\ h \in 1..n /\ p[h] = s[h]
        BY <2>2, <2>5, <3>3, <4>1
      <4>2. CASE h = k + 1 /\ p[h] = t
        BY <1>8, <2>2, <2>3, <3>3, <4>2
      <4>3. CASE h > k + 1 /\ h - 1 \in 1..n /\ p[h] = s[h - 1]
        <5>1. j < h - 1
          BY <1>3, <3>3, <4>3
        <5> QED BY <2>2, <3>3, <4>3, <5>1
      <4> QED BY <3>2, <4>1, <4>2, <4>3
    <3>4. CASE j = k + 1 /\ p[j] = t
      <4>1. h > k + 1 /\ h - 1 \in 1..n /\ p[h] = s[h - 1] /\ h - 1 > k
        BY <1>3, <2>5, <3>2, <3>4
      <4> QED BY <1>8, <2>2, <2>3, <3>4, <4>1
    <3>5. CASE j > k + 1 /\ j - 1 \in 1..n /\ p[j] = s[j - 1]
      <4>1. h > k + 1 /\ h - 1 \in 1..n /\ p[h] = s[h - 1] /\ j - 1 < h - 1
        BY <1>3, <2>5, <3>2, <3>5
      <4> QED BY <2>2, <3>5, <4>1
    <3> QED BY <3>1, <3>3, <3>4, <3>5
  <2>6. ASSUME NEW u \in User, pc'[u] = "delay"
        PROVE  /\ began'[u] <= alarmtime'[u]
               /\ u \in On(lists', Sleeping) \/ alarmtime'[u] <= clock'
    <3>1. CASE u = t
      BY <1>4, <1>7, <1>8, <3>1
    <3>2. CASE u # t
      <4>1. /\ u \in Task \ {t} /\ pc[u] = "delay" /\ clock' = clock
            /\ began'[u] = began[u] /\ alarmtime'[u] = alarmtime[u]
        BY <1>1, <1>8, <2>6, <3>2 DEF User
      <4>2. began[u] <= alarmtime[u] /\ (u \in On(lists, Sleeping) \/ alarmtime[u] <= clock)
        BY <4>1 DEF IInv, Sleepers
      <4> QED BY <1>7, <4>1, <4>2
    <3> QED BY <3>1, <3>2
  <2> QED BY <2>1, <2>4, <2>5, <2>6 DEF Sleepers, p
<1> QED BY <1>10, <1>11, <1>12, <1>13, <1>14, <1>15, <1>16 DEF IInv

-----------------------------------------------------------------------------
(* fdtask gives way (fd.c:25-28, 80-82), from three places of its loop. *)

(* fdtask runs: it was started, and is nowhere else. *)
LEMMA FdtaskRuns ==
  ASSUME IInv, Running(Fdtask)
  PROVE  /\ Fdtask \in Task /\ Fdtask # nil /\ taskrunning = Fdtask /\ prog = "running"
         /\ startedfdtask /\ Fdtask \in Alive
         /\ Fdtask \notin Listed(lists) /\ Fdtask \notin Polled /\ nil \notin Polled /\ nil \notin Listed(lists)
         /\ Polled \cap Listed(lists) = {} /\ Len(pollfd) = Cardinality(Polled)
         /\ Alive = Listed(lists) \cup Polled \cup {Fdtask}
         /\ lists \in [List -> Seq(Task)] /\ Disjoint(lists)
         /\ RunQ \in List /\ Sleeping \in List /\ Sleeping # RunQ
         /\ pc \in [Task -> {"start", "yield", "poll", "scan", "user", "delay", "wait",
                             "read", "write", "accept", "dial", "gone"}]
<1>1. /\ Fdtask \in Task /\ Fdtask # nil /\ taskrunning = Fdtask /\ prog = "running"
      /\ RunQ \in List /\ Sleeping \in List /\ Sleeping # RunQ
  BY DEF Running
<1>2. /\ lists \in [List -> Seq(Task)]
      /\ pc \in [Task -> {"start", "yield", "poll", "scan", "user", "delay", "wait",
                          "read", "write", "accept", "dial", "gone"}]
  BY DEF IInv, TypeOK, SchedTypeOK
<1>3. nil \notin Listed(lists) /\ nil \notin Polled
  BY <1>2, ListedAreTasks, Entries DEF User
<1>4. /\ Disjoint(lists) /\ Fdtask \notin Listed(lists) /\ Fdtask \notin Polled
      /\ Polled \cap Listed(lists) = {} /\ Len(pollfd) = Cardinality(Polled)
      /\ Alive = Listed(lists) \cup Polled \cup {Fdtask}
  BY <1>1, <1>3 DEF IInv, OnePlace
<1>5. startedfdtask
  BY <1>4 DEF Alive, User
<1> QED BY <1>1, <1>2, <1>3, <1>4, <1>5

(* What the tasks find when fdtask gave way. *)
LEMMA GaveWay ==
  ASSUME IInv, Running(Fdtask), NEW q \in [List -> Seq(Task)], Disjoint(q), Listed(q) = Listed(lists),
         giveway(q)
  PROVE  /\ Alive' = Alive
         /\ lists' \in [List -> Seq(Task)] /\ Disjoint(lists')
         /\ Listed(lists') = Listed(lists) \cup {Fdtask}
         /\ lists'[Sleeping] = q[Sleeping] /\ On(lists', Sleeping) = On(q, Sleeping)
         /\ lists'[RunQ] # <<>> /\ lists'[RunQ][Len(lists'[RunQ])] = Fdtask
         /\ pc'[Fdtask] = "yield" /\ \A u \in Task \ {Fdtask} : pc'[u] = pc[u]
<1>1. /\ Fdtask \in Task /\ Fdtask \notin Listed(q) /\ startedfdtask
      /\ RunQ \in List /\ Sleeping \in List /\ Sleeping # RunQ
      /\ pc \in [Task -> {"start", "yield", "poll", "scan", "user", "delay", "wait",
                          "read", "write", "accept", "dial", "gone"}]
  BY FdtaskRuns
<1>2. /\ lists' = addtask(q, RunQ, Fdtask) /\ pc' = [pc EXCEPT ![Fdtask] = "yield"]
      /\ startedfdtask' = startedfdtask
  BY DEF giveway, taskready
<1>3. /\ lists' \in [List -> Seq(Task)] /\ Disjoint(lists')
      /\ Listed(lists') = Listed(lists) \cup {Fdtask}
      /\ lists'[Sleeping] = q[Sleeping] /\ On(lists', Sleeping) = On(q, Sleeping)
      /\ lists'[RunQ] # <<>>
  <2>1. q \in [List -> Seq(Task)] /\ Disjoint(q) /\ Listed(q) = Listed(lists)
    OBVIOUS
  <2> QED BY ONLY <1>1, <1>2, <2>1, AddTask
<1>4. lists'[RunQ][Len(lists'[RunQ])] = Fdtask
  <2>1. q[RunQ] \in Seq(Task) /\ lists'[RunQ] = Append(q[RunQ], Fdtask)
    BY <1>1, <1>2 DEF addtask
  <2> QED BY <1>1, <2>1
<1>5. pc'[Fdtask] = "yield" /\ \A u \in Task \ {Fdtask} : pc'[u] = pc[u]
  BY <1>1, <1>2
<1>6. Alive' = Alive
  BY <1>1, <1>2, <1>5 DEF Alive, User
<1> QED BY <1>3, <1>4, <1>5, <1>6

(* The counts and the sleepers are what differs between the three. *)
LEMMA GiveWayKeeps ==
  ASSUME IInv, Running(Fdtask), NEW q \in [List -> Seq(Task)], Disjoint(q), Listed(q) = Listed(lists),
         giveway(q), pollfd' = pollfd, system' = system \cup {Fdtask},
         \A k \in DOMAIN pollfd : ~pollfd[k].revents,
         taskcount' \in Int, sleepingcounted' \in Int, CountExact', Sleepers'
  PROVE  IInv'
<1>1. /\ Alive' = Alive
      /\ lists' \in [List -> Seq(Task)] /\ Disjoint(lists')
      /\ Listed(lists') = Listed(lists) \cup {Fdtask}
      /\ lists'[RunQ] # <<>> /\ lists'[RunQ][Len(lists'[RunQ])] = Fdtask
      /\ pc'[Fdtask] = "yield" /\ \A u \in Task \ {Fdtask} : pc'[u] = pc[u]
  BY GaveWay
<1>2. /\ taskrunning' = nil /\ pc' = [pc EXCEPT ![Fdtask] = "yield"]
      /\ others' = FALSE /\ until' = nil /\ i' = 1 /\ hot' = {}
      /\ UNCHANGED <<prog, file, mode, left, alarmtime, began, startedfdtask, clock, pending>>
  BY DEF giveway, taskswitch, timevars, kernel
<1>3. /\ Fdtask \in Task /\ startedfdtask
      /\ Fdtask \notin Listed(lists) /\ Fdtask \notin Polled /\ nil \notin Polled /\ nil \notin Listed(lists)
      /\ Polled \cap Listed(lists) = {} /\ Len(pollfd) = Cardinality(Polled)
      /\ Alive = Listed(lists) \cup Polled \cup {Fdtask} /\ Fdtask # nil
      /\ pc \in [Task -> {"start", "yield", "poll", "scan", "user", "delay", "wait",
                          "read", "write", "accept", "dial", "gone"}]
  BY FdtaskRuns
<1>4. TypeOK'
  <2>1. pc' \in [Task -> {"start", "yield", "poll", "scan", "user", "delay", "wait",
                          "read", "write", "accept", "dial", "gone"}]
    BY <1>2, <1>3
  <2>2. system' \subseteq Task
    BY <1>3 DEF IInv, TypeOK
  <2>3. taskrunning' \in Task \cup {nil} /\ hot' \subseteq Task /\ until' \in Nat \cup {nil}
        /\ i' \in Nat /\ others' \in BOOLEAN
    BY <1>2
  <2> QED BY <1>1, <1>2, <2>1, <2>2, <2>3 DEF IInv, TypeOK, SchedTypeOK
<1>5. OnePlace'
  <2>1. Polled' = Polled
    BY DEF Polled
  <2> QED BY <1>1, <1>2, <1>3, <2>1 DEF OnePlace
<1>6. EntriesExact'
  <2>1. \A k \in DOMAIN pollfd : pollfd[k].task \in Task \ {Fdtask}
    BY Entries DEF User
  <2> QED BY <1>1, <1>2, <2>1 DEF IInv, EntriesExact
<1>7. PollInTime' /\ PollWakesExactly' /\ Alone'
  BY <1>1, <1>2 DEF PollInTime, Polling, PollWakesExactly, Scanning, Alone
<1>8. Control'
  BY <1>1, <1>2, <1>3 DEF IInv, Control
<1> QED BY <1>4, <1>5, <1>6, <1>7, <1>8 DEF IInv

(* The sleepers stay where they are. *)
LEMMA StillAsleep ==
  ASSUME IInv, Running(Fdtask), giveway(lists)
  PROVE  Sleepers'
<1>1. /\ lists \in [List -> Seq(Task)] /\ Disjoint(lists) /\ Sleeping \in List /\ Fdtask \in Task
      /\ Fdtask \notin On(lists, Sleeping)
  BY FdtaskRuns, InListed
<1>2. /\ lists'[Sleeping] = lists[Sleeping] /\ On(lists', Sleeping) = On(lists, Sleeping)
      /\ \A u \in Task \ {Fdtask} : pc'[u] = pc[u]
  BY <1>1, GaveWay
<1>3. UNCHANGED <<alarmtime, began, clock>>
  BY DEF giveway, timevars, kernel
<1>4. \A j \in DOMAIN lists[Sleeping] : lists[Sleeping][j] \in Task \ {Fdtask}
  <2>1. \A j \in DOMAIN lists[Sleeping] : lists[Sleeping][j] # Fdtask
    BY <1>1, InOn
  <2> QED BY <1>1, <2>1
<1> QED BY <1>2, <1>3, <1>4 DEF IInv, Sleepers, User

LEMMA StartKeeps ==
  ASSUME IInv, fdtask_start
  PROVE  IInv'
<1>1. /\ Running(Fdtask) /\ pc[Fdtask] = "start" /\ giveway(lists)
      /\ system' = system \cup {Fdtask} /\ taskcount' = taskcount - 1
      /\ sleepingcounted' = sleepingcounted /\ pollfd' = pollfd
  BY DEF fdtask_start
<1>2. /\ lists \in [List -> Seq(Task)] /\ Disjoint(lists) /\ Fdtask \in Alive /\ Fdtask \notin On(lists, Sleeping)
      /\ Fdtask \notin system
  BY <1>1, FdtaskRuns, InListed DEF IInv, Control
<1>3. Alive' = Alive /\ On(lists', Sleeping) = On(lists, Sleeping)
  BY <1>1, <1>2, GaveWay
<1>4. IsFiniteSet(Alive \ system) /\ Cardinality(Alive \ system) \in Nat
  BY Living
<1>5. CountExact'
  <2>1. (On(lists, Sleeping) \ system)' = On(lists, Sleeping) \ system
    BY <1>1, <1>2, <1>3
  <2>2. (Alive \ system)' = (Alive \ system) \ {Fdtask} /\ Fdtask \in Alive \ system
    BY <1>1, <1>2, <1>3
  <2>3. Cardinality((Alive \ system) \ {Fdtask}) = Cardinality(Alive \ system) - 1
    BY ONLY <1>4, <2>2, FS_RemoveElement
  <2>4. taskcount = Cardinality(Alive \ system) + (IF sleepingcounted > 0 THEN 1 ELSE 0)
    BY DEF IInv, CountExact
  <2>5. taskcount' = Cardinality((Alive \ system)') + (IF sleepingcounted' > 0 THEN 1 ELSE 0)
    <3>1. taskcount - 1 = Cardinality(Alive \ system) - 1 + (IF sleepingcounted > 0 THEN 1 ELSE 0)
      BY ONLY <1>4, <2>4
    <3> QED BY <1>1, <2>2, <2>3, <3>1
  <2> QED BY <1>1, <2>1, <2>5 DEF IInv, CountExact
<1>6. taskcount' \in Int /\ sleepingcounted' \in Int
  BY <1>1 DEF IInv, TypeOK
<1>7. \A k \in DOMAIN pollfd : ~pollfd[k].revents
  BY <1>1 DEF IInv, Control
<1>8. Sleepers'
  BY <1>1, StillAsleep
<1> QED BY <1>1, <1>2, <1>5, <1>6, <1>7, <1>8, GiveWayKeeps

LEMMA AgainKeeps ==
  ASSUME IInv, fdtask_yield \/ poll_eintr
  PROVE  IInv'
<1>1. /\ Running(Fdtask) /\ pc[Fdtask] \in {"yield", "poll"} /\ giveway(lists)
      /\ UNCHANGED <<system, taskcount, sleepingcounted, pollfd>>
  BY DEF fdtask_yield, poll_eintr, Polling
<1>2. /\ lists \in [List -> Seq(Task)] /\ Disjoint(lists) /\ system = system \cup {Fdtask}
  BY <1>1, FdtaskRuns DEF IInv, Control
<1>3. Alive' = Alive /\ On(lists', Sleeping) = On(lists, Sleeping)
  BY <1>1, <1>2, GaveWay
<1>4. CountExact'
  BY <1>1, <1>3 DEF IInv, CountExact
<1>5. taskcount' \in Int /\ sleepingcounted' \in Int
  BY <1>1 DEF IInv, TypeOK
<1>6. \A k \in DOMAIN pollfd : ~pollfd[k].revents
  BY <1>1 DEF IInv, Control
<1>7. Sleepers'
  BY <1>1, StillAsleep
<1> QED BY <1>1, <1>2, <1>4, <1>5, <1>6, <1>7, GiveWayKeeps

-----------------------------------------------------------------------------
(* fdtask's poll (fd.c:31-56). *)

(* The timeout, in clock units, is no longer than the time that is left.   *)
LEMMA TimeoutShort ==
  ASSUME clock \in Nat, NEW due \in Nat
  PROVE  /\ clock + timeout(due) * Msec \in Nat
         /\ clock + timeout(due) * Msec <= due \/ clock + timeout(due) * Msec <= clock
<1>1. Msec \in Nat \ {0} /\ MaxWait \in Nat
  OBVIOUS
<1>2. PICK x \in Nat : x = MaxWait * Msec
  <2>1. \A a, b \in Nat : a * b \in Nat
    OBVIOUS
  <2> QED BY <1>1, <2>1
<1>3. CASE clock >= due
  <2>1. timeout(due) = 0
    BY <1>3 DEF timeout
  <2>2. 0 * Msec = 0
    BY <1>1
  <2> QED BY <2>1, <2>2
<1>4. CASE clock < due /\ clock + x >= due
  <2>1. timeout(due) = (due - clock) \div Msec
    BY <1>2, <1>4 DEF timeout
  <2>2. due - clock \in Nat
    BY <1>4
  <2>3. PICK y \in Nat : y = timeout(due) * Msec /\ y <= due - clock
    <3>1. (due - clock) \div Msec \in Nat /\ ((due - clock) \div Msec) * Msec <= due - clock
      BY <1>1, <2>2, Truncated
    <3>2. \A a, b \in Nat : a * b \in Nat
      OBVIOUS
    <3>3. ((due - clock) \div Msec) * Msec \in Nat
      BY <1>1, <3>1, <3>2
    <3> QED BY <2>1, <3>1, <3>3
  <2> QED BY <2>2, <2>3
<1>5. CASE clock < due /\ ~(clock + x >= due)
  <2>1. timeout(due) = MaxWait
    BY <1>2, <1>5 DEF timeout
  <2> QED BY <1>2, <1>5, <2>1
<1> QED BY <1>2, <1>3, <1>4, <1>5

LEMMA PollKeeps ==
  ASSUME IInv, fdtask_poll
  PROVE  IInv'
<1> DEFINE s == lists[Sleeping]
           due == alarmtime[Head(s)]
<1>1. /\ Running(Fdtask) /\ pc[Fdtask] = "yield" /\ ~others
      /\ until' = IF s = <<>> THEN nil ELSE clock + timeout(due) * Msec
      /\ pc' = [pc EXCEPT ![Fdtask] = "poll"]
      /\ UNCHANGED <<lists, taskrunning, prog, file, mode, left, alarmtime, began, system, taskcount,
                     sleepingcounted, startedfdtask, others, i, hot, clock, pending, pollfd>>
  BY DEF fdtask_poll, schedvars, timevars, countvars, kernel
<1>2. /\ Fdtask \in Task /\ taskrunning = Fdtask /\ Fdtask # nil /\ Sleeping \in List
      /\ lists \in [List -> Seq(Task)] /\ Disjoint(lists) /\ Fdtask \notin On(lists, Sleeping)
      /\ pc \in [Task -> {"start", "yield", "poll", "scan", "user", "delay", "wait",
                          "read", "write", "accept", "dial", "gone"}]
  BY <1>1, FdtaskRuns, InListed
<1>3. /\ s \in Seq(Task) /\ alarmtime \in [Task -> Nat] /\ clock \in Nat
  BY <1>2 DEF IInv, TypeOK
<1>4. pc'[Fdtask] = "poll" /\ \A u \in Task \ {Fdtask} : pc'[u] = pc[u]
  BY <1>1, <1>2
<1>5. ASSUME s # <<>>
      PROVE  /\ 1 \in DOMAIN s /\ due = alarmtime[s[1]] /\ due \in Nat /\ until' \in Nat
             /\ until' <= due \/ until' <= clock
  <2>1. 1 \in DOMAIN s /\ due = alarmtime[s[1]] /\ due \in Nat
    BY <1>3, <1>5
  <2> HIDE DEF due
  <2>2. /\ clock + timeout(due) * Msec \in Nat
        /\ clock + timeout(due) * Msec <= due \/ clock + timeout(due) * Msec <= clock
    BY <1>3, <2>1, TimeoutShort
  <2>3. until' = clock + timeout(due) * Msec
    BY <1>1, <1>5 DEF due
  <2> QED BY <2>1, <2>2, <2>3 DEF due
<1> HIDE DEF s, due
<1>6. TypeOK'
  <2>1. pc' \in [Task -> {"start", "yield", "poll", "scan", "user", "delay", "wait",
                          "read", "write", "accept", "dial", "gone"}]
    BY <1>1, <1>2
  <2>2. until' \in Nat \cup {nil}
    BY <1>1, <1>5
  <2> QED BY <1>1, <2>1, <2>2 DEF IInv, TypeOK, SchedTypeOK
<1>7. Alive' = Alive
  BY <1>1, <1>4 DEF Alive, User
<1>8. CountExact' /\ OnePlace'
  BY <1>1, <1>7 DEF IInv, CountExact, OnePlace, Polled, On
<1>9. EntriesExact'
  <2>1. \A k \in DOMAIN pollfd : pollfd[k].task \in Task \ {Fdtask}
    BY Entries DEF User
  <2> QED BY <1>1, <1>4, <2>1 DEF IInv, EntriesExact
<1>10. PollInTime'
  <2>1. On(lists, Sleeping)' = On(lists, Sleeping)
    BY <1>1 DEF On
  <2>2. ASSUME NEW t \in On(lists, Sleeping)
        PROVE  until' # nil /\ (until' <= alarmtime[t] \/ until' <= clock)
    <3>1. PICK j \in DOMAIN s : s[j] = t
      BY InOn DEF s
    <3>2. s # <<>>
      BY <3>1
    <3>3. 1 \in DOMAIN s /\ j >= 1 /\ j \in Int /\ alarmtime[t] \in Nat
      BY <1>3, <3>1, <3>2
    <3>4. due <= alarmtime[t]
      <4>1. CASE j = 1
        BY <1>5, <3>1, <3>2, <3>3, <4>1
      <4>2. CASE j # 1
        <5>1. 1 < j
          BY <3>3, <4>2
        <5>2. alarmtime[s[1]] <= alarmtime[s[j]]
          BY <3>1, <3>3, <5>1 DEF IInv, Sleepers, s
        <5> QED BY <1>5, <3>1, <3>2, <5>2
      <4> QED BY <4>1, <4>2
    <3> QED BY <1>3, <1>5, <3>2, <3>3, <3>4
  <2> QED BY <1>1, <2>1, <2>2 DEF PollInTime
<1>11. Control'
  BY <1>1, <1>2, <1>4 DEF IInv, Control
<1>12. Alone' /\ PollWakesExactly'
  BY <1>1, <1>2, <1>4 DEF IInv, Alone, PollWakesExactly, Scanning
<1>13. Sleepers'
  <2>1. \A j \in DOMAIN lists[Sleeping] : lists[Sleeping][j] \in Task \ {Fdtask}
    <3>1. \A j \in DOMAIN lists[Sleeping] : lists[Sleeping][j] # Fdtask
      BY <1>2, InOn
    <3> QED BY <1>2, <3>1
  <2>2. On(lists, Sleeping)' = On(lists, Sleeping)
    BY <1>1 DEF On
  <2> QED BY <1>1, <1>4, <2>1, <2>2 DEF IInv, Sleepers, User
<1> QED BY <1>6, <1>8, <1>9, <1>10, <1>11, <1>12, <1>13 DEF IInv

LEMMA ReturnKeeps ==
  ASSUME IInv, poll_return
  PROVE  IInv'
<1> DEFINE n == Len(pollfd)
<1>1. /\ Running(Fdtask) /\ pc[Fdtask] = "poll" /\ until' = nil
      /\ pollfd' = [k \in DOMAIN pollfd |-> [pollfd[k] EXCEPT !.revents = reported(pollfd[k])]]
      /\ hot' = {pollfd[k].task : k \in {j \in DOMAIN pollfd : reported(pollfd[j])}}
      /\ pc' = [pc EXCEPT ![Fdtask] = "scan"]
      /\ UNCHANGED <<lists, taskrunning, prog, file, mode, left, alarmtime, began, system, taskcount,
                     sleepingcounted, startedfdtask, others, i, clock, pending>>
  BY DEF poll_return, Polling, schedvars, timevars, countvars, kernel
<1>2. /\ Fdtask \in Task /\ taskrunning = Fdtask /\ Fdtask # nil /\ Sleeping \in List /\ RunQ \in List
      /\ lists \in [List -> Seq(Task)] /\ Fdtask \notin On(lists, Sleeping)
      /\ pc \in [Task -> {"start", "yield", "poll", "scan", "user", "delay", "wait",
                          "read", "write", "accept", "dial", "gone"}]
  BY <1>1, FdtaskRuns, InListed
<1>3. pc'[Fdtask] = "scan" /\ \A u \in Task \ {Fdtask} : pc'[u] = pc[u]
  BY <1>1, <1>2
<1>4. /\ pollfd \in Seq(Entry) /\ n \in Nat /\ DOMAIN pollfd = 1..n
      /\ \A k \in 1..n : pollfd[k] \in Entry /\ pollfd[k].task \in Task \ {Fdtask}
  BY Entries DEF User
<1>5. ASSUME NEW k \in 1..n
      PROVE  /\ pollfd'[k] \in Entry /\ pollfd'[k].task = pollfd[k].task
             /\ pollfd'[k].fd = pollfd[k].fd /\ pollfd'[k].events = pollfd[k].events
             /\ pollfd'[k].revents = reported(pollfd[k])
  <2>1. pollfd'[k] = [pollfd[k] EXCEPT !.revents = reported(pollfd[k])]
    BY <1>1, <1>4
  <2>2. reported(pollfd[k]) \in BOOLEAN
    BY DEF reported
  <2>3. pollfd[k] \in Entry
    BY <1>4
  <2> HIDE DEF n
  <2> QED BY ONLY <2>1, <2>2, <2>3 DEF Entry
<1>6. pollfd' \in Seq(Entry) /\ Len(pollfd') = n /\ DOMAIN pollfd' = 1..n
  <2>1. pollfd' \in [1..n -> Entry]
    BY <1>1, <1>4, <1>5
  <2> HIDE DEF n
  <2> QED BY <1>4, <2>1
<1> HIDE DEF n
<1>7. TypeOK'
  <2>1. pc' \in [Task -> {"start", "yield", "poll", "scan", "user", "delay", "wait",
                          "read", "write", "accept", "dial", "gone"}]
    BY <1>1, <1>2
  <2>2. hot' \subseteq Task
    BY <1>1, <1>4
  <2>3. Len(pollfd') <= MAXFD
    BY <1>6 DEF IInv, TypeOK, n
  <2>4. until' \in Nat \cup {nil}
    BY <1>1
  <2> QED BY <1>1, <1>6, <2>1, <2>2, <2>3, <2>4 DEF IInv, TypeOK, SchedTypeOK
<1>8. Alive' = Alive
  BY <1>1, <1>3 DEF Alive, User
<1>9. Polled' = Polled
  <2>1. \A u : u \in Polled <=> \E k \in 1..n : pollfd[k].task = u
    BY <1>4 DEF Polled
  <2>2. \A u : u \in Polled' <=> \E k \in 1..n : pollfd'[k].task = u
    BY <1>6 DEF Polled
  <2> QED BY <1>5, <2>1, <2>2
<1>10. CountExact' /\ OnePlace'
  BY <1>1, <1>6, <1>8, <1>9 DEF IInv, CountExact, OnePlace, On, n
<1>11. EntriesExact'
  BY <1>1, <1>3, <1>4, <1>5, <1>6 DEF IInv, EntriesExact
<1>12. PollInTime' /\ Alone'
  BY <1>3 DEF PollInTime, Polling, Alone
<1>13. i = 1 /\ \A k \in 1..n : k >= i
  BY <1>1, <1>4 DEF IInv, Control
<1>14. PollWakesExactly'
  <2>1. On(lists', RunQ) = {}
    <3>1. lists'[RunQ] = <<>> /\ lists' = lists
      BY <1>1 DEF IInv, Alone
    <3> QED BY <1>2, <3>1, EmptyList
  <2> DEFINE todo == {k \in DOMAIN pollfd' : pollfd'[k].revents}
  <2>2. todo = {k \in DOMAIN pollfd : reported(pollfd[k])}
    BY <1>4, <1>5, <1>6
  <2>3. {pollfd'[k].task : k \in todo} = hot'
    BY <1>1, <1>4, <1>5, <2>2
  <2>4. i' > Len(pollfd') => todo = {}
    BY <1>1, <1>4, <1>6, <1>13
  <2> HIDE DEF todo
  <2>5. On(lists', RunQ) \cup {pollfd'[k].task : k \in todo} = hot'
    BY <2>1, <2>3
  <2> QED BY <2>4, <2>5 DEF PollWakesExactly, todo
<1>15. Control'
  <2>1. \A k \in DOMAIN pollfd' : pollfd'[k].revents => pc'[Fdtask] = "scan" /\ k >= i'
    BY <1>1, <1>3, <1>6, <1>13
  <2> QED BY <1>1, <1>2, <1>3, <2>1 DEF IInv, Control
<1>16. Sleepers'
  <2>1. \A j \in DOMAIN lists[Sleeping] : lists[Sleeping][j] \in Task \ {Fdtask}
    <3>1. \A j \in DOMAIN lists[Sleeping] : lists[Sleeping][j] # Fdtask
      BY <1>2, InOn
    <3> QED BY <1>2, <3>1
  <2>2. On(lists, Sleeping)' = On(lists, Sleeping)
    BY <1>1 DEF On
  <2> QED BY <1>1, <1>3, <2>1, <2>2 DEF IInv, Sleepers, User
<1> QED BY <1>7, <1>10, <1>11, <1>12, <1>14, <1>15, <1>16 DEF IInv

-----------------------------------------------------------------------------
(* The loop over pollfd (fd.c:57-67). *)

(* The last entry replaces entry j, and the array is one shorter. *)
LEMMA Swapped ==
  ASSUME NEW P \in Seq(Entry), NEW n \in Nat, n = Len(P), NEW j \in 1..n,
         NEW Q, Q = SubSeq([P EXCEPT ![j] = P[n]], 1, n - 1)
  PROVE  /\ Q \in Seq(Entry) /\ Len(Q) = n - 1 /\ DOMAIN Q = 1..n - 1
         /\ \A k \in 1..n - 1 : Q[k] = IF k = j THEN P[n] ELSE P[k]
<1> DEFINE R == [P EXCEPT ![j] = P[n]]
<1>1. P \in [1..n -> Entry] /\ n \in 1..n
  OBVIOUS
<1>2. R \in [1..n -> Entry] /\ \A k \in 1..n : R[k] = IF k = j THEN P[n] ELSE P[k]
  BY <1>1
<1> HIDE DEF R
<1>3. R \in Seq(Entry) /\ Len(R) = n
  BY <1>2
<1>4. /\ Q \in Seq(Entry) /\ Len(Q) = n - 1 /\ DOMAIN Q = 1..n - 1
      /\ \A k \in 1..n - 1 : Q[k] = R[k]
  BY <1>3 DEF R
<1>5. \A k \in 1..n - 1 : k \in 1..n
  OBVIOUS
<1> QED BY <1>2, <1>4, <1>5

LEMMA WakeKeeps ==
  ASSUME IInv, fdtask_wake
  PROVE  IInv'
<1> DEFINE n == Len(pollfd)
           t == pollfd[i].task
           at(k) == IF k = i THEN n ELSE k
<1>1. /\ Running(Fdtask) /\ pc[Fdtask] = "scan" /\ i <= n /\ pollfd[i].revents
      /\ lists' = taskready(lists, t)
      /\ pollfd' = SubSeq([pollfd EXCEPT ![i] = pollfd[n]], 1, n - 1)
      /\ UNCHANGED <<taskrunning, prog, pc, file, mode, left, alarmtime, began, system, taskcount,
                     sleepingcounted, startedfdtask, others, until, i, hot, clock, pending>>
  BY DEF fdtask_wake, Scanning, taskvars, timevars, countvars, loopvars, kernel
<1>2. /\ pollfd \in Seq(Entry) /\ n \in Nat /\ DOMAIN pollfd = 1..n
      /\ \A k \in 1..n : pollfd[k] \in Entry /\ pollfd[k].task \in User /\ pollfd[k].task \in Polled
      /\ \A j, k \in 1..n : pollfd[j].task = pollfd[k].task => j = k
  BY Entries
<1>3. i \in 1..n
  <2>1. i > 0 /\ i \in Nat
    BY DEF IInv, Control, TypeOK
  <2> QED BY <1>1, <1>2, <2>1
<1>4. /\ Fdtask \in Task /\ taskrunning = Fdtask /\ Fdtask # nil /\ RunQ \in List /\ Sleeping \in List
      /\ Sleeping # RunQ /\ lists \in [List -> Seq(Task)] /\ Disjoint(lists)
      /\ Fdtask \notin Listed(lists) /\ Fdtask \notin Polled /\ nil \notin Polled /\ nil \notin Listed(lists)
      /\ Polled \cap Listed(lists) = {}
      /\ Alive = Listed(lists) \cup Polled \cup {Fdtask}
  BY <1>1, FdtaskRuns
<1>5. t \in Task /\ t \in Polled /\ t \notin Listed(lists)
  BY <1>2, <1>3, <1>4 DEF User
<1> HIDE DEF n, t
<1>6. /\ pollfd' \in Seq(Entry) /\ Len(pollfd') = n - 1 /\ DOMAIN pollfd' = 1..n - 1
      /\ \A k \in 1..n - 1 : pollfd'[k] = IF k = i THEN pollfd[n] ELSE pollfd[k]
  <2>1. n = Len(pollfd)
    BY DEF n
  <2> QED BY ONLY <1>1, <1>2, <1>3, <2>1, Swapped
<1>7. /\ \A k \in 1..n - 1 : pollfd'[k] = pollfd[at(k)] /\ at(k) \in 1..n /\ at(k) # i
      /\ \A k \in 1..n : k # i => \E j \in 1..n - 1 : at(j) = k
      /\ \A j, k \in 1..n - 1 : at(j) = at(k) => j = k
  <2>1. \A k \in 1..n - 1 : pollfd'[k] = pollfd[at(k)]
    BY <1>6
  <2>2. \A k \in 1..n - 1 : at(k) \in 1..n /\ at(k) # i
    BY <1>2, <1>3
  <2>3. ASSUME NEW k \in 1..n, k # i
        PROVE  \E j \in 1..n - 1 : at(j) = k
    <3>1. CASE k = n
      <4>1. i \in 1..n - 1 /\ at(i) = k
        BY <1>2, <1>3, <2>3, <3>1
      <4> QED BY <4>1
    <3>2. CASE k # n
      <4>1. k \in 1..n - 1 /\ at(k) = k
        BY <1>2, <2>3, <3>2
      <4> QED BY <4>1
    <3> QED BY <3>1, <3>2
  <2>4. \A j, k \in 1..n - 1 : at(j) = at(k) => j = k
    BY <1>2, <1>3
  <2> QED BY <2>1, <2>2, <2>3, <2>4
<1>8. /\ lists' \in [List -> Seq(Task)] /\ Disjoint(lists')
      /\ On(lists', RunQ) = On(lists, RunQ) \cup {t}
      /\ lists'[Sleeping] = lists[Sleeping] /\ On(lists', Sleeping) = On(lists, Sleeping)
      /\ Listed(lists') = Listed(lists) \cup {t}
  <2>1. lists' = addtask(lists, RunQ, t)
    BY <1>1 DEF taskready
  <2> QED BY ONLY <1>4, <1>5, <2>1, AddTask
<1>9. ASSUME NEW D \in SUBSET (1..n), i \in D
      PROVE  {pollfd'[k].task : k \in {j \in 1..n - 1 : at(j) \in D}} = {pollfd[k].task : k \in D} \ {t}
  <2> DEFINE E == {j \in 1..n - 1 : at(j) \in D}
  <2>1. ASSUME NEW k \in E
        PROVE  at(k) \in D /\ pollfd'[k].task = pollfd[at(k)].task /\ pollfd[at(k)].task # t
    <3>1. k \in 1..n - 1 /\ at(k) \in D
      OBVIOUS
    <3> HIDE DEF at, E
    <3>2. pollfd'[k] = pollfd[at(k)] /\ at(k) \in 1..n /\ at(k) # i
      BY <1>7, <3>1
    <3> QED BY <1>2, <1>3, <3>1, <3>2 DEF t
  <2>2. ASSUME NEW k \in D, pollfd[k].task # t
        PROVE  \E j \in E : pollfd'[j].task = pollfd[k].task
    <3>1. k \in 1..n /\ k # i
      BY <2>2 DEF t
    <3> HIDE DEF at
    <3>2. PICK j \in 1..n - 1 : at(j) = k
      BY <1>7, <3>1
    <3> QED BY <1>7, <3>2
  <2> HIDE DEF E, at
  <2>3. {pollfd'[k].task : k \in E} = {pollfd[k].task : k \in D} \ {t}
    <3>1. ASSUME NEW u \in {pollfd'[k].task : k \in E}
          PROVE  u \in {pollfd[k].task : k \in D} \ {t}
      BY <2>1
    <3>2. ASSUME NEW u \in {pollfd[k].task : k \in D} \ {t}
          PROVE  u \in {pollfd'[k].task : k \in E}
      BY <2>2
    <3> QED BY <3>1, <3>2
  <2> QED BY <2>3 DEF E
<1>10. Polled' = Polled \ {t}
  <2>1. Polled = {pollfd[k].task : k \in 1..n} /\ Polled' = {pollfd'[k].task : k \in 1..n - 1}
    BY <1>2, <1>6 DEF Polled
  <2>2. 1..n - 1 = {j \in 1..n - 1 : at(j) \in 1..n} /\ i \in 1..n /\ 1..n \in SUBSET (1..n)
    BY <1>3, <1>7
  <2> HIDE DEF at
  <2> QED BY <1>9, <2>1, <2>2
<1>11. TypeOK'
  <2>1. Len(pollfd') <= MAXFD
    BY <1>2, <1>6 DEF IInv, TypeOK, n
  <2> QED BY <1>1, <1>6, <1>8, <2>1 DEF IInv, TypeOK, SchedTypeOK
<1>12. Alive' = Alive
  BY <1>1 DEF Alive
<1>13. CountExact'
  BY <1>1, <1>8, <1>12 DEF IInv, CountExact
<1>14. OnePlace'
  <2>1. \A j, k \in DOMAIN pollfd' : pollfd'[j].task = pollfd'[k].task => j = k
    <3>1. ASSUME NEW j \in 1..n - 1, NEW k \in 1..n - 1, pollfd'[j].task = pollfd'[k].task
          PROVE  j = k
      <4> HIDE DEF at
      <4>1. /\ at(j) \in 1..n /\ at(k) \in 1..n
            /\ pollfd'[j] = pollfd[at(j)] /\ pollfd'[k] = pollfd[at(k)]
        BY <1>7
      <4>2. at(j) = at(k)
        BY <1>2, <3>1, <4>1
      <4> QED BY <1>7, <4>2
    <3> QED BY <1>6, <3>1
  <2>2. Len(pollfd') = Cardinality(Polled')
    BY <1>6, <2>1, Once DEF Polled
  <2>3. Polled' \cap Listed(lists') = {} /\ taskrunning' \notin Listed(lists') \cup Polled'
    BY <1>1, <1>4, <1>5, <1>8, <1>10
  <2>4. Alive' = (Listed(lists') \cup Polled' \cup {taskrunning'}) \ {nil}
    BY <1>1, <1>4, <1>5, <1>8, <1>10, <1>12
  <2> QED BY <1>8, <2>2, <2>3, <2>4 DEF OnePlace
<1>15. EntriesExact'
  <2> HIDE DEF at
  <2>1. ASSUME NEW k \in 1..n - 1
        PROVE  /\ pc[pollfd'[k].task] \in {"wait", "read", "write", "accept", "dial"}
               /\ file[pollfd'[k].task] = pollfd'[k].fd /\ mode[pollfd'[k].task] = pollfd'[k].events
    <3>1. pollfd'[k] = pollfd[at(k)] /\ at(k) \in DOMAIN pollfd
      BY <1>2, <1>7
    <3> QED BY <3>1 DEF IInv, EntriesExact
  <2> QED BY <1>1, <1>6, <2>1 DEF EntriesExact
<1>16. PollInTime' /\ Alone'
  BY <1>1 DEF PollInTime, Polling, Alone
<1>17. \A k \in 1..n : pollfd[k].revents => k >= i
  BY <1>2 DEF IInv, Control
<1>18. \A k \in 1..n - 1 : pollfd'[k].revents => k >= i
  BY <1>2, <1>3, <1>6, <1>17
<1>19. PollWakesExactly'
  <2> DEFINE todo == {k \in DOMAIN pollfd : pollfd[k].revents}
             rest == {k \in DOMAIN pollfd' : pollfd'[k].revents}
  <2>1. On(lists, RunQ) \cup {pollfd[k].task : k \in todo} = hot
    BY <1>1 DEF IInv, PollWakesExactly, Scanning
  <2>2. todo \in SUBSET (1..n) /\ i \in todo
    BY <1>1, <1>2, <1>3
  <2>3. rest = {j \in 1..n - 1 : at(j) \in todo}
    <3> HIDE DEF at
    <3> QED BY <1>2, <1>6, <1>7
  <2>4. t \in {pollfd[k].task : k \in todo}
    BY <2>2 DEF t
  <2>5. i' > Len(pollfd') => rest = {}
    BY <1>1, <1>2, <1>3, <1>6, <1>18
  <2> HIDE DEF todo, rest, at
  <2>6. {pollfd'[k].task : k \in rest} = {pollfd[k].task : k \in todo} \ {t}
    BY <1>9, <2>2, <2>3
  <2>7. On(lists', RunQ) \cup {pollfd'[k].task : k \in rest} = hot'
    BY <1>1, <1>8, <2>1, <2>4, <2>6, ZenonT(30)
  <2> QED BY <2>5, <2>7 DEF PollWakesExactly, rest
<1>20. Control'
  <2>1. \A k \in DOMAIN pollfd' : pollfd'[k].revents => pc'[Fdtask] = "scan" /\ k >= i'
    BY <1>1, <1>6, <1>18
  <2> QED BY <1>1, <2>1 DEF IInv, Control
<1>21. Sleepers'
  BY <1>1, <1>8 DEF IInv, Sleepers
<1> QED BY <1>11, <1>13, <1>14, <1>15, <1>16, <1>19, <1>20, <1>21 DEF IInv

LEMMA NextKeeps ==
  ASSUME IInv, fdtask_next
  PROVE  IInv'
<1>1. /\ Running(Fdtask) /\ pc[Fdtask] = "scan" /\ i <= Len(pollfd) /\ ~pollfd[i].revents /\ i' = i + 1
      /\ UNCHANGED <<lists, taskrunning, prog, pc, file, mode, left, alarmtime, began, system, taskcount,
                     sleepingcounted, startedfdtask, others, until, hot, clock, pending, pollfd>>
  BY DEF fdtask_next, Scanning, schedvars, taskvars, timevars, countvars, kernel
<1>2. i \in Nat /\ DOMAIN pollfd = 1..Len(pollfd) /\ Len(pollfd) \in Nat
  BY Entries DEF IInv, TypeOK
<1>3. \A k \in DOMAIN pollfd : pollfd[k].revents => k >= i + 1
  <2>1. \A k \in DOMAIN pollfd : pollfd[k].revents => k >= i /\ k # i
    BY <1>1 DEF IInv, Control
  <2> QED BY <1>2, <2>1
<1>4. TypeOK'
  <2>1. i' \in Nat
    BY <1>1, <1>2
  <2> QED BY <1>1, <2>1 DEF IInv, TypeOK, SchedTypeOK
<1>5. CountExact' /\ OnePlace' /\ EntriesExact'
  BY <1>1 DEF IInv, CountExact, OnePlace, Alive, Polled, On, EntriesExact
<1>6. PollInTime' /\ Alone' /\ Sleepers'
  BY <1>1 DEF IInv, PollInTime, Polling, Alone, Sleepers, On
<1>7. Control'
  <2>1. i' > 0
    BY <1>1, <1>2
  <2> QED BY <1>1, <1>3, <2>1 DEF IInv, Control
<1>8. PollWakesExactly'
  <2> DEFINE todo == {k \in DOMAIN pollfd : pollfd[k].revents}
  <2>1. On(lists, RunQ) \cup {pollfd[k].task : k \in todo} = hot
    BY <1>1 DEF IInv, PollWakesExactly, Scanning
  <2>2. i + 1 > Len(pollfd) => todo = {}
    BY <1>2, <1>3
  <2> QED BY <1>1, <2>1, <2>2 DEF PollWakesExactly, On
<1> QED BY <1>4, <1>5, <1>6, <1>7, <1>8 DEF IInv

-----------------------------------------------------------------------------
(* The loop over sleeping (fd.c:68-78). *)

(* The search for the first task that is not due ends, and since the list  *)
(* is in order nobody behind that task is due either.                      *)
LEMMA DueFound ==
  ASSUME IInv
  PROVE  /\ duecount \in 0..Len(lists[Sleeping])
         /\ \A j \in 1..duecount : alarmtime[lists[Sleeping][j]] <= clock
         /\ \A j \in 1..Len(lists[Sleeping]) : j > duecount => clock < alarmtime[lists[Sleeping][j]]
<1> DEFINE s == lists[Sleeping]
           n == Len(s)
           P(k) == /\ \A j \in 1..k : clock >= alarmtime[s[j]]
                   /\ k < n => ~(clock >= alarmtime[s[k + 1]])
           D == {k \in 0..n : \A j \in 1..k : clock >= alarmtime[s[j]]}
<1>1. /\ s \in Seq(Task) /\ n \in Nat /\ DOMAIN s = 1..n /\ clock \in Nat /\ alarmtime \in [Task -> Nat]
      /\ \A j \in 1..n : alarmtime[s[j]] \in Nat
  <2>1. lists \in [List -> Seq(Task)] /\ Sleeping \in List
    BY DEF IInv, TypeOK, SchedTypeOK
  <2>2. clock \in Nat /\ alarmtime \in [Task -> Nat]
    BY DEF IInv, TypeOK
  <2>3. s \in Seq(Task)
    BY <2>1
  <2> HIDE DEF s
  <2> QED BY <2>2, <2>3
<1>2. \E k \in 0..n : P(k)
  <2>1. 0 \in D /\ D \in SUBSET (0..n)
    BY <1>1
  <2>2. PICK k \in D : k + 1 \notin D
    <3> HIDE DEF D, n
    <3> QED BY <1>1, <2>1, SearchEnds
  <2>3. ASSUME k < n
        PROVE  ~(clock >= alarmtime[s[k + 1]])
    <3>1. k + 1 \in 0..n /\ \A j \in 1..k + 1 : j \in 1..k \/ j = k + 1
      BY <1>1, <2>3
    <3> QED BY <2>2, <3>1
  <2> QED BY <2>2, <2>3
<1>3. duecount = CHOOSE k \in 0..n : P(k)
  BY DEF duecount
<1>4. duecount \in 0..n /\ P(duecount)
  <2> HIDE DEF P, n
  <2> QED BY <1>2, <1>3
<1>5. \A j, k \in 1..n : j < k => alarmtime[s[j]] <= alarmtime[s[k]]
  BY <1>1 DEF IInv, Sleepers
<1> HIDE DEF s, n
<1>6. ASSUME NEW j \in 1..n, j > duecount
      PROVE  clock < alarmtime[s[j]]
  <2>1. duecount < n /\ duecount + 1 \in 1..n /\ (j = duecount + 1 \/ duecount + 1 < j)
    BY <1>1, <1>4, <1>6
  <2>2. clock < alarmtime[s[duecount + 1]]
    BY <1>1, <1>4, <2>1
  <2>3. alarmtime[s[duecount + 1]] <= alarmtime[s[j]]
    BY <1>1, <1>5, <2>1
  <2> QED BY <1>1, <2>1, <2>2, <2>3
<1>7. ASSUME NEW j \in 1..duecount
      PROVE  alarmtime[s[j]] <= clock
  <2>1. j \in 1..n
    BY <1>1, <1>4
  <2> QED BY <1>1, <1>4, <2>1
<1> QED BY <1>4, <1>6, <1>7 DEF s, n

(* What fdtask moves, and what it leaves. *)
LEMMA DueMoved ==
  ASSUME IInv, fdtask_alarms
  PROVE  \E q \in [List -> Seq(Task)], R \in SUBSET Task :
           /\ giveway(q) /\ Disjoint(q) /\ Listed(q) = Listed(lists)
           /\ sleepingcounted' = sleepingcounted - Cardinality(R \ system)
           /\ taskcount' = IF Cardinality(R \ system) > 0 /\ sleepingcounted' = 0
                           THEN taskcount - 1 ELSE taskcount
           /\ R \subseteq On(lists, Sleeping) /\ On(q, Sleeping) = On(lists, Sleeping) \ R
           /\ \A t \in R : alarmtime[t] <= clock
           /\ Len(q[Sleeping]) = Len(lists[Sleeping]) - duecount
           /\ \A j \in 1..Len(lists[Sleeping]) - duecount :
                /\ duecount + j \in 1..Len(lists[Sleeping])
                /\ q[Sleeping][j] = lists[Sleeping][duecount + j]
<1> DEFINE s == lists[Sleeping]
           k == duecount
           due == SubSeq(s, 1, k)
           q == [lists EXCEPT ![Sleeping] = SubSeq(s, k + 1, Len(s)), ![RunQ] = @ \o due]
           R == Range(due)
<1>1. /\ k \in 0..Len(s) /\ \A j \in 1..k : alarmtime[s[j]] <= clock
  BY DueFound
<1>2. /\ Running(Fdtask) /\ lists \in [List -> Seq(Task)] /\ Disjoint(lists)
      /\ Sleeping \in List /\ RunQ \in List \ {Sleeping}
  BY FdtaskRuns DEF fdtask_alarms, Scanning
<1>3. Len(due) = k
  <2>1. s \in Seq(Task)
    BY <1>2
  <2> HIDE DEF s, k
  <2> QED BY <1>1, <2>1, Halves
<1>4. /\ giveway(q)
      /\ sleepingcounted' = sleepingcounted - Cardinality(R \ system)
      /\ taskcount' = IF Cardinality(R \ system) > 0 /\ sleepingcounted' = 0
                      THEN taskcount - 1 ELSE taskcount
  BY <1>3 DEF fdtask_alarms
<1>5. FrontMoved(lists, q, Sleeping, RunQ, k)
  BY DEF FrontMoved
<1> HIDE DEF q, k
<1>6. /\ q \in [List -> Seq(Task)] /\ Disjoint(q)
      /\ Len(q[Sleeping]) = Len(lists[Sleeping]) - k
      /\ \A j \in 1..Len(lists[Sleeping]) - k :
           k + j \in 1..Len(lists[Sleeping]) /\ q[Sleeping][j] = lists[Sleeping][k + j]
      /\ On(q, Sleeping) = On(lists, Sleeping) \ Range(SubSeq(lists[Sleeping], 1, k))
      /\ Range(SubSeq(lists[Sleeping], 1, k)) \subseteq On(lists, Sleeping)
      /\ \A t : t \in Range(SubSeq(lists[Sleeping], 1, k)) <=> \E j \in 1..k : lists[Sleeping][j] = t
      /\ Listed(q) = Listed(lists)
  <2>1. k \in 0..Len(lists[Sleeping])
    BY <1>1
  <2>2. lists \in [List -> Seq(Task)] /\ Disjoint(lists) /\ Sleeping \in List /\ RunQ \in List \ {Sleeping}
    BY <1>2
  <2> HIDE DEF s, R, due
  <2>3. /\ q \in [List -> Seq(Task)] /\ Disjoint(q)
        /\ Len(q[Sleeping]) = Len(lists[Sleeping]) - k
        /\ \A j \in 1..Len(lists[Sleeping]) - k :
             k + j \in 1..Len(lists[Sleeping]) /\ q[Sleeping][j] = lists[Sleeping][k + j]
        /\ On(q, Sleeping) = On(lists, Sleeping) \ Range(SubSeq(lists[Sleeping], 1, k))
        /\ Range(SubSeq(lists[Sleeping], 1, k)) \subseteq On(lists, Sleeping)
        /\ Listed(q) = Listed(lists)
    BY ONLY <1>5, <2>1, <2>2, MovePrefix
  <2>4. \A t : t \in Range(SubSeq(lists[Sleeping], 1, k)) <=> \E j \in 1..k : lists[Sleeping][j] = t
    <3>1. /\ SubSeq(s, 1, k) \in Seq(Task) /\ Len(SubSeq(s, 1, k)) = k
          /\ \A j \in 1..k : SubSeq(s, 1, k)[j] = s[j]
      <4>1. s \in Seq(Task) /\ k \in 0..Len(s)
        BY <2>1, <2>2 DEF s
      <4> QED BY ONLY <4>1, Halves
    <3>2. \A t : t \in Range(SubSeq(s, 1, k)) <=> \E j \in 1..k : SubSeq(s, 1, k)[j] = t
      BY <3>1 DEF Range
    <3> QED BY <3>1, <3>2 DEF s
  <2> QED BY <2>3, <2>4
<1>7. R \in SUBSET Task
  BY <1>2, <1>6, ListedAreTasks
<1>8. R = Range(SubSeq(lists[Sleeping], 1, k))
  OBVIOUS
<1> HIDE DEF R
<1>9. \A t \in R : alarmtime[t] <= clock
  BY <1>1, <1>6, <1>8
<1>10. /\ R \subseteq On(lists, Sleeping) /\ On(q, Sleeping) = On(lists, Sleeping) \ R
  BY <1>6, <1>8
<1> QED BY <1>4, <1>6, <1>7, <1>9, <1>10 DEF k

LEMMA AlarmsKeep ==
  ASSUME IInv, fdtask_alarms
  PROVE  IInv'
<1> DEFINE s == lists[Sleeping]
           n == Len(s)
<1>1. /\ Running(Fdtask) /\ pc[Fdtask] = "scan" /\ i > Len(pollfd) /\ system' = system /\ pollfd' = pollfd
  BY DEF fdtask_alarms, Scanning
<1>2. /\ lists \in [List -> Seq(Task)] /\ Disjoint(lists) /\ Sleeping \in List /\ Fdtask \in Task
      /\ Fdtask \notin On(lists, Sleeping) /\ s \in Seq(Task)
  BY <1>1, FdtaskRuns, InListed
<1>3. n \in Nat /\ DOMAIN s = 1..n
  <2> HIDE DEF s
  <2> QED BY <1>2
<1>4. system' = system \cup {Fdtask} /\ Fdtask \in system
  BY <1>1 DEF IInv, Control
<1>5. PICK q \in [List -> Seq(Task)], R \in SUBSET Task :
        /\ giveway(q) /\ Disjoint(q) /\ Listed(q) = Listed(lists)
        /\ sleepingcounted' = sleepingcounted - Cardinality(R \ system)
        /\ taskcount' = IF Cardinality(R \ system) > 0 /\ sleepingcounted' = 0
                        THEN taskcount - 1 ELSE taskcount
        /\ R \subseteq On(lists, Sleeping) /\ On(q, Sleeping) = On(lists, Sleeping) \ R
        /\ \A t \in R : alarmtime[t] <= clock
        /\ Len(q[Sleeping]) = n - duecount
        /\ \A j \in 1..n - duecount : duecount + j \in 1..n /\ q[Sleeping][j] = s[duecount + j]
  BY DueMoved
<1>6. /\ Alive' = Alive
      /\ lists'[Sleeping] = q[Sleeping] /\ On(lists', Sleeping) = On(lists, Sleeping) \ R
      /\ pc'[Fdtask] = "yield" /\ \A u \in Task \ {Fdtask} : pc'[u] = pc[u]
  BY <1>1, <1>5, GaveWay
<1>7. UNCHANGED <<alarmtime, began, clock>>
  BY <1>5 DEF giveway, timevars, kernel
<1>8. duecount \in 0..n
  BY DueFound
<1> HIDE DEF s, n
<1>9. \A k \in DOMAIN pollfd : ~pollfd[k].revents
  BY <1>1 DEF IInv, PollWakesExactly, Scanning
<1>10. /\ CountExact' /\ taskcount' \in Int /\ sleepingcounted' \in Int
  <2> DEFINE S == On(lists, Sleeping) \ system
             M == R \ system
             A == Alive \ system
  <2>1. IsFiniteSet(S) /\ sleepingcounted = Cardinality(S) /\ Cardinality(S) \in Nat
    <3>1. IsFiniteSet(On(lists, Sleeping))
      BY <1>2, ListLength
    <3>2. S \in SUBSET On(lists, Sleeping)
      OBVIOUS
    <3>3. sleepingcounted = Cardinality(S)
      BY DEF IInv, CountExact
    <3> HIDE DEF S
    <3> QED BY ONLY <3>1, <3>2, <3>3, FS_Subset, FS_CardinalityType
  <2>2. M \subseteq S /\ (On(lists, Sleeping) \ system)' = S \ M
    BY <1>1, <1>5, <1>6
  <2>3. (Alive \ system)' = A /\ Cardinality(A) \in Nat
    BY <1>1, <1>6, Living
  <2>4. taskcount = Cardinality(A) + (IF sleepingcounted > 0 THEN 1 ELSE 0)
    BY DEF IInv, CountExact
  <2>5. /\ sleepingcounted' = sleepingcounted - Cardinality(M)
        /\ taskcount' = IF Cardinality(M) > 0 /\ sleepingcounted' = 0 THEN taskcount - 1 ELSE taskcount
    BY <1>5
  <2> HIDE DEF S, M, A
  <2>6. /\ IsFiniteSet(M) /\ Cardinality(M) \in Nat /\ Cardinality(M) <= Cardinality(S)
        /\ Cardinality(S \ M) = Cardinality(S) - Cardinality(M)
    <3>1. IsFiniteSet(M) /\ Cardinality(M) <= Cardinality(S)
      BY ONLY <2>1, <2>2, FS_Subset
    <3>2. Cardinality(M) \in Nat
      BY ONLY <3>1, FS_CardinalityType
    <3>3. S \cap M = M
      BY <2>2
    <3>4. Cardinality(S \ M) = Cardinality(S) - Cardinality(S \cap M)
      BY ONLY <2>1, <3>1, FS_Difference
    <3> QED BY <3>1, <3>2, <3>3, <3>4
  <2>7. sleepingcounted' = Cardinality(S \ M) /\ sleepingcounted' \in Nat
    BY <2>1, <2>5, <2>6
  <2>8. taskcount' = Cardinality(A) + (IF sleepingcounted' > 0 THEN 1 ELSE 0) /\ taskcount' \in Int
    BY ONLY <2>1, <2>3, <2>4, <2>5, <2>6, <2>7
  <2>9. CountExact'
    BY <2>2, <2>3, <2>7, <2>8 DEF CountExact
  <2> QED BY <2>7, <2>8, <2>9
<1>11. Sleepers'
  <2> DEFINE r == lists'[Sleeping]
  <2>1. q[Sleeping] \in Seq(Task)
    BY <1>2
  <2>2. DOMAIN r = 1..n - duecount
    BY <1>3, <1>5, <1>6, <1>8, <2>1
  <2>3. \A j \in 1..n - duecount : duecount + j \in 1..n /\ r[j] = s[duecount + j]
    BY <1>5, <1>6
  <2> HIDE DEF r
  <2>4. \A j \in 1..n : s[j] \in Task \ {Fdtask} /\ pc[s[j]] = "delay"
    <3>1. \A j \in 1..n : s[j] # Fdtask
      BY <1>2, <1>3, InOn DEF s
    <3>2. \A j \in 1..n : pc[s[j]] = "delay"
      BY <1>3 DEF IInv, Sleepers, s
    <3> QED BY <1>2, <1>3, <3>1, <3>2
  <2>5. \A j \in 1..n - duecount : pc'[r[j]] = "delay"
    BY <1>6, <2>3, <2>4
  <2>6. ASSUME NEW j \in 1..n - duecount, NEW k \in 1..n - duecount, j < k
        PROVE  alarmtime'[r[j]] <= alarmtime'[r[k]]
    <3>1. duecount + j < duecount + k
      BY <1>3, <1>8, <2>6
    <3>2. alarmtime[s[duecount + j]] <= alarmtime[s[duecount + k]]
      BY <1>3, <2>3, <3>1 DEF IInv, Sleepers, s
    <3> QED BY <1>7, <2>3, <3>2
  <2>7. ASSUME NEW u \in User, pc'[u] = "delay"
        PROVE  /\ began'[u] <= alarmtime'[u]
               /\ u \in On(lists', Sleeping) \/ alarmtime'[u] <= clock'
    <3>1. pc[u] = "delay"
      BY <1>6, <2>7 DEF User
    <3>2. began[u] <= alarmtime[u] /\ (u \in On(lists, Sleeping) \/ alarmtime[u] <= clock)
      BY <3>1 DEF IInv, Sleepers
    <3> QED BY <1>5, <1>6, <1>7, <3>2
  <2> QED BY <2>2, <2>5, <2>6, <2>7 DEF Sleepers, r
<1> QED BY <1>1, <1>4, <1>5, <1>9, <1>10, <1>11, GiveWayKeeps

-----------------------------------------------------------------------------
(* The calls of a task, and the invariant. *)

(* fdread1, fdread and fdwrite (fd.c:187-228), each up to its next switch. *)
LEMMA IoKeeps ==
  ASSUME IInv, NEW t \in User, NEW f \in Fd, fdread1(t, f) \/ fdread(t, f) \/ fdwrite_step(t, f)
  PROVE  IInv'
<1>1. Running(t)
  BY DEF fdread1, fdread, fdwrite_step, Call
<1>2. pending \in SUBSET (Fd \X Mode)
  BY DEF IInv, TypeOK
<1>3. \A m \in Mode : consumed(f, m) => pending' \in SUBSET (Fd \X Mode)
  BY <1>2 DEF consumed
<1>4. {"r", "w"} \subseteq Mode
  BY DEF Mode
<1>5. CASE \E m \in Mode, then \in {"read", "write"} : fdwait(t, f, m, then)
  BY <1>1, <1>5, WaitKeeps
<1>6. CASE return(t) /\ pending' \in SUBSET (Fd \X Mode)
  BY <1>1, <1>6, LocalSteps
<1>7. CASE fdwrite_step(t, f) /\ ~return(t) /\ ~fdwait(t, f, "w", "write")
  <2>1. /\ pc[t] = "write" /\ pending' \in SUBSET (Fd \X Mode)
        /\ \E n \in 1..left[t] - 1 : left' = [left EXCEPT ![t] = @ - n]
        /\ UNCHANGED <<schedvars, pc, file, mode, timevars, countvars, loopvars, clock, pollfd>>
    BY <1>3, <1>4, <1>7 DEF fdwrite_step
  <2> QED BY <1>1, <2>1, LocalSteps
<1>8. CASE fdread1(t, f)
  BY <1>4, <1>5, <1>8 DEF fdread1
<1>9. CASE fdread(t, f)
  BY <1>3, <1>4, <1>5, <1>6, <1>9 DEF fdread
<1>10. CASE fdwrite_step(t, f)
  <2>1. fdwrite_step(t, f) => \/ return(t) /\ consumed(f, "w")
                              \/ fdwait(t, f, "w", "write")
                              \/ ~return(t) /\ ~fdwait(t, f, "w", "write")
    BY DEF fdwrite_step
  <2> QED BY <1>3, <1>4, <1>5, <1>6, <1>7, <1>10, <2>1
<1> QED BY <1>8, <1>9, <1>10

LEMMA UserKeeps ==
  ASSUME IInv, NEW t \in User, UserStep(t)
  PROVE  IInv'
<1>1. CASE \E ms \in Delay : taskdelay(t, ms)
  BY <1>1, DelayKeeps
<1>2. CASE taskdelay_resume(t)
  <2>1. Running(t)
    BY <1>2 DEF taskdelay_resume
  <2> QED BY <1>2, <2>1, LocalSteps
<1>3. ASSUME NEW f \in Fd, NEW m \in Mode, wait(t, f, m)
      PROVE  IInv'
  <2>1. Running(t) /\ fdwait(t, f, m, "wait")
    BY <1>3 DEF wait, Call
  <2> QED BY <2>1, WaitKeeps
<1>4. CASE wait_resume(t)
  <2>1. Running(t) /\ return(t) /\ pending' \in SUBSET (Fd \X Mode)
    BY <1>4 DEF wait_resume, IInv, TypeOK
  <2> QED BY <2>1, LocalSteps
<1>5. CASE \E f \in Fd : fdread1(t, f) \/ fdread(t, f) \/ fdwrite_step(t, f)
  BY <1>5, IoKeeps
<1>6. CASE \E f \in Fd, n \in 1..Count : fdwrite(t, f, n)
  <2>1. Running(t)
    BY <1>6 DEF fdwrite, Call
  <2> QED BY <1>6, <2>1, LocalSteps
<1>7. CASE yield(t)
  BY <1>7, YieldKeeps
<1>8. CASE tasksystem(t)
  BY <1>8, SystemKeeps
<1>9. CASE taskexit(t)
  BY <1>9, ExitKeeps
<1> QED BY <1>1, <1>2, <1>3, <1>4, <1>5, <1>6, <1>7, <1>8, <1>9 DEF UserStep

LEMMA FdtaskKeeps ==
  ASSUME IInv, fdtask
  PROVE  IInv'
<1>1. CASE fdtask_start
  BY <1>1, StartKeeps
<1>2. CASE fdtask_yield \/ poll_eintr
  BY <1>2, AgainKeeps
<1>3. CASE fdtask_poll
  BY <1>3, PollKeeps
<1>4. CASE poll_return
  BY <1>4, ReturnKeeps
<1>5. CASE poll_fails
  BY <1>5, EndKeeps DEF poll_fails
<1>6. CASE fdtask_wake
  BY <1>6, WakeKeeps
<1>7. CASE fdtask_next
  BY <1>7, NextKeeps
<1>8. CASE fdtask_alarms
  BY <1>8, AlarmsKeep
<1> QED BY <1>1, <1>2, <1>3, <1>4, <1>5, <1>6, <1>7, <1>8 DEF fdtask

LEMMA InitInv ==
  ASSUME Init
  PROVE  IInv
<1> USE DEF Init
<1>1. User \in SUBSET Task /\ IsFiniteSet(User) /\ Cardinality(User) \in Nat
  <2>1. User \in SUBSET Task
    BY DEF User
  <2> QED BY <2>1, FS_Subset, FS_CardinalityType
<1>2. RunQ \in List /\ Sleeping \in List /\ Sleeping # RunQ /\ Fdtask \in Task /\ Fdtask # nil
  OBVIOUS
<1>3. PICK order \in Bijection(1..Cardinality(User), User) :
        lists = [[l \in List |-> <<>>] EXCEPT ![RunQ] = order]
  OBVIOUS
<1>4. lists = [l \in List |-> lists[l]] /\ lists[RunQ] = order /\ \A l \in List \ {RunQ} : lists[l] = <<>>
  BY <1>2, <1>3
<1>5. /\ lists \in [List -> Seq(Task)] /\ Disjoint(lists) /\ Listed(lists) = User
      /\ lists[Sleeping] = <<>> /\ On(lists, Sleeping) = {}
  <2> HIDE DEF Init
  <2>1. /\ lists \in [List -> Seq(Task)] /\ Disjoint(lists) /\ Listed(lists) = User
        /\ \A l \in List \ {RunQ} : lists[l] = <<>> /\ On(lists, l) = {}
    BY ONLY <1>1, <1>2, <1>4, InitialLists, SMTT(30)
  <2> QED BY <1>2, <2>1
<1>6. Polled = {} /\ Cardinality({}) = 0 /\ pollfd \in Seq(Entry) /\ Len(pollfd) = 0 /\ DOMAIN pollfd = {}
  BY FS_EmptySet DEF Polled
<1>7. \A t \in Task : pc[t] = IF t = Fdtask THEN "start" ELSE "user"
  OBVIOUS
<1>8. Alive = User
  BY <1>7 DEF Alive, User
<1>9. TypeOK
  <2>1. /\ pc \in [Task -> {"start", "yield", "poll", "scan", "user", "delay", "wait",
                            "read", "write", "accept", "dial", "gone"}]
        /\ file \in [Task -> Fd \cup {nil}] /\ mode \in [Task -> Mode]
    BY DEF Mode
  <2>2. left \in [Task -> 0..Count] /\ alarmtime \in [Task -> Nat] /\ began \in [Task -> Nat]
        /\ clock \in 0..Horizon /\ i \in Nat /\ sleepingcounted \in Int
    OBVIOUS
  <2>3. taskcount \in Int
    BY <1>1
  <2>4. Len(pollfd) <= MAXFD
    BY <1>6
  <2>5. /\ taskrunning \in Task \cup {nil} /\ prog \in {"running", "stalled", "aborted", "exited"}
        /\ system \subseteq Task /\ startedfdtask \in BOOLEAN /\ others \in BOOLEAN
        /\ until \in Nat \cup {nil} /\ pending \subseteq Fd \X Mode /\ hot \subseteq Task
    OBVIOUS
  <2> HIDE DEF Init
  <2> QED BY <1>5, <1>6, <2>1, <2>2, <2>3, <2>4, <2>5 DEF TypeOK, SchedTypeOK
<1>10. CountExact
  <2>1. On(lists, Sleeping) \ system = {} /\ Alive \ system = User
    BY <1>5, <1>8
  <2>2. sleepingcounted = 0 /\ taskcount = Cardinality(User)
    OBVIOUS
  <2>3. sleepingcounted = Cardinality(On(lists, Sleeping) \ system)
    BY <1>6, <2>1, <2>2
  <2> HIDE DEF Init
  <2>4. taskcount = Cardinality(Alive \ system) + (IF sleepingcounted > 0 THEN 1 ELSE 0)
    <3>1. (IF sleepingcounted > 0 THEN 1 ELSE 0) = 0
      BY <2>2
    <3>2. taskcount = Cardinality(Alive \ system) /\ taskcount \in Nat
      BY <1>1, <2>1, <2>2
    <3> QED BY <3>1, <3>2
  <2> QED BY <2>3, <2>4 DEF CountExact
<1>11. OnePlace
  <2>1. nil \notin User
    BY DEF User
  <2> QED BY <1>5, <1>6, <1>8, <2>1 DEF OnePlace
<1>12. EntriesExact /\ PollInTime /\ PollWakesExactly
  BY <1>2, <1>6 DEF EntriesExact, PollInTime, Polling, PollWakesExactly, Scanning, Running
<1>13. Control
  BY <1>2, <1>6, <1>7 DEF Control
<1>14. Alone
  BY <1>2, <1>7 DEF Alone
<1>15. Sleepers
  <2>1. DOMAIN lists[Sleeping] = {}
    BY <1>5
  <2> QED BY <1>7, <2>1 DEF Sleepers, User
<1> QED BY <1>9, <1>10, <1>11, <1>12, <1>13, <1>14, <1>15 DEF IInv

LEMMA StutterKeeps ==
  ASSUME IInv, UNCHANGED vars
  PROVE  IInv'
<1>1. UNCHANGED <<schedvars, taskvars, timevars, countvars, loopvars, pollfd, clock>> /\ pending' = pending
  BY DEF vars, kernel
<1>2. pending' \in SUBSET (Fd \X Mode)
  BY <1>1 DEF IInv, TypeOK
<1> QED BY <1>1, <1>2, EventKeeps

(* The invariant holds whatever the tasks call and the kernel does: the    *)
(* time-outs, wake-ups and counts of fd.c fit together.                    *)
THEOREM FdInvariant == Spec => []IInv
<1>1. Init => IInv
  BY InitInv
<1>2. IInv /\ [Next]_vars => IInv'
  <2> SUFFICES ASSUME IInv, [Next]_vars
               PROVE  IInv'
    OBVIOUS
  <2>1. CASE Tick
    BY <2>1, TickKeeps
  <2>2. CASE Event
    <3>1. pending' \in SUBSET (Fd \X Mode)
      BY <2>2 DEF Event, IInv, TypeOK
    <3> QED BY <2>2, <3>1, EventKeeps DEF Event
  <2>3. CASE schedule
    BY <2>3, ScheduleKeeps
  <2>4. CASE fdtask
    BY <2>4, FdtaskKeeps
  <2>5. CASE \E t \in User : UserStep(t)
    BY <2>5, UserKeeps
  <2>6. CASE UNCHANGED vars
    BY <2>6, StutterKeeps
  <2> QED BY <2>1, <2>2, <2>3, <2>4, <2>5, <2>6 DEF Next
<1> QED BY <1>1, <1>2, PTL DEF Spec

(* Every variable of fd.c keeps its type, and no entry is written beyond   *)
(* the end of pollfd and polltask.                                         *)
THEOREM FdTypes == Spec => []TypeOK
<1>1. IInv => TypeOK
  BY DEF IInv
<1> QED BY <1>1, FdInvariant, PTL

(* taskcount and sleepingcounted, which taskdelay and fdtask change in     *)
(* turn, count the tasks that keep the program alive.                      *)
THEOREM FdCounts == Spec => []CountExact
<1>1. IInv => CountExact
  BY DEF IInv
<1> QED BY <1>1, FdInvariant, PTL

(* Nobody is lost between the run queue, sleeping and polltask, or is in   *)
(* two of them.                                                            *)
THEOREM FdPlaces == Spec => []OnePlace
<1>1. IInv => OnePlace
  BY DEF IInv
<1> QED BY <1>1, FdInvariant, PTL

(* The process blocks in poll only when no task is ready. *)
THEOREM FdPollsIdle == Spec => []PollOnlyWhenIdle
<1>1. IInv => PollOnlyWhenIdle
  BY DEF IInv, Alone, PollOnlyWhenIdle, Polling
<1> QED BY <1>1, FdInvariant, PTL

(* A poll ends when the first sleeper is due, or before. *)
THEOREM FdPollsInTime == Spec => []PollInTime
<1>1. IInv => PollInTime
  BY DEF IInv
<1> QED BY <1>1, FdInvariant, PTL

(* An entry of pollfd belongs to the task that waits for it, after any     *)
(* number of swaps.                                                        *)
THEOREM FdEntries == Spec => []EntriesExact
<1>1. IInv => EntriesExact
  BY DEF IInv
<1> QED BY <1>1, FdInvariant, PTL

(* fdtask wakes the tasks poll reported, no others and all of them. *)
THEOREM FdWakes == Spec => []PollWakesExactly
<1>1. IInv => PollWakesExactly
  BY DEF IInv
<1> QED BY <1>1, FdInvariant, PTL

(* taskdelay takes, and reports, at least the time it was asked for. *)
THEOREM FdDelays == Spec => []DelayLongEnough
<1>1. IInv => DelayLongEnough
  <2> SUFFICES ASSUME IInv, NEW t \in User, Running(t), pc[t] = "delay"
               PROVE  slept(t) >= (alarmtime[t] - began[t]) \div Msec
    BY DEF DelayLongEnough
  <2>1. t \notin On(lists, Sleeping) /\ t \in Task
    BY Caller
  <2>2. began[t] <= alarmtime[t] /\ alarmtime[t] <= clock
    BY <2>1 DEF IInv, Sleepers
  <2>3. began[t] \in Nat /\ alarmtime[t] \in Nat /\ clock \in Nat /\ Msec \in Nat \ {0}
    BY <2>1 DEF IInv, TypeOK
  <2> DEFINE x == alarmtime[t] - began[t]
             y == clock - began[t]
  <2>4. x \in Nat /\ y \in Nat /\ x <= y
    BY <2>2, <2>3
  <2> HIDE DEF x, y
  <2>5. x \div Msec <= y \div Msec /\ x \div Msec \in Nat /\ y \div Msec \in Nat
    BY <2>3, <2>4, DivMonotone, Truncated
  <2>6. slept(t) = y \div Msec
    BY DEF slept, y
  <2>7. y \div Msec >= x \div Msec
    BY <2>5
  <2> QED BY <2>6, <2>7 DEF x
<1> QED BY <1>1, FdInvariant, PTL

(* A turn of fdtask's loop leaves nobody asleep whose time has come. *)
THEOREM FdAlarms == Spec => NoneOverslept
<1>1. IInv /\ fdtask_alarms => \A t \in On(lists', Sleeping) : clock < alarmtime[t]
  <2> SUFFICES ASSUME IInv, fdtask_alarms, NEW t \in On(lists', Sleeping)
               PROVE  clock < alarmtime[t]
    OBVIOUS
  <2>1. Running(Fdtask) /\ Sleeping \in List
    BY DEF fdtask_alarms, Scanning
  <2>2. PICK q \in [List -> Seq(Task)] :
          /\ giveway(q) /\ Disjoint(q) /\ Listed(q) = Listed(lists)
          /\ Len(q[Sleeping]) = Len(lists[Sleeping]) - duecount
          /\ \A j \in 1..Len(lists[Sleeping]) - duecount :
               /\ duecount + j \in 1..Len(lists[Sleeping])
               /\ q[Sleeping][j] = lists[Sleeping][duecount + j]
    BY DueMoved
  <2>3. lists'[Sleeping] = q[Sleeping] /\ q[Sleeping] \in Seq(Task)
    BY <2>1, <2>2, GaveWay
  <2>4. PICK j \in DOMAIN q[Sleeping] : q[Sleeping][j] = t
    BY <2>3, InOn
  <2>5. duecount \in 0..Len(lists[Sleeping])
    BY DueFound
  <2>6. j \in 1..Len(lists[Sleeping]) - duecount
    BY <2>2, <2>3, <2>4
  <2>7. duecount + j > duecount
    BY <2>5, <2>6
  <2>8. duecount + j \in 1..Len(lists[Sleeping]) /\ lists[Sleeping][duecount + j] = t
    BY <2>2, <2>4, <2>6
  <2> QED BY <2>7, <2>8, DueFound
<1>2. IInv /\ [Next]_vars => [fdtask_alarms => \A t \in On(lists', Sleeping) : clock < alarmtime[t]]_vars
  BY <1>1
<1> QED BY <1>2, FdInvariant, PTL DEF Spec, NoneOverslept

-----------------------------------------------------------------------------
(* Network connections.  Task t is responsible for descriptor f. *)
Has(t, f) == f \in owns[t] \/ (pc[t] = "dial" /\ f = file[t])

(* NoLeak, one descriptor at a time. *)
LEMMA HasForm ==
  NoLeak <=> (prog # "aborted" =>
                /\ \A f : f \in Open <=> \E t \in User : Has(t, f)
                /\ \A t, u \in User : \A f : Has(t, f) /\ Has(u, f) => t = u)
<1> DEFINE mine(t) == owns[t] \cup {f \in {file[t]} : pc[t] = "dial"}
<1>1. \A t, f : f \in mine(t) <=> Has(t, f)
  BY DEF Has
<1>2. NoLeak <=> (prog # "aborted" =>
                    /\ Open = UNION {mine(t) : t \in User}
                    /\ \A t, u \in User : t # u => mine(t) \cap mine(u) = {})
  BY DEF NoLeak
<1> HIDE DEF mine
<1>3. Open = UNION {mine(t) : t \in User} <=> \A f : f \in Open <=> \E t \in User : Has(t, f)
  <2>1. \A f : f \in UNION {mine(t) : t \in User} <=> \E t \in User : Has(t, f)
    BY <1>1
  <2> QED BY <2>1
<1>4. ASSUME NEW t \in User, NEW u \in User
      PROVE  mine(t) \cap mine(u) = {} <=> \A f : ~(Has(t, f) /\ Has(u, f))
  BY <1>1
<1>5. (\A t, u \in User : t # u => mine(t) \cap mine(u) = {})
        <=> \A t, u \in User : \A f : Has(t, f) /\ Has(u, f) => t = u
  BY <1>4
<1> QED BY <1>2, <1>3, <1>5

(* The same after a step. *)
LEMMA HasFormNext ==
  ASSUME prog' # "aborted" =>
           /\ \A f : f \in Open' <=> \E t \in User : Has(t, f)'
           /\ \A t, u \in User : \A f : Has(t, f)' /\ Has(u, f)' => t = u
  PROVE  NoLeak'
<1> DEFINE mine(t) == owns'[t] \cup {f \in {file'[t]} : pc'[t] = "dial"}
<1>1. \A t, f : f \in mine(t) <=> Has(t, f)'
  BY DEF Has
<1>2. (prog' # "aborted" => /\ Open' = UNION {mine(t) : t \in User}
                            /\ \A t, u \in User : t # u => mine(t) \cap mine(u) = {})
        => NoLeak'
  BY DEF NoLeak
<1> HIDE DEF mine
<1>3. ASSUME prog' # "aborted"
      PROVE  Open' = UNION {mine(t) : t \in User}
  <2>1. \A f : f \in UNION {mine(t) : t \in User} <=> \E t \in User : Has(t, f)'
    BY <1>1
  <2> QED BY <1>3, <2>1
<1>4. ASSUME prog' # "aborted", NEW t \in User, NEW u \in User, t # u
      PROVE  mine(t) \cap mine(u) = {}
  BY <1>1, <1>4
<1> QED BY <1>2, <1>3, <1>4

(* What a step of a running process may rely on. *)
LEMMA Holders ==
  ASSUME NInv, prog = "running"
  PROVE  /\ \A f : f \in Open <=> \E t \in User : Has(t, f)
         /\ \A t, u \in User : \A f : Has(t, f) /\ Has(u, f) => t = u
         /\ Open \subseteq Fd /\ Owned \subseteq Open
         /\ \A f : f \in Owned <=> \E t \in User : f \in owns[t]
         /\ sock \in [Fd -> {"closed", "listening", "deaf", "connecting", "connected", "failed"}]
         /\ nonblock \subseteq Open /\ owns \in [User -> SUBSET Open] /\ robbed \subseteq User
         /\ pending \subseteq Fd \X Mode
         /\ \A t \in User : pc[t] \in {"read", "write", "accept", "dial"} => file[t] \in Open
<1>1. /\ \A f : f \in Open <=> \E t \in User : Has(t, f)
      /\ \A t, u \in User : \A f : Has(t, f) /\ Has(u, f) => t = u
  BY HasForm DEF NInv
<1>2. /\ sock \in [Fd -> {"closed", "listening", "deaf", "connecting", "connected", "failed"}]
      /\ nonblock \subseteq Open /\ owns \in [User -> SUBSET Open] /\ robbed \subseteq User
  BY DEF NInv, NTypeOK
<1>3. pending \subseteq Fd \X Mode
  BY DEF NInv, IInv, TypeOK
<1>4. Open \subseteq Fd
  BY DEF Open
<1>5. \A f : f \in Owned <=> \E t \in User : f \in owns[t]
  BY DEF Owned
<1>6. Owned \subseteq Open
  BY <1>1, <1>5 DEF Has
<1>7. \A t \in User : pc[t] \in {"read", "write", "accept", "dial"} => file[t] \in Open
  BY <1>6 DEF NInv, InUse
<1> QED BY <1>1, <1>2, <1>3, <1>4, <1>5, <1>6, <1>7

(* Nothing happens to the sockets: the tasks of C go from one call to      *)
(* another, and events may be used up on connections only.                 *)
LEMMA QuietKeeps ==
  ASSUME NInv, IInv', prog = "running", UNCHANGED <<sock, nonblock, owns, robbed>>,
         NEW C \in SUBSET User,
         \A u \in User \ C : pc'[u] = pc[u] /\ file'[u] = file[u] /\ mode'[u] = mode[u],
         \A u \in C : /\ pc[u] # "dial"
                      /\ \/ pc'[u] = "user"
                         \/ /\ pc'[u] \in {"read", "write"} /\ file'[u] \in Owned
                            /\ sock[file'[u]] \in {"connected", "failed"}
                         \/ /\ pc'[u] = "accept" /\ file'[u] \in Owned /\ mode'[u] = "r"
                            /\ sock[file'[u]] \in {"listening", "deaf"} /\ u \in Polled',
         \A u \in User \ C : u \in Polled /\ u \notin Polled' =>
           /\ pc[u] = "accept" => possible(file[u], "r")
           /\ pc[u] = "dial" => sock[file[u]] # "connecting",
         \A k \in DOMAIN pollfd' : pollfd'[k].revents => reported(pollfd[k])',
         pending' \subseteq pending,
         \A f \in Fd, m \in Mode : <<f, m>> \in pending /\ <<f, m>> \notin pending'
                                     => sock[f] \in {"connected", "failed"}
  PROVE  NInv'
<1>0. {"r", "e"} \subseteq Mode
  BY DEF Mode
<1>1. Open' = Open /\ Owned' = Owned
  BY DEF Open, Owned
<1>2. NTypeOK'
  BY <1>1 DEF NInv, NTypeOK, IInv
<1>3. \A u \in User : \A f : Has(u, f)' <=> Has(u, f)
  <2>1. ASSUME NEW u \in C, NEW f
        PROVE  Has(u, f)' <=> Has(u, f)
    BY DEF Has
  <2>2. ASSUME NEW u \in User \ C, NEW f
        PROVE  Has(u, f)' <=> Has(u, f)
    BY DEF Has
  <2> QED BY <2>1, <2>2
<1>4. NoLeak'
  BY <1>1, <1>3, Holders, HasFormNext
<1>5. InUse'
  <2>1. ASSUME NEW u \in C
        PROVE  /\ pc'[u] \in {"user", "read", "write", "accept", "dial"}
               /\ pc'[u] \in {"read", "write"} =>
                    file'[u] \in Owned' /\ sock'[file'[u]] \in {"connected", "failed"}
               /\ pc'[u] = "accept" =>
                    file'[u] \in Owned' /\ mode'[u] = "r" /\ sock'[file'[u]] \in {"listening", "deaf"}
               /\ pc'[u] # "dial"
    BY <1>1
  <2>2. ASSUME NEW u \in User \ C
        PROVE  /\ pc'[u] \in {"user", "read", "write", "accept", "dial"}
               /\ pc'[u] \in {"read", "write"} =>
                    file'[u] \in Owned' /\ sock'[file'[u]] \in {"connected", "failed"}
               /\ pc'[u] = "accept" =>
                    file'[u] \in Owned' /\ mode'[u] = "r" /\ sock'[file'[u]] \in {"listening", "deaf"}
               /\ pc'[u] = "dial" =>
                    /\ file'[u] \in Open' \ Owned' /\ mode'[u] = "w"
                    /\ sock'[file'[u]] \in {"connecting", "connected", "failed"}
    BY <1>1 DEF NInv, InUse
  <2> QED BY <2>1, <2>2 DEF InUse
<1>6. Sockets'
  BY DEF NInv, Sockets
<1>7. Woken'
  <2> SUFFICES ASSUME NEW u \in User, u \notin Polled'
               PROVE  /\ pc'[u] = "accept" => possible(file[u], "r")' \/ u \in robbed'
                      /\ pc'[u] = "dial" => sock'[file'[u]] # "connecting"
    BY DEF Woken
  <2>1. CASE u \in C
    BY <2>1
  <2>2. CASE u \notin C
    <3>1. pc'[u] = pc[u] /\ file'[u] = file[u]
      BY <2>2
    <3>2. /\ pc[u] = "accept" => possible(file[u], "r") \/ u \in robbed
          /\ pc[u] = "dial" => sock[file[u]] # "connecting"
      BY <2>2 DEF NInv, Woken
    <3>3. ASSUME pc[u] = "accept", possible(file[u], "r")
          PROVE  possible(file[u], "r")'
      <4>1. file[u] \in Fd /\ sock[file[u]] \in {"listening", "deaf"}
        BY <3>3, Holders DEF NInv, InUse
      <4>2. \E m \in {"r", "e"} : <<file[u], m>> \in pending
        BY <3>3 DEF possible
      <4>3. \E m \in {"r", "e"} : <<file[u], m>> \in pending'
        BY <1>0, <4>1, <4>2
      <4> QED BY <3>1, <4>3 DEF possible
    <3> QED BY <3>1, <3>2, <3>3
  <2> QED BY <2>1, <2>2
<1> QED BY <1>2, <1>4, <1>5, <1>6, <1>7 DEF NInv

(* The scheduler and fdtask. *)
LEMMA NScheduleKeeps ==
  ASSUME NInv, schedule, UNCHANGED netvars
  PROVE  NInv'
<1>1. IInv'
  BY ScheduleKeeps DEF NInv
<1>2. /\ prog = "running" /\ UNCHANGED <<sock, nonblock, owns, robbed>>
      /\ UNCHANGED <<pc, file, mode, pollfd, pending>>
  BY DEF schedule, Stall, Dispatch, Running, netvars, taskvars, kernel
<1>3. Polled' = Polled
  BY <1>2 DEF Polled
<1>4. \A k \in DOMAIN pollfd' : pollfd'[k].revents => reported(pollfd[k])'
  BY <1>2 DEF NInv, Sockets, reported
<1>5. {} \in SUBSET User
  OBVIOUS
<1> QED BY <1>1, <1>2, <1>3, <1>4, <1>5, QuietKeeps

LEMMA NFdtaskKeeps ==
  ASSUME NInv, fdtask, UNCHANGED netvars
  PROVE  NInv'
<1>1. IInv' /\ IInv
  BY FdtaskKeeps DEF NInv
<1>2. /\ Running(Fdtask) /\ prog = "running" /\ UNCHANGED <<sock, nonblock, owns, robbed, file, mode, pending>>
  <2>1. Running(Fdtask)
    BY DEF fdtask, fdtask_start, fdtask_yield, fdtask_poll, poll_return, poll_eintr, poll_fails,
           fdtask_wake, fdtask_next, fdtask_alarms, Polling, Scanning
  <2>2. UNCHANGED <<file, mode, pending>>
    BY DEF fdtask, fdtask_start, fdtask_yield, fdtask_poll, poll_return, poll_eintr, poll_fails,
           fdtask_wake, fdtask_next, fdtask_alarms, giveway, taskvars, kernel
  <2> QED BY <2>1, <2>2 DEF Running, netvars
<1>3. \A u \in User : pc'[u] = pc[u]
  <2>1. pc' = pc \/ \E x : pc' = [pc EXCEPT ![Fdtask] = x]
    BY DEF fdtask, fdtask_start, fdtask_yield, fdtask_poll, poll_return, poll_eintr, poll_fails,
           fdtask_wake, fdtask_next, fdtask_alarms, giveway, taskvars
  <2>2. pc \in [Task -> {"start", "yield", "poll", "scan", "user", "delay", "wait",
                         "read", "write", "accept", "dial", "gone"}]
    BY <1>1 DEF IInv, TypeOK
  <2> QED BY <2>1, <2>2 DEF User
<1>4. {} \in SUBSET User
  OBVIOUS
<1>5. CASE pollfd' = pollfd
  <2>1. Polled' = Polled
    BY <1>5 DEF Polled
  <2>2. \A k \in DOMAIN pollfd' : pollfd'[k].revents => reported(pollfd[k])'
    BY <1>2, <1>5 DEF NInv, Sockets, reported
  <2> QED BY <1>1, <1>2, <1>3, <1>4, <2>1, <2>2, QuietKeeps
<1>6. CASE poll_return
  <2>1. /\ DOMAIN pollfd' = DOMAIN pollfd
        /\ \A k \in DOMAIN pollfd : /\ pollfd'[k].task = pollfd[k].task
                                    /\ pollfd'[k].fd = pollfd[k].fd /\ pollfd'[k].events = pollfd[k].events
                                    /\ pollfd'[k].revents = reported(pollfd[k])
    <3>1. pollfd' = [k \in DOMAIN pollfd |-> [pollfd[k] EXCEPT !.revents = reported(pollfd[k])]]
      BY <1>6 DEF poll_return
    <3>2. \A k \in DOMAIN pollfd : pollfd[k] \in Entry
      BY <1>1, Entries
    <3>3. ASSUME NEW k \in DOMAIN pollfd
          PROVE  /\ pollfd'[k].task = pollfd[k].task
                 /\ pollfd'[k].fd = pollfd[k].fd /\ pollfd'[k].events = pollfd[k].events
                 /\ pollfd'[k].revents = reported(pollfd[k])
      <4>1. pollfd'[k] = [pollfd[k] EXCEPT !.revents = reported(pollfd[k])] /\ pollfd[k] \in Entry
        BY <3>1, <3>2
      <4> QED BY ONLY <4>1 DEF Entry
    <3> QED BY <3>1, <3>3
  <2>2. Polled' = Polled
    BY <2>1 DEF Polled
  <2>3. \A k \in DOMAIN pollfd' : pollfd'[k].revents => reported(pollfd[k])'
    BY <1>2, <2>1 DEF reported
  <2> QED BY <1>1, <1>2, <1>3, <1>4, <2>2, <2>3, QuietKeeps
<1>7. CASE fdtask_wake
  <2> DEFINE n == Len(pollfd)
  <2>1. /\ pollfd \in Seq(Entry) /\ n \in Nat /\ DOMAIN pollfd = 1..n
        /\ \A j, k \in 1..n : pollfd[j].task = pollfd[k].task => j = k
    BY <1>1, Entries
  <2>2. /\ i \in 1..n /\ pollfd[i].revents
        /\ pollfd' = SubSeq([pollfd EXCEPT ![i] = pollfd[n]], 1, n - 1)
    <3>1. i > 0 /\ i \in Nat
      BY <1>1 DEF IInv, Control, TypeOK
    <3> QED BY <1>7, <2>1, <3>1 DEF fdtask_wake
  <2>3. n = Len(pollfd)
    OBVIOUS
  <2> HIDE DEF n
  <2>4. /\ DOMAIN pollfd' = 1..n - 1
        /\ \A k \in 1..n - 1 : pollfd'[k] = IF k = i THEN pollfd[n] ELSE pollfd[k]
    BY ONLY <2>1, <2>2, <2>3, Swapped
  <2>5. \A k \in 1..n - 1 : \E j \in 1..n : pollfd'[k] = pollfd[j]
    BY <2>1, <2>2, <2>4
  <2>6. \A k \in DOMAIN pollfd' : pollfd'[k].revents => reported(pollfd[k])'
    <3>1. \A j \in 1..n : pollfd[j].revents => reported(pollfd[j])
      BY <2>1 DEF NInv, Sockets
    <3> QED BY <1>2, <2>4, <2>5, <3>1 DEF reported
  <2>7. ASSUME NEW u \in Polled, u \notin Polled'
        PROVE  u = pollfd[i].task
    <3>1. PICK k \in 1..n : pollfd[k].task = u
      BY <2>1 DEF Polled
    <3>2. \A j \in 1..n - 1 : pollfd'[j].task # u
      BY <2>4, <2>7 DEF Polled
    <3>3. CASE k = i
      BY <3>1, <3>3
    <3>4. CASE k # i /\ k = n
      <4>1. i \in 1..n - 1 /\ pollfd'[i] = pollfd[n]
        BY <2>1, <2>2, <2>4, <3>4
      <4> QED BY <3>1, <3>2, <3>4, <4>1
    <3>5. CASE k # i /\ k # n
      <4>1. k \in 1..n - 1 /\ pollfd'[k] = pollfd[k]
        BY <2>1, <2>4, <3>5
      <4> QED BY <3>1, <3>2, <4>1
    <3> QED BY <3>3, <3>4, <3>5
  <2>8. ASSUME NEW u \in User, u = pollfd[i].task
        PROVE  /\ pc[u] = "accept" => possible(file[u], "r")
               /\ pc[u] = "dial" => sock[file[u]] # "connecting"
    <3>1. reported(pollfd[i]) /\ i \in DOMAIN pollfd
      BY <2>1, <2>2 DEF NInv, Sockets
    <3>2. file[u] = pollfd[i].fd /\ mode[u] = pollfd[i].events
      BY <1>1, <2>8, <3>1 DEF IInv, EntriesExact
    <3>3. <<file[u], mode[u]>> \in pending \/ <<file[u], "e">> \in pending
      BY <3>1, <3>2 DEF reported
    <3>4. ASSUME pc[u] = "accept"
          PROVE  possible(file[u], "r")
      <4>1. mode[u] = "r"
        BY <3>4 DEF NInv, InUse
      <4> QED BY <3>3, <4>1 DEF possible
    <3>5. ASSUME pc[u] = "dial"
          PROVE  sock[file[u]] # "connecting"
      <4>1. mode[u] = "w" /\ file[u] \in Fd /\ {"w", "e"} \subseteq Mode
        BY <1>2, <3>5, Holders DEF NInv, InUse, Mode
      <4> QED BY <3>3, <4>1 DEF NInv, Sockets
    <3> QED BY <3>4, <3>5
  <2> QED BY <1>1, <1>2, <1>3, <1>4, <2>6, <2>7, <2>8, QuietKeeps
<1> QED BY <1>5, <1>6, <1>7 DEF fdtask, fdtask_start, fdtask_yield, fdtask_poll, poll_eintr, poll_fails,
           fdtask_next, fdtask_alarms

-----------------------------------------------------------------------------
(* The calls of a task. *)

(* What fdwait leaves behind. *)
LEMMA Waited ==
  ASSUME IInv, NEW t \in User, Running(t), NEW f, NEW m, NEW then, fdwait(t, f, m, then)
  PROVE  /\ pending' = pending
         /\ \A u \in User \ {t} : /\ pc'[u] = pc[u] /\ file'[u] = file[u] /\ mode'[u] = mode[u]
                                  /\ u \in Polled' <=> u \in Polled
         /\ \A k \in DOMAIN pollfd' : ~pollfd'[k].revents
         /\ \/ /\ prog' = "aborted" /\ pc' = pc /\ file' = file /\ mode' = mode /\ Polled' = Polled
            \/ /\ prog' = "running" /\ t \in Polled'
               /\ pc'[t] = then /\ file'[t] = f /\ mode'[t] = m
<1>1. pending' = pending /\ prog = "running" /\ \A k \in DOMAIN pollfd : ~pollfd[k].revents
  BY Caller DEF fdwait, kernel
<1>2. /\ pc \in [Task -> {"start", "yield", "poll", "scan", "user", "delay", "wait",
                          "read", "write", "accept", "dial", "gone"}]
      /\ file \in [Task -> Fd \cup {nil}] /\ mode \in [Task -> Mode]
      /\ t \in Task /\ User \subseteq Task
  BY DEF IInv, TypeOK, User
<1>3. CASE prog' = "aborted" /\ UNCHANGED <<pollfd, taskvars>>
  <2>1. pc' = pc /\ file' = file /\ mode' = mode /\ Polled' = Polled /\ pollfd' = pollfd
    BY <1>3 DEF taskvars, Polled
  <2> QED BY <1>1, <1>3, <2>1
<1>4. CASE /\ pollfd' = Append(pollfd, [task |-> t, fd |-> f, events |-> m, revents |-> FALSE])
           /\ pc' = [pc EXCEPT ![t] = then] /\ prog' = prog
           /\ file' = [file EXCEPT ![t] = f] /\ mode' = [mode EXCEPT ![t] = m]
  <2> DEFINE n == Len(pollfd)
             new == [task |-> t, fd |-> f, events |-> m, revents |-> FALSE]
  <2>1. pollfd \in Seq(Entry) /\ n \in Nat /\ DOMAIN pollfd = 1..n
    BY Entries
  <2>2. new.task = t /\ ~new.revents
    OBVIOUS
  <2> HIDE DEF new
  <2>3. /\ DOMAIN pollfd' = 1..n + 1 /\ pollfd'[n + 1] = new /\ \A k \in 1..n : pollfd'[k] = pollfd[k]
    BY <1>4, <2>1 DEF new
  <2> HIDE DEF n
  <2>4. 1..n + 1 = (1..n) \cup {n + 1}
    BY <2>1
  <2>5. \A k \in DOMAIN pollfd' : ~pollfd'[k].revents
    BY <1>1, <2>1, <2>2, <2>3, <2>4
  <2>6. \A u : u \in Polled' <=> u \in Polled \/ u = t
    <3>1. \A u : u \in Polled' <=> \E k \in 1..n + 1 : pollfd'[k].task = u
      BY <2>3 DEF Polled
    <3>2. \A u : u \in Polled <=> \E k \in 1..n : pollfd[k].task = u
      BY <2>1 DEF Polled
    <3> QED BY <2>2, <2>3, <2>4, <3>1, <3>2
  <2>7. /\ pc'[t] = then /\ file'[t] = f /\ mode'[t] = m
        /\ \A u \in User \ {t} : pc'[u] = pc[u] /\ file'[u] = file[u] /\ mode'[u] = mode[u]
    BY <1>2, <1>4
  <2> QED BY <1>1, <1>4, <2>5, <2>6, <2>7
<1> QED BY <1>3, <1>4 DEF fdwait

(* fdwait on an owned descriptor, in netaccept and in the calls of fd.c. *)
LEMMA NWaitKeeps ==
  ASSUME NInv, NEW t \in User, Running(t), pc[t] # "dial", NEW f \in Fd, NEW m \in Mode, f \in Owned,
         NEW then \in {"read", "write", "accept"}, fdwait(t, f, m, then), UNCHANGED netvars,
         then = "accept" => sock[f] \in {"listening", "deaf"} /\ m = "r",
         then \in {"read", "write"} => sock[f] \in {"connected", "failed"}
  PROVE  NInv'
<1>1. IInv /\ IInv' /\ prog = "running" /\ UNCHANGED <<sock, nonblock, owns, robbed>>
  BY WaitKeeps DEF NInv, Running, netvars
<1>2. /\ pending' = pending
      /\ \A u \in User \ {t} : /\ pc'[u] = pc[u] /\ file'[u] = file[u] /\ mode'[u] = mode[u]
                               /\ u \in Polled' <=> u \in Polled
      /\ \A k \in DOMAIN pollfd' : ~pollfd'[k].revents
      /\ \/ /\ prog' = "aborted" /\ pc' = pc /\ file' = file /\ mode' = mode /\ Polled' = Polled
         \/ /\ prog' = "running" /\ t \in Polled'
            /\ pc'[t] = then /\ file'[t] = f /\ mode'[t] = m
  BY <1>1, Waited
<1>3. CASE pc' = pc /\ file' = file /\ mode' = mode /\ Polled' = Polled
  <2>1. {} \in SUBSET User
    OBVIOUS
  <2> QED BY <1>1, <1>2, <1>3, <2>1, QuietKeeps
<1>4. CASE t \in Polled' /\ pc'[t] = then /\ file'[t] = f /\ mode'[t] = m
  <2> DEFINE C == {t}
  <2>1. C \in SUBSET User
    OBVIOUS
  <2>2. \A u \in User \ C : /\ pc'[u] = pc[u] /\ file'[u] = file[u] /\ mode'[u] = mode[u]
                            /\ u \in Polled' <=> u \in Polled
    BY <1>2
  <2>3. \A u \in C : /\ pc[u] # "dial"
                     /\ \/ pc'[u] = "user"
                        \/ /\ pc'[u] \in {"read", "write"} /\ file'[u] \in Owned
                           /\ sock[file'[u]] \in {"connected", "failed"}
                        \/ /\ pc'[u] = "accept" /\ file'[u] \in Owned /\ mode'[u] = "r"
                           /\ sock[file'[u]] \in {"listening", "deaf"} /\ u \in Polled'
    BY <1>4
  <2> HIDE DEF C
  <2> QED BY <1>1, <1>2, <2>1, <2>2, <2>3, QuietKeeps
<1> QED BY <1>2, <1>3, <1>4

(* A step of the running task t that does not switch, on a connection f. *)
LEMMA NLocalKeeps ==
  ASSUME NInv, IInv', NEW t \in User, Running(t), pc[t] # "dial", UNCHANGED netvars, pollfd' = pollfd,
         \A u \in User \ {t} : pc'[u] = pc[u] /\ file'[u] = file[u] /\ mode'[u] = mode[u],
         \/ pc'[t] = "user"
         \/ pc'[t] = "write" /\ file'[t] \in Owned /\ sock[file'[t]] \in {"connected", "failed"},
         NEW f \in Fd, sock[f] \in {"connected", "failed"}, NEW m \in Mode, consumed(f, m)
  PROVE  NInv'
<1>1. IInv /\ prog = "running" /\ UNCHANGED <<sock, nonblock, owns, robbed>> /\ Polled' = Polled
  BY DEF NInv, Running, netvars, Polled
<1>2. \A k \in DOMAIN pollfd' : ~pollfd'[k].revents
  BY <1>1, Caller
<1>3. pending' \subseteq pending
  BY DEF consumed
<1>4. \A g \in Fd, a \in Mode : <<g, a>> \in pending /\ <<g, a>> \notin pending' => g = f
  BY DEF consumed
<1> DEFINE C == {t}
<1>5. C \in SUBSET User
  OBVIOUS
<1>6. \A u \in User \ C : pc'[u] = pc[u] /\ file'[u] = file[u] /\ mode'[u] = mode[u]
  OBVIOUS
<1>7. \A u \in C : /\ pc[u] # "dial"
                   /\ \/ pc'[u] = "user"
                      \/ /\ pc'[u] \in {"read", "write"} /\ file'[u] \in Owned
                         /\ sock[file'[u]] \in {"connected", "failed"}
  OBVIOUS
<1> HIDE DEF C
<1> QED BY <1>1, <1>2, <1>3, <1>4, <1>5, <1>6, <1>7, QuietKeeps

(* Reading and writing. *)
LEMMA NIoKeeps ==
  ASSUME NInv, NEW t \in User, NEW f \in Fd, io(t, f)
  PROVE  NInv'
<1>1. /\ sock[f] \in {"connected", "failed"} /\ f \in Owned /\ UNCHANGED netvars
      /\ {"r", "w"} \subseteq Mode /\ IInv
  BY DEF io, Mode, NInv
<1>2. /\ pc \in [Task -> {"start", "yield", "poll", "scan", "user", "delay", "wait",
                          "read", "write", "accept", "dial", "gone"}]
      /\ file \in [Task -> Fd \cup {nil}] /\ mode \in [Task -> Mode]
      /\ t \in Task /\ User \subseteq Task
  BY <1>1 DEF IInv, TypeOK, User
<1>3. Running(t) /\ pc[t] \in {"user", "read", "write"}
  BY DEF io, fdread1, fdread, fdwrite_step, fdwrite, Call
<1>4. CASE fdwait(t, f, "r", "read") \/ fdwait(t, f, "w", "write")
  BY <1>1, <1>3, <1>4, NWaitKeeps
<1>5. ASSUME NEW m \in Mode, return(t), consumed(f, m), IInv'
      PROVE  NInv'
  <2>1. /\ pc' = [pc EXCEPT ![t] = "user"] /\ file' = [file EXCEPT ![t] = nil]
        /\ mode' = [mode EXCEPT ![t] = "e"] /\ pollfd' = pollfd
    BY <1>5 DEF return
  <2>2. /\ pc'[t] = "user"
        /\ \A u \in User \ {t} : pc'[u] = pc[u] /\ file'[u] = file[u] /\ mode'[u] = mode[u]
    BY <1>2, <2>1
  <2> QED BY <1>1, <1>3, <1>5, <2>1, <2>2, NLocalKeeps
<1>6. CASE fdread1(t, f)
  BY <1>4, <1>6 DEF fdread1
<1>7. CASE fdread(t, f)
  <2>1. IInv'
    BY <1>1, <1>7, IoKeeps
  <2> QED BY <1>1, <1>4, <1>5, <1>7, <2>1 DEF fdread
<1>8. CASE fdwrite_step(t, f)
  <2>1. IInv'
    BY <1>1, <1>8, IoKeeps
  <2>2. CASE consumed(f, "w") /\ UNCHANGED <<pc, file, mode, pollfd>> /\ pc[t] = "write" /\ file[t] = f
    BY <1>1, <1>3, <2>1, <2>2, NLocalKeeps
  <2> QED BY <1>1, <1>4, <1>5, <1>8, <2>1, <2>2 DEF fdwrite_step
<1>9. CASE \E n \in 1..Count : fdwrite(t, f, n)
  <2>1. IInv'
    BY <1>1, <1>3, <1>9, LocalSteps
  <2>2. /\ pc' = [pc EXCEPT ![t] = "write"] /\ file' = [file EXCEPT ![t] = f] /\ mode' = mode
        /\ pollfd' = pollfd /\ pending' = pending
    BY <1>9 DEF fdwrite, kernel
  <2>3. /\ pc'[t] = "write" /\ file'[t] = f
        /\ \A u \in User \ {t} : pc'[u] = pc[u] /\ file'[u] = file[u] /\ mode'[u] = mode[u]
    BY <1>2, <2>2
  <2>4. consumed(f, "w")
    BY <2>2 DEF consumed
  <2> QED BY <1>1, <1>3, <2>1, <2>2, <2>3, <2>4, NLocalKeeps
<1> QED BY <1>6, <1>7, <1>8, <1>9 DEF io

(* netaccept up to its fdwait (net.c:74-79). *)
LEMMA NAcceptKeeps ==
  ASSUME NInv, NEW t \in User, NEW f \in Fd, sock[f] \in {"listening", "deaf"}, netaccept(t, f)
  PROVE  NInv'
<1>1. /\ Running(t) /\ prog = "running" /\ pc[t] = "user" /\ fdwait(t, f, "r", "accept")
      /\ UNCHANGED netvars /\ "r" \in Mode
  BY DEF netaccept, Call, Running, Mode
<1>2. f \in Owned
  <2>1. f \in Open
    BY DEF Open
  <2>2. PICK u \in User : Has(u, f)
    BY <1>1, <2>1, Holders
  <2>3. f \in owns[u]
    BY <2>2 DEF Has, NInv, InUse
  <2> QED BY <2>3 DEF Owned
<1> QED BY <1>1, <1>2, NWaitKeeps

-----------------------------------------------------------------------------
(* What happens to the sockets. *)

(* The network, outside the process. *)
LEMMA NEventKeeps ==
  ASSUME NInv, NEW f \in Fd, NEvent(f)
  PROVE  NInv'
<1>1. prog = "running" /\ IInv /\ {"r", "w", "e"} = Mode
  BY DEF NEvent, NInv, Mode
<1>2. /\ sock \in [Fd -> {"closed", "listening", "deaf", "connecting", "connected", "failed"}]
      /\ nonblock \subseteq Open /\ owns \in [User -> SUBSET Open] /\ robbed \subseteq User
      /\ pending \subseteq Fd \X Mode
  BY <1>1, Holders
<1>3. \E m \in Mode : arrives(<<f, m>>)
  BY <1>1 DEF NEvent
<1>4. PICK m \in Mode : pending' = pending \cup {<<f, m>>}
  BY <1>3 DEF arrives
<1>5. UNCHANGED <<schedvars, taskvars, timevars, countvars, loopvars, pollfd, clock, nonblock, owns, robbed>>
  BY <1>3 DEF arrives
<1>6. UNCHANGED <<lists, taskrunning, prog, pc, file, mode, pollfd, nonblock, owns, robbed>>
  BY <1>5 DEF schedvars, taskvars
<1>7. IInv'
  <2>1. pending' \in SUBSET (Fd \X Mode)
    BY <1>2, <1>4
  <2> QED BY <1>1, <1>5, <2>1, EventKeeps
<1>8. /\ sock' \in [Fd -> {"closed", "listening", "deaf", "connecting", "connected", "failed"}]
      /\ \A g \in Fd \ {f} : sock'[g] = sock[g]
      /\ \/ sock'[f] = sock[f] /\ sock[f] \in {"listening", "connected"}
         \/ sock[f] \in {"connecting", "connected"} /\ sock'[f] \in {"connected", "failed"}
  BY <1>2 DEF NEvent
<1>9. Open' = Open /\ Owned' = Owned
  BY <1>6, <1>8 DEF Open, Owned
<1>10. NTypeOK'
  BY <1>2, <1>6, <1>7, <1>8, <1>9 DEF NTypeOK, IInv
<1>11. NoLeak'
  <2>1. \A u \in User : \A g : Has(u, g)' <=> Has(u, g)
    BY <1>6 DEF Has
  <2> QED BY <1>1, <1>9, <2>1, Holders, HasFormNext
<1>12. InUse'
  <2> SUFFICES ASSUME NEW u \in User
               PROVE  /\ pc[u] \in {"user", "read", "write", "accept", "dial"}
                      /\ pc[u] \in {"read", "write"} =>
                           file[u] \in Owned /\ sock'[file[u]] \in {"connected", "failed"}
                      /\ pc[u] = "accept" =>
                           file[u] \in Owned /\ mode[u] = "r" /\ sock'[file[u]] \in {"listening", "deaf"}
                      /\ pc[u] = "dial" =>
                           /\ file[u] \in Open \ Owned /\ mode[u] = "w"
                           /\ sock'[file[u]] \in {"connecting", "connected", "failed"}
    BY <1>6, <1>9 DEF InUse
  <2>1. \A g \in Fd : /\ sock[g] \in {"connected", "failed"} => sock'[g] \in {"connected", "failed"}
                      /\ sock[g] \in {"listening", "deaf"} => sock'[g] = sock[g]
                      /\ sock[g] \in {"connecting", "connected", "failed"}
                           => sock'[g] \in {"connecting", "connected", "failed"}
    BY <1>8
  <2>2. pc[u] \in {"read", "write", "accept", "dial"} => file[u] \in Fd
    BY <1>1, Holders
  <2> QED BY <2>1, <2>2 DEF NInv, InUse
<1>13. Sockets'
  <2>1. ASSUME NEW g \in Fd, sock'[g] \in {"closed", "connecting"}, NEW a \in Mode
        PROVE  <<g, a>> \notin pending'
    <3>1. g # f /\ sock[g] \in {"closed", "connecting"}
      BY <1>8, <2>1
    <3> QED BY <1>4, <3>1 DEF NInv, Sockets
  <2>2. ASSUME NEW g \in Fd, sock'[g] \in {"listening", "deaf"}
        PROVE  g \in nonblock'
    BY <1>6, <1>8, <2>2 DEF NInv, Sockets
  <2>3. \A k \in DOMAIN pollfd' : pollfd'[k].revents => reported(pollfd[k])'
    BY <1>4, <1>6 DEF NInv, Sockets, reported
  <2> QED BY <2>1, <2>2, <2>3 DEF Sockets
<1>14. Woken'
  <2> SUFFICES ASSUME NEW u \in User \ Polled
               PROVE  /\ pc[u] = "accept" => possible(file[u], "r")' \/ u \in robbed
                      /\ pc[u] = "dial" => sock'[file[u]] # "connecting"
    <3>1. Polled' = Polled
      BY <1>6 DEF Polled
    <3> QED BY <1>6, <3>1 DEF Woken
  <2>1. possible(file[u], "r") => possible(file[u], "r")'
    BY <1>4, <1>6 DEF possible
  <2>2. \A g \in Fd : sock[g] # "connecting" => sock'[g] # "connecting"
    BY <1>8
  <2>3. pc[u] = "dial" => file[u] \in Fd
    BY <1>1, Holders
  <2> QED BY <2>1, <2>2, <2>3 DEF NInv, Woken
<1> QED BY <1>7, <1>10, <1>11, <1>12, <1>13, <1>14 DEF NInv

(* netannounce (net.c:14-61). *)
LEMMA NAnnounceKeeps ==
  ASSUME NInv, NEW t \in User, NEW f \in Fd, netannounce(t, f)
  PROVE  NInv'
<1>1. prog = "running" /\ IInv /\ "e" \in Mode
  BY DEF netannounce, Call, Running, NInv, Mode
<1>2. /\ sock \in [Fd -> {"closed", "listening", "deaf", "connecting", "connected", "failed"}]
      /\ nonblock \subseteq Open /\ owns \in [User -> SUBSET Open] /\ robbed \subseteq User
      /\ pending \subseteq Fd \X Mode /\ Open \subseteq Fd
  BY <1>1, Holders
<1>3. /\ UNCHANGED <<schedvars, taskvars, timevars, countvars, loopvars, pollfd, clock, robbed>>
      /\ nonblock' = nonblock \cup {f} /\ owns' = [owns EXCEPT ![t] = @ \cup {f}]
      /\ sock[f] = "closed" /\ \E s \in {"listening", "deaf"} : sock' = [sock EXCEPT ![f] = s]
      /\ pending' = pending \/ pending' = pending \cup {<<f, "e">>}
  BY DEF netannounce, keeps, listen, opened, fdnoblock
<1>4. UNCHANGED <<lists, taskrunning, prog, pc, file, mode, pollfd, robbed>>
  BY <1>3 DEF schedvars, taskvars
<1>5. IInv'
  <2>1. pending' \in SUBSET (Fd \X Mode)
    BY <1>1, <1>2, <1>3
  <2> QED BY <1>1, <1>3, <2>1, EventKeeps
<1>6. /\ sock' \in [Fd -> {"closed", "listening", "deaf", "connecting", "connected", "failed"}]
      /\ sock'[f] \in {"listening", "deaf"} /\ \A g \in Fd \ {f} : sock'[g] = sock[g]
  BY <1>2, <1>3
<1>7. Open' = Open \cup {f} /\ f \notin Open
  BY <1>3, <1>6 DEF Open
<1>8. owns'[t] = owns[t] \cup {f} /\ \A u \in User \ {t} : owns'[u] = owns[u]
  BY <1>2, <1>3
<1>9. \A g : g \in Owned' <=> g \in Owned \/ g = f
  <2>1. \A g : g \in Owned' <=> \E u \in User : g \in owns'[u]
    BY DEF Owned
  <2>2. \A g : g \in Owned <=> \E u \in User : g \in owns[u]
    BY DEF Owned
  <2> QED BY <1>8, <2>1, <2>2
<1>10. NTypeOK'
  <2>1. owns' \in [User -> SUBSET Open']
    BY <1>2, <1>3, <1>7
  <2>2. nonblock' \subseteq Open' /\ robbed' \subseteq User
    BY <1>2, <1>3, <1>7
  <2> QED BY <1>5, <1>6, <2>1, <2>2 DEF NTypeOK, IInv
<1>11. \A u \in User : pc[u] \in {"read", "write", "accept", "dial"} =>
          file[u] \in Fd /\ file[u] # f /\ sock'[file[u]] = sock[file[u]]
  BY <1>1, <1>2, <1>6, <1>7, Holders
<1>12. NoLeak'
  <2>1. \A u \in User : \A g : Has(u, g)' <=> Has(u, g) \/ (u = t /\ g = f)
    BY <1>4, <1>8 DEF Has
  <2>2. \A u \in User : ~Has(u, f)
    BY <1>1, <1>7, Holders
  <2>3. \A g : g \in Open' <=> \E u \in User : Has(u, g)'
    BY <1>1, <1>7, <2>1, Holders
  <2>4. \A u, v \in User : \A g : Has(u, g)' /\ Has(v, g)' => u = v
    BY <1>1, <2>1, <2>2, Holders
  <2> QED BY <2>3, <2>4, HasFormNext
<1>13. InUse'
  BY <1>4, <1>7, <1>9, <1>11 DEF NInv, InUse
<1>14. Sockets'
  <2>1. ASSUME NEW g \in Fd, sock'[g] \in {"closed", "connecting"}, NEW a \in Mode
        PROVE  <<g, a>> \notin pending'
    <3>1. g # f /\ sock[g] \in {"closed", "connecting"}
      BY <1>6, <2>1
    <3> QED BY <1>3, <3>1 DEF NInv, Sockets
  <2>2. ASSUME NEW g \in Fd, sock'[g] \in {"listening", "deaf"}
        PROVE  g \in nonblock'
    BY <1>3, <1>6, <2>2 DEF NInv, Sockets
  <2>3. \A k \in DOMAIN pollfd' : pollfd'[k].revents => reported(pollfd[k])'
    BY <1>3, <1>4 DEF NInv, Sockets, reported
  <2> QED BY <2>1, <2>2, <2>3 DEF Sockets
<1>15. Woken'
  <2> SUFFICES ASSUME NEW u \in User \ Polled
               PROVE  /\ pc[u] = "accept" => possible(file[u], "r")' \/ u \in robbed
                      /\ pc[u] = "dial" => sock'[file[u]] # "connecting"
    <3>1. Polled' = Polled
      BY <1>4 DEF Polled
    <3> QED BY <1>4, <3>1 DEF Woken
  <2>1. possible(file[u], "r") => possible(file[u], "r")'
    BY <1>3, <1>4 DEF possible
  <2> QED BY <1>11, <2>1 DEF NInv, Woken
<1> QED BY <1>5, <1>10, <1>12, <1>13, <1>14, <1>15 DEF NInv

(* netaccept goes on after its fdwait (net.c:82-92): it returns without a  *)
(* connection (G is empty) or with one (G has its descriptor).             *)
LEMMA AcceptedKeeps ==
  ASSUME NInv, NEW t \in User, Running(t), pc[t] = "accept", return(t),
         NEW G \in SUBSET Fd, \A g, h \in G : g = h,
         \A g \in G : sock[g] = "closed" /\ sock'[g] = "connected",
         \A g \in Fd \ G : sock'[g] = sock[g],
         sock' \in [Fd -> {"closed", "listening", "deaf", "connecting", "connected", "failed"}],
         nonblock' = nonblock \cup G, owns' = [owns EXCEPT ![t] = @ \cup G],
         consumed(file[t], "r"),
         robbed' = (IF pending' = pending THEN robbed ELSE robbed \cup alsowoken(file[t])) \ {t}
  PROVE  NInv'
<1>1. prog = "running" /\ IInv /\ t \in Task /\ User \subseteq Task
  BY DEF Running, NInv, User
<1>2. /\ sock \in [Fd -> {"closed", "listening", "deaf", "connecting", "connected", "failed"}]
      /\ nonblock \subseteq Open /\ owns \in [User -> SUBSET Open] /\ robbed \subseteq User
      /\ pending \subseteq Fd \X Mode /\ Open \subseteq Fd
  BY <1>1, Holders
<1>3. pending' \subseteq pending
  BY DEF consumed
<1>4. IInv'
  BY <1>1, <1>2, <1>3, LocalSteps
<1>5. pc'[t] = "user" /\ \A u \in User \ {t} : pc'[u] = pc[u] /\ file'[u] = file[u] /\ mode'[u] = mode[u]
  <2>1. pc' = [pc EXCEPT ![t] = "user"] /\ file' = [file EXCEPT ![t] = nil] /\ mode' = [mode EXCEPT ![t] = "e"]
    BY DEF return
  <2>2. /\ pc \in [Task -> {"start", "yield", "poll", "scan", "user", "delay", "wait",
                            "read", "write", "accept", "dial", "gone"}]
        /\ file \in [Task -> Fd \cup {nil}] /\ mode \in [Task -> Mode]
    BY <1>1 DEF IInv, TypeOK
  <2> QED BY <1>1, <2>1, <2>2
<1>6. pollfd' = pollfd /\ prog' = prog /\ \A k \in DOMAIN pollfd : ~pollfd[k].revents
  BY <1>1, Caller DEF return, schedvars
<1>7. Open' = Open \cup G /\ \A g \in G : g \notin Open
  BY DEF Open
<1>8. owns'[t] = owns[t] \cup G /\ \A u \in User \ {t} : owns'[u] = owns[u]
  BY <1>2
<1>9. \A g : g \in Owned' <=> g \in Owned \/ g \in G
  <2>1. \A g : g \in Owned' <=> \E u \in User : g \in owns'[u]
    BY DEF Owned
  <2>2. \A g : g \in Owned <=> \E u \in User : g \in owns[u]
    BY DEF Owned
  <2> QED BY <1>8, <2>1, <2>2
<1>10. NTypeOK'
  <2>1. owns' \in [User -> SUBSET Open']
    BY <1>2, <1>7
  <2>2. nonblock' \subseteq Open'
    BY <1>2, <1>7
  <2>3. robbed' \subseteq User
    BY <1>2 DEF alsowoken
  <2> QED BY <1>4, <2>1, <2>2, <2>3 DEF NTypeOK, IInv
<1>11. \A u \in User : pc[u] \in {"read", "write", "accept", "dial"} =>
          file[u] \in Fd /\ file[u] \notin G /\ sock'[file[u]] = sock[file[u]]
  BY <1>1, <1>2, <1>7, Holders
<1>12. NoLeak'
  <2>1. \A u \in User : \A g : Has(u, g)' <=> Has(u, g) \/ (u = t /\ g \in G)
    <3>1. ASSUME NEW g
          PROVE  Has(t, g)' <=> Has(t, g) \/ g \in G
      BY <1>5, <1>8 DEF Has
    <3>2. ASSUME NEW u \in User \ {t}, NEW g
          PROVE  Has(u, g)' <=> Has(u, g)
      BY <1>5, <1>8 DEF Has
    <3> QED BY <3>1, <3>2
  <2>2. \A u \in User : \A g \in G : ~Has(u, g)
    BY <1>1, <1>7, Holders
  <2>3. \A g : g \in Open' <=> \E u \in User : Has(u, g)'
    BY <1>1, <1>7, <2>1, Holders
  <2>4. \A u, v \in User : \A g : Has(u, g)' /\ Has(v, g)' => u = v
    BY <1>1, <2>1, <2>2, Holders
  <2> QED BY <2>3, <2>4, HasFormNext
<1>13. InUse'
  <2> SUFFICES ASSUME NEW u \in User \ {t}
               PROVE  /\ pc[u] \in {"user", "read", "write", "accept", "dial"}
                      /\ pc[u] \in {"read", "write"} =>
                           file[u] \in Owned' /\ sock'[file[u]] \in {"connected", "failed"}
                      /\ pc[u] = "accept" =>
                           file[u] \in Owned' /\ mode[u] = "r" /\ sock'[file[u]] \in {"listening", "deaf"}
                      /\ pc[u] = "dial" =>
                           /\ file[u] \in Open' \ Owned' /\ mode[u] = "w"
                           /\ sock'[file[u]] \in {"connecting", "connected", "failed"}
    BY <1>5 DEF InUse
  <2> QED BY <1>7, <1>9, <1>11 DEF NInv, InUse
<1>14. Sockets'
  <2>1. \A g \in Fd : sock'[g] \in {"closed", "connecting"} => g \notin G
    OBVIOUS
  <2>2. \A g \in Fd : sock'[g] \in {"listening", "deaf"} => g \notin G
    OBVIOUS
  <2> QED BY <1>3, <1>6, <2>1, <2>2 DEF NInv, Sockets
<1>15. Woken'
  <2> SUFFICES ASSUME NEW u \in User \ {t}, u \notin Polled
               PROVE  /\ pc[u] = "accept" => possible(file[u], "r")' \/ u \in robbed'
                      /\ pc[u] = "dial" => sock'[file[u]] # "connecting"
    <3>1. Polled' = Polled
      BY <1>6 DEF Polled
    <3> QED BY <1>5, <3>1 DEF Woken
  <2>1. ASSUME pc[u] = "accept", u \notin robbed'
        PROVE  possible(file[u], "r")'
    <3>1. u \notin robbed
      BY <2>1
    <3>2. possible(file[u], "r") /\ file'[u] = file[u]
      BY <1>5, <2>1, <3>1 DEF NInv, Woken
    <3>3. CASE pending' = pending
      BY <3>2, <3>3 DEF possible
    <3>4. CASE pending' # pending
      <4>1. u \notin alsowoken(file[t]) /\ pending' = pending \ {<<file[t], "r">>}
        BY <2>1, <3>4 DEF consumed
      <4>2. file[u] # file[t]
        BY <2>1, <4>1 DEF alsowoken
      <4> QED BY <3>2, <4>1, <4>2 DEF possible
    <3> QED BY <3>3, <3>4
  <2> QED BY <1>11, <2>1 DEF NInv, Woken
<1> QED BY <1>4, <1>10, <1>12, <1>13, <1>14, <1>15 DEF NInv

LEMMA NAcceptResumeKeeps ==
  ASSUME NInv, NEW t \in User, netaccept_resume(t)
  PROVE  NInv'
<1> DEFINE f == file[t]
<1>1. /\ Running(t) /\ prog = "running" /\ pc[t] = "accept" /\ return(t)
      /\ robbed' = (IF pending' = pending THEN robbed ELSE robbed \cup alsowoken(f)) \ {t}
  BY DEF netaccept_resume, Running
<1>2. /\ sock \in [Fd -> {"closed", "listening", "deaf", "connecting", "connected", "failed"}]
      /\ owns \in [User -> SUBSET Open]
  BY <1>1, Holders
<1>3. ASSUME NEW g \in Fd, consumed(f, "r"), opened(g, "connected"), fdnoblock(g),
             owns' = [owns EXCEPT ![t] = @ \cup {g}]
      PROVE  NInv'
  <2> DEFINE G == {g}
  <2>1. /\ G \in SUBSET Fd /\ \A a, b \in G : a = b
        /\ \A a \in G : sock[a] = "closed" /\ sock'[a] = "connected"
        /\ \A a \in Fd \ G : sock'[a] = sock[a]
        /\ sock' \in [Fd -> {"closed", "listening", "deaf", "connecting", "connected", "failed"}]
        /\ nonblock' = nonblock \cup G /\ owns' = [owns EXCEPT ![t] = @ \cup G]
    BY <1>2, <1>3 DEF opened, fdnoblock
  <2> HIDE DEF G
  <2> QED BY <1>1, <1>3, <2>1, AcceptedKeeps
<1>4. CASE consumed(f, "r") /\ UNCHANGED <<sock, nonblock, owns>>
  <2> DEFINE G == {}
  <2>1. /\ G \in SUBSET Fd /\ \A a, b \in G : a = b
        /\ \A a \in G : sock[a] = "closed" /\ sock'[a] = "connected"
        /\ \A a \in Fd \ G : sock'[a] = sock[a]
        /\ sock' \in [Fd -> {"closed", "listening", "deaf", "connecting", "connected", "failed"}]
        /\ nonblock' = nonblock \cup G
    BY <1>2, <1>4
  <2>2. owns' = [owns EXCEPT ![t] = @ \cup G]
    <3>1. owns[t] \cup G = owns[t]
      OBVIOUS
    <3> QED BY <1>2, <1>4, <3>1
  <2> HIDE DEF G
  <2> QED BY <1>1, <1>4, <2>1, <2>2, AcceptedKeeps
<1>5. pending' = pending => consumed(f, "r")
  BY DEF consumed
<1> QED BY <1>3, <1>4, <1>5 DEF netaccept_resume

(* netdial up to its fdwait (net.c:145-173). *)
LEMMA NDialKeeps ==
  ASSUME NInv, NEW t \in User, NEW f \in Fd, netdial(t, f)
  PROVE  NInv'
<1>1. /\ prog = "running" /\ IInv /\ "w" \in Mode /\ Running(t) /\ pc[t] = "user"
      /\ fdwait(t, f, "w", "dial") /\ UNCHANGED <<owns, robbed>>
      /\ sock[f] = "closed" /\ sock' = [sock EXCEPT ![f] = "connecting"] /\ nonblock' = nonblock \cup {f}
  BY DEF netdial, Call, Running, NInv, Mode, opened, fdnoblock
<1>2. /\ sock \in [Fd -> {"closed", "listening", "deaf", "connecting", "connected", "failed"}]
      /\ nonblock \subseteq Open /\ owns \in [User -> SUBSET Open] /\ robbed \subseteq User
      /\ Open \subseteq Fd /\ Owned \subseteq Open
  BY <1>1, Holders
<1>3. IInv'
  BY <1>1, WaitKeeps
<1>4. /\ pending' = pending
      /\ \A u \in User \ {t} : /\ pc'[u] = pc[u] /\ file'[u] = file[u] /\ mode'[u] = mode[u]
                               /\ u \in Polled' <=> u \in Polled
      /\ \A k \in DOMAIN pollfd' : ~pollfd'[k].revents
      /\ \/ /\ prog' = "aborted" /\ pc' = pc /\ file' = file /\ mode' = mode /\ Polled' = Polled
         \/ /\ prog' = "running" /\ t \in Polled'
            /\ pc'[t] = "dial" /\ file'[t] = f /\ mode'[t] = "w"
  BY <1>1, Waited
<1>5. /\ sock' \in [Fd -> {"closed", "listening", "deaf", "connecting", "connected", "failed"}]
      /\ sock'[f] = "connecting" /\ \A g \in Fd \ {f} : sock'[g] = sock[g]
  BY <1>1, <1>2
<1>6. Open' = Open \cup {f} /\ f \notin Open /\ Owned' = Owned
  BY <1>1, <1>5 DEF Open, Owned
<1>7. NTypeOK'
  <2>1. owns' \in [User -> SUBSET Open']
    BY <1>1, <1>2, <1>6
  <2>2. nonblock' \subseteq Open' /\ robbed' \subseteq User
    BY <1>1, <1>2, <1>6
  <2> QED BY <1>3, <1>5, <2>1, <2>2 DEF NTypeOK, IInv
<1>8. \A u \in User : pc[u] \in {"read", "write", "accept", "dial"} =>
          file[u] \in Fd /\ file[u] # f /\ sock'[file[u]] = sock[file[u]]
  BY <1>1, <1>2, <1>5, <1>6, Holders
<1>9. NoLeak'
  <2> SUFFICES ASSUME prog' # "aborted"
               PROVE  /\ \A g : g \in Open' <=> \E u \in User : Has(u, g)'
                      /\ \A u, v \in User : \A g : Has(u, g)' /\ Has(v, g)' => u = v
    BY HasFormNext
  <2>1. \A u \in User : \A g : Has(u, g)' <=> Has(u, g) \/ (u = t /\ g = f)
    <3>1. ASSUME NEW g
          PROVE  Has(t, g)' <=> Has(t, g) \/ g = f
      BY <1>1, <1>4 DEF Has
    <3>2. ASSUME NEW u \in User \ {t}, NEW g
          PROVE  Has(u, g)' <=> Has(u, g)
      BY <1>1, <1>4 DEF Has
    <3> QED BY <3>1, <3>2
  <2>2. \A u \in User : ~Has(u, f)
    BY <1>1, <1>6, Holders
  <2>3. \A g : g \in Open' <=> \E u \in User : Has(u, g)'
    BY <1>1, <1>6, <2>1, Holders
  <2>4. \A u, v \in User : \A g : Has(u, g)' /\ Has(v, g)' => u = v
    BY <1>1, <2>1, <2>2, Holders
  <2> QED BY <2>3, <2>4
<1>10. InUse'
  <2>1. ASSUME NEW u \in User, pc'[u] = pc[u], file'[u] = file[u], mode'[u] = mode[u]
        PROVE  /\ pc'[u] \in {"user", "read", "write", "accept", "dial"}
               /\ pc'[u] \in {"read", "write"} =>
                    file'[u] \in Owned' /\ sock'[file'[u]] \in {"connected", "failed"}
               /\ pc'[u] = "accept" =>
                    file'[u] \in Owned' /\ mode'[u] = "r" /\ sock'[file'[u]] \in {"listening", "deaf"}
               /\ pc'[u] = "dial" =>
                    /\ file'[u] \in Open' \ Owned' /\ mode'[u] = "w"
                    /\ sock'[file'[u]] \in {"connecting", "connected", "failed"}
    BY <1>6, <1>8, <2>1 DEF NInv, InUse
  <2>2. ASSUME pc'[t] = "dial", file'[t] = f, mode'[t] = "w"
        PROVE  file'[t] \in Open' \ Owned' /\ sock'[file'[t]] = "connecting"
    BY <1>2, <1>5, <1>6, <2>2
  <2> QED BY <1>4, <2>1, <2>2 DEF InUse
<1>11. Sockets'
  <2>1. ASSUME NEW g \in Fd, sock'[g] \in {"closed", "connecting"}, NEW a \in Mode
        PROVE  <<g, a>> \notin pending'
    <3>1. sock[g] \in {"closed", "connecting"}
      BY <1>1, <1>5, <2>1
    <3> QED BY <1>4, <3>1 DEF NInv, Sockets
  <2>2. ASSUME NEW g \in Fd, sock'[g] \in {"listening", "deaf"}
        PROVE  g \in nonblock'
    BY <1>1, <1>5, <2>2 DEF NInv, Sockets
  <2> QED BY <1>4, <2>1, <2>2 DEF Sockets
<1>12. Woken'
  <2> SUFFICES ASSUME NEW u \in User, u \notin Polled'
               PROVE  /\ pc'[u] = "accept" => possible(file[u], "r")' \/ u \in robbed'
                      /\ pc'[u] = "dial" => sock'[file'[u]] # "connecting"
    BY DEF Woken
  <2>1. pc'[u] = pc[u] /\ file'[u] = file[u] /\ u \notin Polled
    <3>1. CASE u = t
      BY <1>4, <3>1
    <3>2. CASE u # t
      BY <1>4, <3>2
    <3> QED BY <3>1, <3>2
  <2>2. possible(file[u], "r")' <=> possible(file[u], "r")
    BY <1>4, <2>1 DEF possible
  <2> QED BY <1>1, <1>8, <2>1, <2>2 DEF NInv, Woken
<1> QED BY <1>3, <1>7, <1>9, <1>10, <1>11, <1>12 DEF NInv

(* netdial goes on after its fdwait (net.c:175-196). *)
LEMMA NDialResumeKeeps ==
  ASSUME NInv, NEW t \in User, netdial_resume(t)
  PROVE  NInv'
<1> DEFINE f == file[t]
<1>1. /\ prog = "running" /\ IInv /\ Running(t) /\ pc[t] = "dial" /\ return(t) /\ robbed' = robbed
      /\ t \in Task /\ User \subseteq Task
  BY DEF netdial_resume, Running, NInv, User
<1>2. /\ sock \in [Fd -> {"closed", "listening", "deaf", "connecting", "connected", "failed"}]
      /\ nonblock \subseteq Open /\ owns \in [User -> SUBSET Open] /\ robbed \subseteq User
      /\ pending \subseteq Fd \X Mode /\ Open \subseteq Fd /\ Owned \subseteq Open
  BY <1>1, Holders
<1>3. pc'[t] = "user" /\ \A u \in User \ {t} : pc'[u] = pc[u] /\ file'[u] = file[u] /\ mode'[u] = mode[u]
  <2>1. pc' = [pc EXCEPT ![t] = "user"] /\ file' = [file EXCEPT ![t] = nil] /\ mode' = [mode EXCEPT ![t] = "e"]
    BY <1>1 DEF return
  <2>2. /\ pc \in [Task -> {"start", "yield", "poll", "scan", "user", "delay", "wait",
                            "read", "write", "accept", "dial", "gone"}]
        /\ file \in [Task -> Fd \cup {nil}] /\ mode \in [Task -> Mode]
    BY <1>1 DEF IInv, TypeOK
  <2> QED BY <1>1, <2>1, <2>2
<1>4. pollfd' = pollfd /\ prog' = prog /\ \A k \in DOMAIN pollfd : ~pollfd[k].revents
  BY <1>1, Caller DEF return, schedvars
<1>5. pending' \subseteq pending
  BY DEF netdial_resume, closed
<1>6. IInv'
  <2>1. pending' \in SUBSET (Fd \X Mode)
    BY <1>2, <1>5
  <2> QED BY <1>1, <2>1, LocalSteps
<1>7. /\ f \in Open \ Owned /\ f \in Fd /\ Has(t, f)
      /\ \A u \in User \ {t} : ~Has(u, f)
  BY <1>1, <1>2, Holders DEF NInv, InUse, Has
<1>8. \A u \in User \ {t} : pc[u] \in {"read", "write", "accept", "dial"} => file[u] \in Fd /\ file[u] # f
  <2>1. ASSUME NEW u \in User \ {t}, pc[u] = "dial"
        PROVE  file[u] # f
    BY <1>7, <2>1 DEF Has
  <2>2. ASSUME NEW u \in User \ {t}, pc[u] \in {"read", "write", "accept"}
        PROVE  file[u] # f
    BY <1>7, <2>2 DEF NInv, InUse
  <2>3. \A u \in User : pc[u] \in {"read", "write", "accept", "dial"} => file[u] \in Fd
    BY <1>1, Holders
  <2> QED BY <2>1, <2>2, <2>3
<1>9. Polled' = Polled
  BY <1>4 DEF Polled
<1> HIDE DEF f
<1>10. CASE /\ sock[f] = "connected" /\ owns' = [owns EXCEPT ![t] = @ \cup {f}]
            /\ UNCHANGED <<pending, sock, nonblock>>
  <2>1. owns'[t] = owns[t] \cup {f} /\ \A u \in User \ {t} : owns'[u] = owns[u]
    BY <1>2, <1>10
  <2>2. Open' = Open
    BY <1>10 DEF Open
  <2>3. \A g : g \in Owned' <=> g \in Owned \/ g = f
    <3>1. \A g : g \in Owned' <=> \E u \in User : g \in owns'[u]
      BY DEF Owned
    <3>2. \A g : g \in Owned <=> \E u \in User : g \in owns[u]
      BY DEF Owned
    <3> QED BY <2>1, <3>1, <3>2
  <2>4. NTypeOK'
    <3>1. owns' \in [User -> SUBSET Open']
      BY <1>2, <1>7, <1>10, <2>2
    <3> QED BY <1>1, <1>2, <1>6, <1>10, <2>2, <3>1 DEF NTypeOK, IInv
  <2>5. NoLeak'
    <3>1. \A u \in User : \A g : Has(u, g)' <=> Has(u, g)
      <4>1. ASSUME NEW g
            PROVE  Has(t, g)' <=> Has(t, g)
        BY <1>1, <1>3, <2>1 DEF Has, f
      <4>2. ASSUME NEW u \in User \ {t}, NEW g
            PROVE  Has(u, g)' <=> Has(u, g)
        BY <1>3, <2>1 DEF Has
      <4> QED BY <4>1, <4>2
    <3> QED BY <1>1, <2>2, <3>1, Holders, HasFormNext
  <2>6. InUse'
    <3> SUFFICES ASSUME NEW u \in User \ {t}
                 PROVE  /\ pc[u] \in {"user", "read", "write", "accept", "dial"}
                        /\ pc[u] \in {"read", "write"} =>
                             file[u] \in Owned' /\ sock[file[u]] \in {"connected", "failed"}
                        /\ pc[u] = "accept" =>
                             file[u] \in Owned' /\ mode[u] = "r" /\ sock[file[u]] \in {"listening", "deaf"}
                        /\ pc[u] = "dial" =>
                             /\ file[u] \in Open' \ Owned' /\ mode[u] = "w"
                             /\ sock[file[u]] \in {"connecting", "connected", "failed"}
      BY <1>3, <1>10 DEF InUse
    <3> QED BY <1>8, <2>2, <2>3 DEF NInv, InUse
  <2>7. Sockets'
    BY <1>4, <1>10 DEF NInv, Sockets
  <2>8. Woken'
    BY <1>1, <1>3, <1>9, <1>10 DEF NInv, Woken, possible
  <2> QED BY <1>6, <2>4, <2>5, <2>6, <2>7, <2>8 DEF NInv
<1>11. CASE closed(f) /\ owns' = owns
  <2>1. /\ sock' \in [Fd -> {"closed", "listening", "deaf", "connecting", "connected", "failed"}]
        /\ sock'[f] = "closed" /\ \A g \in Fd \ {f} : sock'[g] = sock[g]
    BY <1>2, <1>7, <1>11 DEF closed
  <2>2. Open' = Open \ {f} /\ Owned' = Owned
    BY <1>11, <2>1 DEF Open, Owned
  <2>3. \A g \in Fd \ {f}, m \in Mode : <<g, m>> \in pending => <<g, m>> \in pending'
    BY <1>11 DEF closed
  <2>4. \A m \in Mode : <<f, m>> \notin pending'
    BY <1>11 DEF closed
  <2>5. NTypeOK'
    <3>1. owns' \in [User -> SUBSET Open']
      <4>1. \A u \in User : owns[u] \subseteq Open /\ f \notin owns[u]
        BY <1>2, <1>7 DEF Owned
      <4> QED BY <1>2, <1>11, <2>2, <4>1
    <3>2. nonblock' \subseteq Open'
      BY <1>2, <1>11, <2>2 DEF closed
    <3> QED BY <1>1, <1>2, <1>6, <2>1, <3>1, <3>2 DEF NTypeOK, IInv
  <2>6. NoLeak'
    <3>1. \A u \in User : \A g : Has(u, g)' <=> Has(u, g) /\ g # f
      <4>1. ASSUME NEW g
            PROVE  Has(t, g)' <=> Has(t, g) /\ g # f
        <5>1. f \notin owns[t]
          BY <1>7 DEF Owned
        <5> QED BY <1>1, <1>3, <1>11, <5>1 DEF Has, f
      <4>2. ASSUME NEW u \in User \ {t}, NEW g
            PROVE  Has(u, g)' <=> Has(u, g) /\ g # f
        BY <1>3, <1>7, <1>11 DEF Has
      <4> QED BY <4>1, <4>2
    <3> QED BY <1>1, <2>2, <3>1, Holders, HasFormNext
  <2>7. InUse'
    <3> SUFFICES ASSUME NEW u \in User \ {t}
                 PROVE  /\ pc[u] \in {"user", "read", "write", "accept", "dial"}
                        /\ pc[u] \in {"read", "write"} =>
                             file[u] \in Owned' /\ sock'[file[u]] \in {"connected", "failed"}
                        /\ pc[u] = "accept" =>
                             file[u] \in Owned' /\ mode[u] = "r" /\ sock'[file[u]] \in {"listening", "deaf"}
                        /\ pc[u] = "dial" =>
                             /\ file[u] \in Open' \ Owned' /\ mode[u] = "w"
                             /\ sock'[file[u]] \in {"connecting", "connected", "failed"}
      BY <1>3 DEF InUse
    <3> QED BY <1>8, <2>1, <2>2 DEF NInv, InUse
  <2>8. Sockets'
    <3>1. ASSUME NEW g \in Fd, sock'[g] \in {"closed", "connecting"}, NEW a \in Mode
          PROVE  <<g, a>> \notin pending'
      <4>1. CASE g = f
        BY <2>4, <4>1
      <4>2. CASE g # f
        BY <1>5, <2>1, <3>1, <4>2 DEF NInv, Sockets
      <4> QED BY <4>1, <4>2
    <3>2. ASSUME NEW g \in Fd, sock'[g] \in {"listening", "deaf"}
          PROVE  g \in nonblock'
      <4>1. g # f /\ sock[g] \in {"listening", "deaf"}
        BY <2>1, <3>2
      <4> QED BY <1>11, <4>1 DEF NInv, Sockets, closed
    <3> QED BY <1>4, <3>1, <3>2 DEF Sockets
  <2>9. Woken'
    <3> SUFFICES ASSUME NEW u \in User \ {t}, u \notin Polled
                 PROVE  /\ pc[u] = "accept" => possible(file[u], "r")' \/ u \in robbed
                        /\ pc[u] = "dial" => sock'[file[u]] # "connecting"
      BY <1>1, <1>3, <1>9 DEF Woken
    <3>1. ASSUME pc[u] = "accept", possible(file[u], "r")
          PROVE  possible(file[u], "r")'
      <4>1. file'[u] = file[u] /\ file[u] \in Fd \ {f} /\ {"r", "e"} \subseteq Mode
        BY <1>3, <1>8, <3>1 DEF Mode
      <4>2. \E m \in {"r", "e"} : <<file[u], m>> \in pending
        BY <3>1 DEF possible
      <4>3. \E m \in {"r", "e"} : <<file[u], m>> \in pending'
        BY <2>3, <4>1, <4>2
      <4> QED BY <4>1, <4>3 DEF possible
    <3> QED BY <1>8, <2>1, <3>1 DEF NInv, Woken
  <2> QED BY <1>6, <2>5, <2>6, <2>7, <2>8, <2>9 DEF NInv
<1> QED BY <1>10, <1>11 DEF netdial_resume, f

(* A program closes a descriptor it owns. *)
LEMMA NCloseKeeps ==
  ASSUME NInv, NEW t \in User, NEW f \in Fd, closefd(t, f)
  PROVE  NInv'
<1>1. prog = "running" /\ IInv /\ f \in owns[t] /\ \A u \in User : file[u] # f
  BY DEF closefd, Call, Running, NInv
<1>2. /\ sock \in [Fd -> {"closed", "listening", "deaf", "connecting", "connected", "failed"}]
      /\ nonblock \subseteq Open /\ owns \in [User -> SUBSET Open] /\ robbed \subseteq User
      /\ pending \subseteq Fd \X Mode /\ Open \subseteq Fd
  BY <1>1, Holders
<1>3. /\ UNCHANGED <<schedvars, taskvars, timevars, countvars, loopvars, pollfd, clock, robbed>>
      /\ sock' = [sock EXCEPT ![f] = "closed"] /\ nonblock' = nonblock \ {f}
      /\ pending' = {e \in pending : e[1] # f} /\ owns' = [owns EXCEPT ![t] = @ \ {f}]
  BY DEF closefd, closed
<1>4. UNCHANGED <<lists, taskrunning, prog, pc, file, mode, pollfd, robbed>>
  BY <1>3 DEF schedvars, taskvars
<1>5. IInv'
  <2>1. pending' \in SUBSET (Fd \X Mode)
    BY <1>2, <1>3
  <2> QED BY <1>1, <1>3, <2>1, EventKeeps
<1>6. /\ sock' \in [Fd -> {"closed", "listening", "deaf", "connecting", "connected", "failed"}]
      /\ sock'[f] = "closed" /\ \A g \in Fd \ {f} : sock'[g] = sock[g]
  BY <1>2, <1>3
<1>7. Open' = Open \ {f}
  BY <1>6 DEF Open
<1>8. owns'[t] = owns[t] \ {f} /\ \A u \in User \ {t} : owns'[u] = owns[u] /\ f \notin owns[u]
  BY <1>1, <1>2, <1>3, Holders DEF Has
<1>9. \A g : g \in Owned' <=> g \in Owned /\ g # f
  <2>1. \A g : g \in Owned' <=> \E u \in User : g \in owns'[u]
    BY DEF Owned
  <2>2. \A g : g \in Owned <=> \E u \in User : g \in owns[u]
    BY DEF Owned
  <2>3. \A u \in User : \A g : g \in owns'[u] <=> g \in owns[u] /\ g # f
    BY <1>8
  <2> QED BY <2>1, <2>2, <2>3
<1>10. NTypeOK'
  <2>1. owns' \in [User -> SUBSET Open']
    <3>1. \A u \in User : owns'[u] \subseteq Open'
      BY <1>2, <1>7, <1>8
    <3> QED BY <1>2, <1>3, <3>1
  <2>2. nonblock' \subseteq Open' /\ robbed' \subseteq User
    BY <1>2, <1>3, <1>7
  <2> QED BY <1>5, <1>6, <2>1, <2>2 DEF NTypeOK, IInv
<1>11. \A u \in User : pc[u] \in {"read", "write", "accept", "dial"} =>
          file[u] \in Fd /\ file[u] # f /\ sock'[file[u]] = sock[file[u]]
  BY <1>1, <1>2, <1>6, Holders
<1>12. NoLeak'
  <2>1. \A u \in User : \A g : Has(u, g)' <=> Has(u, g) /\ g # f
    BY <1>1, <1>4, <1>8 DEF Has
  <2> QED BY <1>1, <1>7, <2>1, Holders, HasFormNext
<1>13. InUse'
  BY <1>4, <1>7, <1>9, <1>11 DEF NInv, InUse
<1>14. Sockets'
  <2>1. ASSUME NEW g \in Fd, sock'[g] \in {"closed", "connecting"}, NEW a \in Mode
        PROVE  <<g, a>> \notin pending'
    <3>1. CASE g = f
      BY <1>3, <3>1
    <3>2. CASE g # f
      BY <1>3, <1>6, <2>1, <3>2 DEF NInv, Sockets
    <3> QED BY <3>1, <3>2
  <2>2. ASSUME NEW g \in Fd, sock'[g] \in {"listening", "deaf"}
        PROVE  g \in nonblock'
    BY <1>3, <1>6, <2>2 DEF NInv, Sockets
  <2>3. \A k \in DOMAIN pollfd : ~pollfd[k].revents
    BY <1>1, Caller DEF closefd, Call
  <2> QED BY <1>4, <2>1, <2>2, <2>3 DEF Sockets
<1>15. Woken'
  <2> SUFFICES ASSUME NEW u \in User \ Polled
               PROVE  /\ pc[u] = "accept" => possible(file[u], "r")' \/ u \in robbed
                      /\ pc[u] = "dial" => sock'[file[u]] # "connecting"
    <3>1. Polled' = Polled
      BY <1>4 DEF Polled
    <3> QED BY <1>4, <3>1 DEF Woken
  <2>1. possible(file[u], "r") => possible(file[u], "r")'
    BY <1>1, <1>3, <1>4 DEF possible
  <2> QED BY <1>11, <2>1 DEF NInv, Woken
<1> QED BY <1>5, <1>10, <1>12, <1>13, <1>14, <1>15 DEF NInv

LEMMA NInitInv ==
  ASSUME NInit
  PROVE  NInv
<1>1. IInv
  BY InitInv DEF NInit
<1>2. /\ sock = [f \in Fd |-> "closed"] /\ nonblock = {} /\ owns = [t \in User |-> {}] /\ robbed = {}
      /\ pending = {} /\ pollfd = <<>> /\ \A t \in User : pc[t] = "user"
  BY DEF NInit, Init, User
<1>3. Open = {}
  BY <1>2 DEF Open
<1>4. NTypeOK
  BY <1>1, <1>2 DEF NTypeOK, IInv
<1>5. NoLeak
  <2>1. \A t \in User : \A f : ~Has(t, f)
    BY <1>2 DEF Has
  <2> QED BY <1>3, <2>1, HasForm
<1>6. InUse /\ Woken
  BY <1>2 DEF InUse, Woken
<1>7. Sockets
  <2>1. DOMAIN pollfd = {}
    BY <1>2
  <2> QED BY <1>2, <2>1 DEF Sockets
<1> QED BY <1>1, <1>4, <1>5, <1>6, <1>7 DEF NInv

LEMMA NStutterKeeps ==
  ASSUME NInv, UNCHANGED nvars
  PROVE  NInv'
<1>1. IInv'
  BY StutterKeeps DEF NInv, nvars
<1>2. UNCHANGED <<prog, pc, file, mode, pollfd, pending, sock, nonblock, owns, robbed>>
  BY DEF nvars, vars, schedvars, taskvars, kernel, netvars
<1>3. Open' = Open /\ Owned' = Owned /\ Polled' = Polled
  BY <1>2 DEF Open, Owned, Polled
<1>4. NTypeOK' /\ NoLeak' /\ InUse'
  BY <1>1, <1>2, <1>3 DEF NInv, NTypeOK, NoLeak, InUse, IInv
<1>5. Sockets' /\ Woken'
  BY <1>2, <1>3 DEF NInv, Sockets, Woken, possible, reported
<1> QED BY <1>1, <1>4, <1>5 DEF NInv

(* The invariant of Fd and what net.c adds to it hold whatever connections *)
(* are made, accepted, used and broken, and in whatever order.             *)
THEOREM NetInvariant == NSpec => []NInv
<1>1. NInit => NInv
  BY NInitInv
<1>2. NInv /\ [NNext]_nvars => NInv'
  <2> SUFFICES ASSUME NInv, [NNext]_nvars
               PROVE  NInv'
    OBVIOUS
  <2>1. CASE \E f \in Fd : NEvent(f)
    BY <2>1, NEventKeeps
  <2>2. CASE schedule /\ UNCHANGED netvars
    BY <2>2, NScheduleKeeps
  <2>3. CASE fdtask /\ UNCHANGED netvars
    BY <2>3, NFdtaskKeeps
  <2>4. ASSUME NEW t \in User, NetStep(t)
        PROVE  NInv'
    BY <2>4, NAnnounceKeeps, NAcceptKeeps, NAcceptResumeKeeps, NDialKeeps, NDialResumeKeeps,
       NCloseKeeps, NIoKeeps DEF NetStep
  <2>5. CASE UNCHANGED nvars
    BY <2>5, NStutterKeeps
  <2> QED BY <2>1, <2>2, <2>3, <2>4, <2>5 DEF NNext
<1> QED BY <1>1, <1>2, PTL DEF NSpec

(* No path out of netannounce, netaccept and netdial leaks a descriptor or *)
(* leaves it with two tasks.                                               *)
THEOREM NetNoLeak == NSpec => []NoLeak
<1>1. NInv => NoLeak
  BY DEF NInv
<1> QED BY <1>1, NetInvariant, PTL

(* An acceptor that finds the backlog empty was robbed by another task,    *)
(* and does not block the process.                                         *)
THEOREM NetEmptyHanded == NSpec => []EmptyHanded
<1>1. NInv => EmptyHanded
  <2> SUFFICES ASSUME NInv, NEW t \in User, Running(t), pc[t] = "accept", ~possible(file[t], "r")
               PROVE  t \in robbed /\ file[t] \in nonblock
    BY DEF EmptyHanded
  <2>1. t \notin Polled /\ prog = "running"
    BY Caller DEF NInv
  <2>2. t \in robbed
    BY <2>1 DEF NInv, Woken
  <2>3. file[t] \in Fd /\ sock[file[t]] \in {"listening", "deaf"}
    BY <2>1, Holders DEF NInv, InUse
  <2> QED BY <2>2, <2>3 DEF NInv, Sockets
<1> QED BY <1>1, NetInvariant, PTL

(* netdial looks at a connection only once the attempt is decided. *)
THEOREM NetDialSettled == NSpec => []DialSettled
<1>1. NInv => DialSettled
  <2> SUFFICES ASSUME NInv, NEW t \in User, Running(t), pc[t] = "dial"
               PROVE  sock[file[t]] # "connecting"
    BY DEF DialSettled
  <2>1. t \notin Polled
    BY Caller DEF NInv
  <2> QED BY <2>1 DEF NInv, Woken
<1> QED BY <1>1, NetInvariant, PTL

(* The entries of pollfd, and whom fdtask wakes for them, are as exact     *)
(* when connections come and go as when they do not.                       *)
THEOREM NetWakes == NSpec => [](EntriesExact /\ PollWakesExactly)
<1>1. NInv => EntriesExact /\ PollWakesExactly
  BY DEF NInv, IInv
<1> QED BY <1>1, NetInvariant, PTL
=============================================================================
