\* Three tasks that delay, and may write to one descriptor; a millisecond is two clock units and a poll lasts at most one.
CONSTANTS
  t1 = t1
  t2 = t2
  t3 = t3
  fdt = fdt
  runq = runq
  sleeping = sleeping
  f1 = f1
  nil = nil
  Task = {t1, t2, t3, fdt}
  Fdtask = fdt
  List = {runq, sleeping}
  RunQ = runq
  Sleeping = sleeping
  Fd = {f1}
  MAXFD = 2
  Msec = 2
  MaxWait = 1
  Delay = {0, 1, 2}
  Horizon = 4
  Count = 1
  Calls = {"yield", "delay", "write", "system", "exit"}
SPECIFICATION Spec
INVARIANT IInv
INVARIANT CountExact
INVARIANT OnePlace
INVARIANT PollOnlyWhenIdle
INVARIANT PollInTime
INVARIANT DelayLongEnough
PROPERTY NoneOverslept
SYMMETRY Symmetry
\* The program ends.
CHECK_DEADLOCK FALSE
