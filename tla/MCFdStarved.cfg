\* Two tasks, of which one may go on yielding.
CONSTANTS
  t1 = t1
  t2 = t2
  fdt = fdt
  runq = runq
  sleeping = sleeping
  f1 = f1
  nil = nil
  Task = {t1, t2, fdt}
  Fdtask = fdt
  List = {runq, sleeping}
  RunQ = runq
  Sleeping = sleeping
  Fd = {f1}
  MAXFD = 2
  Msec = 2
  MaxWait = 1
  Delay = {0, 1, 2}
  Horizon = 4
  Count = 1
  Calls = {"delay", "yield"}
SPECIFICATION FairSpec
PROPERTY DelayEnds
\* The program ends.
CHECK_DEADLOCK FALSE
