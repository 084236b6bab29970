\* Three tasks and two descriptor numbers, with room for three waits.
CONSTANTS
  t1 = t1
  t2 = t2
  t3 = t3
  fdt = fdt
  runq = runq
  sleeping = sleeping
  f1 = f1
  f2 = f2
  nil = nil
  Task = {t1, t2, t3, fdt}
  Fdtask = fdt
  List = {runq, sleeping}
  RunQ = runq
  Sleeping = sleeping
  Fd = {f1, f2}
  MAXFD = 3
  Msec = 2
  MaxWait = 1
  Delay = {}
  Horizon = 0
  Count = 2
  Calls = {"read", "read1", "write", "announce", "accept", "dial", "close"}
SPECIFICATION NSpec
INVARIANT EntriesExact
INVARIANT PollWakesExactly
INVARIANT NoLeak
INVARIANT EmptyHanded
INVARIANT DialSettled
SYMMETRY Symmetry
\* The program may end in a failing poll.
CHECK_DEADLOCK FALSE
