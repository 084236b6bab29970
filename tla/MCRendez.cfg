\* Four tasks, one lock, a rendezvous with that lock and one without.
CONSTANTS
  t1 = t1
  t2 = t2
  t3 = t3
  t4 = t4
  runq = runq
  l1 = l1
  r1 = r1
  r2 = r2
  nil = nil
  Task = {t1, t2, t3, t4}
  List = {runq, l1, r1, r2}
  RunQ = runq
  Lock = {l1}
  Rendez = {r1, r2}
  lockof <- MClockof
SPECIFICATION RFairSpec
INVARIANT IInv
INVARIANT MutualExclusion
INVARIANT SleepersExact
PROPERTY SleepReleasesAndRetakes
PROPERTY NoStarvation
\* Nobody may be left to wake the sleepers.
CHECK_DEADLOCK FALSE
