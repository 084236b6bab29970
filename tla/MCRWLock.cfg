\* Four tasks, each reader or writer at will: nobody starves.
CONSTANTS
  t1 = t1
  t2 = t2
  t3 = t3
  t4 = t4
  runq = runq
  rw = rw
  ww = ww
  nil = nil
  Task = {t1, t2, t3, t4}
  List = {runq, rw, ww}
  RunQ = runq
  rwaiting = rw
  wwaiting = ww
SPECIFICATION FairSpec
INVARIANT IInv
INVARIANT Exclusion
PROPERTY ReadersGetIn
PROPERTY WritersGetIn
