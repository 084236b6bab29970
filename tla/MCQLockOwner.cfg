\* Does qunlock refuse a task that is not the owner?
CONSTANTS
  t1 = t1
  t2 = t2
  t3 = t3
  runq = runq
  l1 = l1
  l2 = l2
  nil = nil
  Task = {t1, t2, t3}
  List = {runq, l1, l2}
  RunQ = runq
  Lock = {l1, l2}
SPECIFICATION AnySpec
PROPERTY OnlyOwnerUnlocks
CHECK_DEADLOCK FALSE
