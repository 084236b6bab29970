\* Three task structures, reused; the array grows by two slots; the switch counter wraps at four.
CONSTANTS
  t1 = t1
  t2 = t2
  t3 = t3
  runq = runq
  nil = nil
  Task = {t1, t2, t3}
  Main = t1
  List = {runq}
  RunQ = runq
  Status = {0, 1}
  Chunk = 2
  Wrap = 4
SPECIFICATION FairSpec
INVARIANT CountExact
INVARIANT AlltaskExact
INVARIANT QueueExact
INVARIANT YieldResult
INVARIANT LastExitEndsProgram
PROPERTY EndsForAReason
PROPERTY ReadyRuns
\* The program ends.
CHECK_DEADLOCK FALSE
