\* Three tasks, an unbuffered channel and one with a buffer of two elements, choices of two, nil pointers.
CONSTANTS
  t1 = t1
  t2 = t2
  t3 = t3
  runq = runq
  nil = nil
  c0 = c0
  c2 = c2
  one = one
  zero = zero
  Task = {t1, t2, t3}
  List = {runq}
  RunQ = runq
  Chan = {c0, c2}
  Value = {zero, one}
  Zero = zero
  bufsize <- MCbufsize
  Alts <- MCAlts
  Sendv = {nil, one}
  Recvv = {zero}
SPECIFICATION Spec
INVARIANT TypeOK
INVARIANT QueuesExact
INVARIANT NoMissedRendezvous
INVARIANT StallIsDeadlock
PROPERTY IsFifo
SYMMETRY Symmetry
\* Programs may wait for each other for ever.
CHECK_DEADLOCK FALSE
