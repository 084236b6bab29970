\* Ints of ten bits, longs of twelve.
CONSTANTS
  IntBits = 10
  LongBits = 12
  Strerror <- hi
  Jobs <- MCJobs
SPECIFICATION Spec
INVARIANT InBounds
 
INVARIANT ReadsBack
\* The call returns.
CHECK_DEADLOCK FALSE
