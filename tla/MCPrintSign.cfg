\* Decimal numbers, with and without their sign.
CONSTANTS
  IntBits = 10
  LongBits = 12
  Strerror <- hi
  Jobs <- Decimals
SPECIFICATION Spec
INVARIANT LikePrintf
\* The call returns.
CHECK_DEADLOCK FALSE
