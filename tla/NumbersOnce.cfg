SPECIFICATION Spec
CONSTANTS
  Modulus = 20
  First = 15
  Period = 3
  Divisor = 6
  Rands = {0, 3, 9, 11}
  MallocFails = TRUE
  MaxConsumed = 23
INVARIANTS SkipAhead LeftOutRegularly ExistedBeforeGap
PROPERTIES NeverReused
CHECK_DEADLOCK FALSE
