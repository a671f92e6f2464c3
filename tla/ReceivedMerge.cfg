SPECIFICATION Spec
CONSTANTS
  Modulus = 8
  PNums = {0, 1, 2, 3}
  Duplicates = FALSE
INVARIANTS AckMerged
