SPECIFICATION Spec
CONSTANTS
  Modulus = 8
  PNums = {0, 1, 2, 3, 4, 5}
  Duplicates = TRUE
INVARIANTS NoFalseAck NothingLost AckFits EndsApart
PROPERTIES ImplementsPacketSet
