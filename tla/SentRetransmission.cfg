SPECIFICATION Spec
CONSTANTS
  Packets = {1, 2, 3}
  Retransmittable = {1, 2}
  OneRTT = {1}
  MaxBatch = 2
  MaxDeficit = 1
  ListHead = ListHead
  NULL = NULL
INVARIANTS RetransmissionRecorded
CHECK_DEADLOCK FALSE
