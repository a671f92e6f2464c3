SPECIFICATION Spec
CONSTANTS
  Packets = {1, 2, 3, 4, 5}
  Size <- MixedSize
  Retransmittable = {1, 2, 3, 4, 5}
  Mss = 2
  MaxBurst = 2
  InitCwnd = 4
  MaxCwnd = 8
  MinCwnd = 1
  Reduction = FALSE
  RttMin = 1
  Rtts = {2, 5}
  Threshold = 2
  Ages = {0, 1}
  MaxTv = 8
  MaxMeasured = 0
  MinSamples = 2
  LowWindow = 4
INVARIANTS CwndBounded RecoveryDrains
PROPERTIES OneCutPerFlight NoGrowthInRecovery
CHECK_DEADLOCK FALSE
