SPECIFICATION Spec
CONSTANTS
  Packets = {1, 2}
  Size <- FullSize
  Retransmittable = {1, 2}
  Mss = 2
  MaxBurst = 2
  InitCwnd = 6
  MaxCwnd = 10
  MinCwnd = 2
  Reduction = FALSE
  RttMin = 2
  Rtts = {0, 2, 5}
  Threshold = 2
  Ages = {0, 1}
  MaxTv = 8
  MaxMeasured = 4
  MinSamples = 3
  LowWindow = 3
INVARIANTS DelayExitNeedsSamples EstimatesInRange
PROPERTIES SlowStartLeft
CHECK_DEADLOCK FALSE
