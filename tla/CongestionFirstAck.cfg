SPECIFICATION Spec
CONSTANTS
  Packets = {1, 2, 3, 4}
  Size <- FullSize
  Retransmittable = {1, 2, 4}
  Mss = 2
  MaxBurst = 2
  InitCwnd = 6
  MaxCwnd = 10
  MinCwnd = 2
  Reduction = FALSE
  RttMin = 1
  Rtts = {2, 5}
  Threshold = 2
  Ages = {0, 1}
  MaxTv = 8
  MaxMeasured = 0
  MinSamples = 2
  LowWindow = 4
PROPERTIES FirstAckGrowth
CHECK_DEADLOCK FALSE
