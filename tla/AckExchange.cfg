SPECIFICATION ExchangeSpec
CONSTANTS
  Modulus = 9
  PNums = {0, 1, 2, 3, 4, 5}
  Duplicates = FALSE
  Low = 2
  Delays = {15, 1024}
  Ecn <- MCEcn
  Rests <- MCRests
  Beyonds = {0, 7}
INVARIANTS AckDescending SizeSuffices WireTruthful FirstBlockHeard HeardWhenFollowed
PROPERTIES DeleteIsExact
