SPECIFICATION PacketsSpec
CONSTANTS
  Low = 2
  PathLength = 3
  FrameSet <- MCFrames
  Capacities = {5, 24}
  Junk = {0, 7}
  MallocFails = TRUE
  MaxFrames = 2
  Roles = {"long", "short", "version"}
  LongPackets <- MCLongPackets
  ShortPackets <- MCShortPackets
  Structs <- MCStructs
  Sections <- MCSections
  ClientVersions = {7, 600}
  Ids <- MCIds
  MaxFlight = 2
  Bases = {0, 100}
INVARIANTS FramesFit FramesHeard HeardUnlessBare EndNotInvented HeaderFits PayloadFound HeadersRead NumberRecovered OfferedSupported StoreMatchesHeap
