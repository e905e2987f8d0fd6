SPECIFICATION LiveSpec
CONSTANTS
  MaxInFlight = 2
  FifoDepth = 4
  Internal = 2
  PageSize = 3
  SizeMod = 5
  MaxSectors = 2
INVARIANTS
  FlashInv
  NoOverflow
  EndsReady
PROPERTY AbortEnds
