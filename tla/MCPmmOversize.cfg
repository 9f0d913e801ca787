SPECIFICATION PmmSpec
CONSTANTS
  PAGE_SIZE = 2
  MAX_ORDER = 2
  MemoryMaps <- Maps
  Offsets <- HigherHalf
  Pools <- MapPools
  RequestSizes <- Sizes
INVARIANTS
  OversizeRefused
