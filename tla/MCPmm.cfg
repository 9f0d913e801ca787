SPECIFICATION PmmFairSpec
CONSTANTS
  PAGE_SIZE = 2
  MAX_ORDER = 2
  MemoryMaps <- Maps
  Offsets <- HigherHalf
  Pools <- MapPools
  RequestSizes <- Sizes
INVARIANTS
  TypeOK NoOverlap PoolCovered HeadersMatch GrantFits FullyCoalesced Restored ReportExact
  OnlyUsableMemory UsableAccounted PhysicallyAligned
PROPERTIES
  RefusalJustified CallsReturn KeepsPromise
