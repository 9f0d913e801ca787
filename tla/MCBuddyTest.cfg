SPECIFICATION TestSpec
CONSTANTS
  PAGE_SIZE = 1
  MAX_ORDER = 11
  NUM_BLOCKS = 50
  Pools <- KernelPools
  RequestSizes <- TestSizes
INVARIANTS
  FreesItsBlocks
PROPERTIES
  TestEnds
CHECK_DEADLOCK FALSE
