SPECIFICATION FairSpec
CONSTANTS
  Characters <- Levels
  MaxNested = 3
  Vectors <- SomeVectors
  MaxExceptions = 2
  MaxUngiven = 2
  DefaultHandler <- DefaultAt
  IsrStubs <- StubsAt
  TssAddress <- TssAt
INVARIANTS
  PanicReady TablesDecode
PROPERTIES
  LineReliable BootEnds HaltsExplained
CHECK_DEADLOCK FALSE
