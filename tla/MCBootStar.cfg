SPECIFICATION Spec
CONSTANTS
  Characters <- Levels
  MaxNested = 3
  Vectors <- SomeVectors
  MaxExceptions = 0
  MaxUngiven = 2
  DefaultHandler <- DefaultAt
  IsrStubs <- StubsAt
  TssAddress <- TssAt
INVARIANTS
  UserSelectors
CHECK_DEADLOCK FALSE
