SPECIFICATION Spec
CONSTANTS
  Width = 8
  Bases <- AllBases
  MemorySize = 6
  Letters <- TwoLetters
  Bytes <- SomeBytes
  MaxString = 4
INVARIANTS
  MemoryFunctions ItoaReadsBack EndsButForFirst QuotesReadBack
CHECK_DEADLOCK FALSE
