SPECIFICATION MCSpec
CONSTANTS
  JEMS_MAX_LEVEL = 5
  CLIENT_MAX_LEVEL = 10
  Chunk = 3
  MapSizes <- Maps
  BlockCounts <- Counts
  Complex = {}
  MaxCalls = 2
  MaxEntries = 3
  MaxPanics = 2
INVARIANTS
  LinesReadable PanicLogged ShownWereLogged DetailIsClicked
CHECK_DEADLOCK FALSE
