SPECIFICATION Spec
CONSTANTS
  Strings <- Text
  Scalars <- Numbers
  MAX_LEVEL = 4
  MaxDepth = 3
  MaxItems = 4
INVARIANTS
  Readable ReportsPosition
